------------------------- MODULE Persistence_proofs -------------------------
(***************************************************************************)
(* The invariants of Persistence, for any number of rooms, any contents,   *)
(* any flush interval and heartbeat and any length of run.                 *)
(***************************************************************************)
EXTENDS Persistence, TLAPS

\* Nothing is dated in the future.
Dated ==
    /\ clock >= 2
    /\ \A r \in Code : waited[r] <= clock /\ onDisk[r] <= clock /\ asOf[r] <= clock
    /\ Source.at <= clock
    /\ flush # None => flush.at = clock /\ \A r \in Code : flush.waited[r] <= clock

\* Since when the member of a record has been away, as the record has it, is for
\* how long it has waited, at time now.
AgeTrue(rooms, now, ages) ==
    \A r \in Code : rooms[r] # None /\ rooms[r].since # 0 =>
        rooms[r].since <= now /\ now - rooms[r].since = ages[r]

\* That is so in memory, in the flush under way and on disk.
Ages ==
    /\ phase \notin {"down", "stopped"} => AgeTrue(mem, clock, waited)
    /\ flush # None => AgeTrue(flush.rooms, flush.at, flush.waited)
    /\ AgeTrue(Source.rooms, Source.at, onDisk)

\* How far a start, a migration or a stop has got, and what that leaves.
Steps ==
    /\ flush # None =>
         /\ phase \in {"migrating", "up", "saving"}
         /\ phase = "migrating" => flush.force
         /\ flush.force => phase # "up" /\ flush.rooms = mem
    /\ phase \in {"saved", "consumed", "up", "saving", "stopped"} => persisted = disk.rooms
    /\ phase \in {"saved", "consumed"} => Holds(disk.rooms) # {}
    /\ phase \in {"up", "saving", "stopped"} => bucket = None /\ file = None
    /\ phase = "consumed" => bucket = None

\* The snapshots of older versions have rooms, and while they are migrated the
\* rooms in memory are what the next start would restore.
Migrates ==
    /\ bucket # None => Holds(bucket.rooms) # {}
    /\ file # None => Holds(file.rooms) # {}
    /\ phase = "migrating" =>
         /\ persisted = NoRooms /\ Holds(mem) # {}
         /\ \A r \in Code :
              /\ mem[r] = None => disk.rooms[r] = None
              /\ mem[r] # None => mem[r].since # 0
              /\ Restorable(r) = IF mem[r] = None THEN None
                                 ELSE [content |-> mem[r].content,
                                       age |-> clock - mem[r].since]

\* Ticks that can have passed since the flusher last looked at the rooms.
Unflushed == IF flush = None THEN ticker ELSE StateFlushInterval

\* How old what is on disk can be.
Fresh ==
    /\ Running => \A r \in Code : mem[r] = Source.rooms[r] => asOf[r] = clock
    /\ Running /\ ~failing => \A r \in Code : clock - asOf[r] <= Unflushed
    /\ phase \in {"migrating", "saved", "consumed"} => \A r \in Code : asOf[r] = clock
    /\ phase = "stopped" /\ ~failing => Source.rooms = mem

\* How old the timestamp can be.
Stamped ==
    /\ phase # "down" /\ lastFlush # 0 => disk.at = lastFlush
    /\ phase = "migrating" => lastFlush = 0
    /\ phase \in {"saved", "consumed"} => lastFlush = clock
    /\ Running /\ ~failing /\ lastFlush # 0 => clock - lastFlush < FlushHeartbeat + Unflushed

\* The inductive invariant.
IInv == TypeOK /\ Dated /\ Ages /\ Steps /\ Migrates /\ Fresh /\ Stamped

-----------------------------------------------------------------------------
(* What the operators return.                                              *)

\* What LoadState reads is a snapshot.
LEMMA SourceType == TypeOK => Source \in Snapshot
BY DEF TypeOK, Source

\* It depends on the database and the files only.
LEMMA SourceKept == UNCHANGED stored => Source' = Source
BY DEF stored, Source, Holds

\* A snapshot has rooms and a time.
LEMMA SnapshotFields ==
    ASSUME NEW s \in Snapshot
    PROVE  s.rooms \in Rooms /\ s.at \in Nat /\ s.at <= MaxClock
BY PersistenceAssumption DEF Snapshot, Time

\* A record has a content and a time.
LEMMA RoomFields ==
    ASSUME NEW rs \in Rooms, NEW r \in Code, rs[r] # None
    PROVE  /\ rs[r] \in Room /\ rs[r].content \in Content
           /\ rs[r].since \in Nat /\ rs[r].since <= MaxClock
           /\ rs[r] = [content |-> rs[r].content, since |-> rs[r].since]
BY PersistenceAssumption DEF Rooms, Room, Time

\* A restored member has waited for as long as when the snapshot was taken, and
\* not at all if it was connected then.
LEMMA RestoreIs ==
    ASSUME NEW rec \in Room, NEW at \in Nat, clock \in Nat, at <= clock,
           rec.since <= at
    PROVE  Restore(rec, at) =
             [content |-> rec.content,
              since |-> IF rec.since = 0 THEN clock ELSE rec.since + (clock - at)]
<1>1. rec = [content |-> rec.content, since |-> rec.since] /\ rec.since \in Nat
  BY DEF Room, Time
<1> QED
  BY <1>1 DEF Restore

\* A time moved by the downtime is as long ago as it was when the server stopped.
LEMMA Shifted ==
    ASSUME NEW since \in Nat, NEW at \in Nat, NEW now \in Nat,
           since # 0, since <= at, at <= now
    PROVE  /\ since + (now - at) \in Nat /\ since + (now - at) # 0
           /\ since + (now - at) <= now
           /\ now - (since + (now - at)) = at - since
OBVIOUS

\* A flush leaves on disk exactly the rooms of its snapshot, whether it writes
\* what differs from what it knows to be stored or knows of nothing stored.
LEMMA StoredIs ==
    ASSUME TypeOK, flush # None, Steps, Migrates
    PROVE  Stored = flush.rooms
<1>1. flush.rooms \in Rooms
  BY DEF TypeOK, Flush
<1>2. ASSUME NEW r \in Code PROVE Stored[r] = flush.rooms[r]
  <2>1. CASE phase = "migrating"
    BY <2>1 DEF Stored, Steps, Migrates, NoRooms
  <2>2. CASE phase # "migrating"
    BY <2>2 DEF Stored, Steps
  <2> QED
    BY <2>1, <2>2
<1> QED
  BY <1>1, <1>2 DEF Stored, Rooms

\* The numbers are naturals.
LEMMA Numbers ==
    ASSUME TypeOK
    PROVE  /\ clock \in Nat /\ clock <= MaxClock /\ lastFlush \in Nat /\ ticker \in Nat
           /\ ticker <= StateFlushInterval /\ disk.at \in Nat
           /\ waited \in [Code -> Nat] /\ onDisk \in [Code -> Nat] /\ asOf \in [Code -> Nat]
           /\ flush # None => /\ flush \in Flush /\ flush.rooms \in Rooms
                              /\ flush.waited \in [Code -> Nat] /\ flush.at \in Nat
BY PersistenceAssumption DEF TypeOK, Time, Flush, Snapshot

-----------------------------------------------------------------------------
(* Every step keeps IInv: first those that touch neither the rooms nor what *)
(* is stored.                                                               *)

\* The beginning of a shutdown keeps IInv.
LEMMA ShutdownInv == IInv /\ Shutdown => IInv'
<1> SUFFICES ASSUME IInv, Shutdown PROVE IInv'
  OBVIOUS
<1> USE DEF Shutdown, server, stored, history
<1>1. Source' = Source
  BY SourceKept
<1>2. TypeOK'
  BY DEF IInv, TypeOK
<1>3. Dated'
  BY <1>1 DEF IInv, Dated
<1>4. Ages'
  BY <1>1 DEF IInv, Ages, AgeTrue
<1>5. Steps'
  BY DEF IInv, Steps, Holds
<1>6. Migrates'
  BY DEF IInv, Migrates, Holds
<1>7. Fresh'
  BY <1>1 DEF IInv, Fresh, Running, Unflushed
<1>8. Stamped'
  BY DEF IInv, Stamped, Running, Unflushed
<1> QED
  BY <1>2, <1>3, <1>4, <1>5, <1>6, <1>7, <1>8 DEF IInv

\* A crash keeps IInv: what is stored is as it was.
LEMMA CrashInv == IInv /\ Crash => IInv'
<1> SUFFICES ASSUME IInv, Crash PROVE IInv'
  OBVIOUS
<1> USE DEF Crash, stored, history
<1>1. Source' = Source
  BY SourceKept
<1>2. TypeOK'
  BY DEF IInv, TypeOK, NoRooms, Rooms
<1>3. Dated'
  BY <1>1 DEF IInv, Dated
<1>4. Ages'
  BY <1>1 DEF IInv, Ages, AgeTrue
<1>5. Steps'
  BY DEF Steps
<1>6. Migrates'
  BY DEF IInv, Migrates, Holds
<1>7. Fresh' /\ Stamped'
  BY DEF Fresh, Stamped, Running
<1> QED
  BY <1>2, <1>3, <1>4, <1>5, <1>6, <1>7 DEF IInv

\* The snapshot a flush begins with.
LEMMA FlushBegun ==
    ASSUME TypeOK, NEW force \in BOOLEAN
    PROVE  LET f == [rooms |-> mem, waited |-> waited, at |-> clock, force |-> force]
           IN  f \in Flush /\ f # None
BY PersistenceAssumption DEF TypeOK, Flush

\* SaveState, of the migration or of the shutdown, keeps IInv.
LEMMA SaveStateInv == IInv /\ SaveState => IInv'
<1> SUFFICES ASSUME IInv, SaveState PROVE IInv'
  OBVIOUS
<1> USE DEF SaveState, stored, history
<1>1. Source' = Source
  BY SourceKept
<1>2. /\ flush' = [rooms |-> mem, waited |-> waited, at |-> clock, force |-> TRUE]
      /\ flush' \in Flush /\ flush' # None /\ flush = None
  BY FlushBegun DEF BeginFlush, Skip, IInv
<1>3. TypeOK'
  BY <1>2 DEF IInv, TypeOK
<1>4. Dated'
  BY <1>1, <1>2 DEF IInv, Dated
<1>5. Ages'
  BY <1>1, <1>2 DEF IInv, Ages, AgeTrue
<1>6. Steps'
  BY <1>2 DEF IInv, Steps, Holds
<1>7. Migrates'
  BY <1>1 DEF IInv, Migrates, Holds, Restorable
<1>8. Unflushed <= Unflushed' /\ Unflushed \in Nat /\ Unflushed' \in Nat
  BY <1>2, Numbers, PersistenceAssumption DEF IInv, Unflushed
<1>9. Fresh'
  BY <1>1, <1>8, Numbers DEF IInv, Fresh, Running
<1>10. Stamped'
  BY <1>8, Numbers, PersistenceAssumption DEF IInv, Stamped, Running
<1> QED
  BY <1>3, <1>4, <1>5, <1>6, <1>7, <1>9, <1>10 DEF IInv

\* The flusher waking up keeps IInv: it skips only when the rooms are as they
\* are on disk and the timestamp is not old.
LEMMA RunStateFlusherInv == IInv /\ RunStateFlusher => IInv'
<1> SUFFICES ASSUME IInv, RunStateFlusher PROVE IInv'
  OBVIOUS
<1> USE DEF RunStateFlusher, stored, history
<1>1. Source' = Source
  BY SourceKept
<1>2. flush = None /\ Running /\ ticker = StateFlushInterval /\ ticker' = 0
  BY DEF BeginFlush
<1>3. \/ /\ flush' = [rooms |-> mem, waited |-> waited, at |-> clock, force |-> FALSE]
         /\ flush' \in Flush /\ flush' # None
      \/ /\ flush' = None /\ mem = persisted /\ clock - lastFlush < FlushHeartbeat
         /\ lastFlush # 0
  BY FlushBegun DEF BeginFlush, Skip, IInv
<1>4. TypeOK'
  BY <1>3, PersistenceAssumption DEF IInv, TypeOK
<1>5. Dated'
  BY <1>1, <1>3 DEF IInv, Dated
<1>6. Ages'
  BY <1>1, <1>2, <1>3 DEF IInv, Ages, AgeTrue, Running
<1>7. Steps'
  BY <1>2, <1>3 DEF IInv, Steps, Holds, Running
<1>8. Migrates'
  BY <1>2 DEF IInv, Migrates, Holds, Running
<1>9. Fresh'
  <2>1. Source = disk
    BY <1>2 DEF IInv, Steps, Running, Source
  <2>2. CASE flush' # None
    BY <1>1, <1>2, <2>2 DEF IInv, Fresh, Running, Unflushed
  <2>3. CASE flush' = None
    <3>1. \A r \in Code : asOf[r] = clock
      BY <1>2, <1>3, <2>1, <2>3 DEF IInv, Steps, Fresh, Running
    <3> QED
      BY <1>1, <1>2, <2>3, <3>1, Numbers DEF IInv, Fresh, Running, Unflushed
  <2> QED
    BY <2>2, <2>3
<1>10. Stamped'
  BY <1>2, <1>3, Numbers, PersistenceAssumption DEF IInv, Stamped, Running, Unflushed
<1> QED
  BY <1>4, <1>5, <1>6, <1>7, <1>8, <1>9, <1>10 DEF IInv

-----------------------------------------------------------------------------
(* The handlers and the clock.                                             *)

\* A handler that changes a room keeps IInv, if the room's member has waited for
\* as long as the new record says.
LEMMA WriteInv ==
    ASSUME IInv, NEW r \in Code, Write(r, mem'[r]), mem'[r] \in Room \cup {None},
           waited' = [waited EXCEPT ![r] = waited'[r]],
           waited'[r] \in Nat, waited'[r] <= clock,
           mem'[r] # None /\ mem'[r].since # 0 =>
             mem'[r].since <= clock /\ clock - mem'[r].since = waited'[r]
    PROVE  IInv'
<1> USE DEF Write, stored
<1> DEFINE rec == mem'[r]
           w == waited'[r]
<1>1. Source' = Source
  BY SourceKept
<1>2. TypeOK'
  BY Numbers, PersistenceAssumption DEF IInv, TypeOK, Rooms, Time
<1>3. \A q \in Code : /\ mem'[q] = IF q = r THEN rec ELSE mem[q]
                      /\ waited'[q] = IF q = r THEN w ELSE waited[q]
                      /\ asOf'[q] = IF q = r /\ rec = Source.rooms[r] THEN clock ELSE asOf[q]
  BY DEF IInv, TypeOK, Rooms
<1>4. Dated'
  BY <1>1, <1>3, Numbers DEF IInv, Dated
<1>5. Ages'
  BY <1>1, <1>3 DEF IInv, Ages, AgeTrue
<1>6. Steps'
  BY DEF IInv, Steps, Holds
<1>7. Migrates'
  BY DEF IInv, Migrates, Holds
<1>8. Fresh'
  <2>1. \A q \in Code : mem'[q] = Source.rooms[q] => asOf'[q] = clock
    BY <1>3 DEF IInv, Fresh, Running
  <2>2. ~failing => \A q \in Code : clock - asOf'[q] <= Unflushed
    BY <1>3, Numbers, PersistenceAssumption DEF IInv, Fresh, Running, Unflushed
  <2> QED
    BY <1>1, <2>1, <2>2 DEF Fresh, Unflushed
<1>9. Stamped'
  BY DEF IInv, Stamped, Running, Unflushed
<1> QED
  BY <1>2, <1>4, <1>5, <1>6, <1>7, <1>8, <1>9 DEF IInv

\* The handlers that found, change or delete a room, and those that note that its
\* member is away or back, keep IInv.
LEMMA HandlersInv ==
    ASSUME IInv, NEW r \in Code, Change(r) \/ Delete(r) \/ Disconnect(r) \/ Reconnect(r)
    PROVE  IInv'
<1>1. /\ clock \in Nat /\ clock <= MaxClock /\ clock \in Time /\ waited \in [Code -> Nat]
      /\ waited[r] \in Nat /\ waited[r] <= clock /\ mem \in Rooms
  BY Numbers DEF IInv, TypeOK, Dated
<1>2. phase = "up" /\ AgeTrue(mem, clock, waited)
  BY DEF Change, Delete, Disconnect, Reconnect, Write, IInv, Ages
<1>3. mem[r] # None => /\ mem[r] \in Room /\ mem[r].content \in Content
                       /\ mem[r].since \in Time
                       /\ mem[r] = [content |-> mem[r].content, since |-> mem[r].since]
  BY <1>1 DEF Rooms, Room
<1>4. 0 \in Time /\ 0 \in Nat /\ 0 <= clock
  BY <1>1, PersistenceAssumption DEF Time
<1>5. CASE Change(r)
  <2>1. PICK x \in Content :
          Write(r, [content |-> x, since |-> IF mem[r] = None THEN 0 ELSE mem[r].since])
    BY <1>5 DEF Change
  <2>2. mem'[r] = [content |-> x, since |-> IF mem[r] = None THEN 0 ELSE mem[r].since]
    BY <1>1, <2>1 DEF Write, Rooms
  <2>3. mem'[r] \in Room /\ Write(r, mem'[r])
    BY <1>3, <1>4, <2>1, <2>2 DEF Room
  <2>4. /\ waited'[r] = IF mem[r] = None THEN 0 ELSE waited[r]
        /\ waited' = [waited EXCEPT ![r] = waited'[r]]
    BY <1>1, <1>5 DEF Change
  <2>5. mem'[r].since # 0 => mem'[r].since <= clock /\ clock - mem'[r].since = waited'[r]
    BY <1>2, <2>2, <2>4 DEF AgeTrue
  <2>6. waited'[r] \in Nat /\ waited'[r] <= clock
    BY <1>1, <1>4, <2>4
  <2> QED
    BY <2>3, <2>4, <2>5, <2>6, WriteInv
<1>6. CASE Delete(r)
  <2>1. mem'[r] = None /\ Write(r, mem'[r])
    BY <1>1, <1>6 DEF Delete, Write, Rooms
  <2>2. waited'[r] = 0 /\ waited' = [waited EXCEPT ![r] = waited'[r]]
    BY <1>1, <1>6 DEF Delete
  <2> QED
    BY <1>4, <2>1, <2>2, WriteInv
<1>7. CASE Disconnect(r)
  <2>1. mem'[r] = [mem[r] EXCEPT !.since = clock] /\ Write(r, mem'[r])
    BY <1>1, <1>7 DEF Disconnect, Write, Rooms
  <2>2. mem'[r] \in Room /\ mem'[r].since = clock
    BY <1>1, <1>3, <1>7, <2>1 DEF Disconnect, Room
  <2>3. waited'[r] = 0 /\ waited' = [waited EXCEPT ![r] = waited'[r]]
    BY <1>1, <1>7 DEF Disconnect
  <2>4. mem'[r].since <= clock /\ clock - mem'[r].since = waited'[r]
    BY <1>1, <2>2, <2>3
  <2> QED
    BY <1>4, <2>1, <2>2, <2>3, <2>4, WriteInv
<1>8. CASE Reconnect(r)
  <2>1. mem'[r] = [mem[r] EXCEPT !.since = 0] /\ Write(r, mem'[r])
    BY <1>1, <1>8 DEF Reconnect, Write, Rooms
  <2>2. mem'[r] \in Room /\ mem'[r].since = 0
    BY <1>1, <1>3, <1>4, <1>8, <2>1 DEF Reconnect, Room
  <2>3. waited'[r] = 0 /\ waited' = [waited EXCEPT ![r] = waited'[r]]
    BY <1>1, <1>8 DEF Reconnect
  <2> QED
    BY <1>4, <2>1, <2>2, <2>3, WriteInv
<1> QED
  BY <1>5, <1>6, <1>7, <1>8

\* The clock keeps IInv.
LEMMA TickInv == IInv /\ Tick => IInv'
<1> SUFFICES ASSUME IInv, Tick PROVE IInv'
  OBVIOUS
<1> USE DEF Tick, stored
<1>1. Source' = Source
  BY SourceKept
<1>2. /\ clock \in Nat /\ clock' = clock + 1 /\ clock' <= MaxClock /\ MaxClock \in Nat
      /\ ticker \in Nat /\ StateFlushInterval \in Nat
      /\ waited \in [Code -> Nat] /\ asOf \in [Code -> Nat]
  BY Numbers, PersistenceAssumption DEF IInv
<1>3. \A r \in Code :
        /\ waited'[r] = IF Running /\ mem[r] # None /\ mem[r].since # 0
                          THEN waited[r] + 1 ELSE waited[r]
        /\ asOf'[r] = IF mem[r] = Source.rooms[r] THEN clock + 1 ELSE asOf[r]
  OBVIOUS
<1>4. \A r \in Code : /\ waited'[r] \in Nat /\ waited'[r] <= clock'
                      /\ asOf'[r] \in Nat /\ asOf'[r] <= clock'
  BY <1>2, <1>3 DEF IInv, Dated
<1>5. TypeOK'
  <2>1. waited' \in [Code -> Time] /\ asOf' \in [Code -> Time]
    BY <1>2, <1>4 DEF Time
  <2>2. clock' \in Time /\ ticker' \in 0..StateFlushInterval
    BY <1>2 DEF IInv, TypeOK, Time
  <2> QED
    BY <2>1, <2>2 DEF IInv, TypeOK
<1>6. flush = None
  BY DEF IInv, Steps, Running
<1>7. Dated'
  <2>1. Source.at \in Nat
    BY SourceType, SnapshotFields DEF IInv
  <2> QED
    BY <1>1, <1>2, <1>4, <1>6, <2>1, Numbers DEF IInv, Dated
<1>8. Ages'
  <2>1. phase \notin {"down", "stopped"} => AgeTrue(mem, clock, waited)'
    <3> SUFFICES ASSUME Running, NEW r \in Code, mem[r] # None, mem[r].since # 0
                 PROVE  mem[r].since <= clock' /\ clock' - mem[r].since = waited'[r]
      BY DEF AgeTrue, Running
    <3>1. mem[r].since \in Nat /\ mem[r].since <= clock /\ clock - mem[r].since = waited[r]
      BY RoomFields DEF IInv, TypeOK, Ages, AgeTrue, Running
    <3> QED
      BY <1>2, <1>3, <3>1
  <2> QED
    BY <1>1, <1>6, <2>1 DEF IInv, Ages, AgeTrue
<1>9. Steps' /\ Migrates'
  BY <1>6 DEF IInv, Steps, Migrates, Holds
<1>10. Fresh'
  <2>1. Running' = Running /\ (Running => Unflushed = ticker /\ Unflushed' = ticker + 1)
    BY <1>6 DEF Running, Unflushed
  <2>2. Running => \A r \in Code : mem[r] = Source.rooms[r] => asOf'[r] = clock'
    BY <1>2, <1>3
  <2>3. Running /\ ~failing => \A r \in Code : clock' - asOf'[r] <= Unflushed'
    BY <1>2, <1>3, <2>1 DEF IInv, Fresh
  <2> QED
    BY <1>1, <2>1, <2>2, <2>3 DEF IInv, Fresh
<1>11. Stamped'
  BY <1>2, <1>6, Numbers, PersistenceAssumption DEF IInv, Stamped, Running, Unflushed
<1> QED
  BY <1>5, <1>7, <1>8, <1>9, <1>10, <1>11 DEF IInv

-----------------------------------------------------------------------------
(* A start and the migration.                                              *)

\* LoadState keeps IInv: the downtime is added to every time, so those who were
\* away have waited for as long as before and those who were connected not at all.
LEMMA LoadStateInv == IInv /\ LoadState => IInv'
<1> SUFFICES ASSUME IInv, LoadState PROVE IInv'
  OBVIOUS
<1> USE DEF LoadState, stored
<1>1. Source' = Source
  BY SourceKept
<1>2. /\ clock \in Nat /\ clock >= 2 /\ clock <= MaxClock /\ clock' = clock
      /\ Source.at \in Nat /\ Source.at <= clock /\ Source.rooms \in Rooms
      /\ onDisk \in [Code -> Nat] /\ \A r \in Code : onDisk[r] <= clock
  BY Numbers, SourceType, SnapshotFields DEF IInv, Dated
<1>4. ASSUME NEW r \in Code, Source.rooms[r] # None
      PROVE  /\ mem'[r] \in Room /\ mem'[r] # None
             /\ mem'[r].since # 0 /\ mem'[r].since <= clock
             /\ mem'[r].content = Source.rooms[r].content
             /\ clock - mem'[r].since = waited'[r]
             /\ clock - mem'[r].since = IF Source.rooms[r].since = 0 THEN 0
                                        ELSE Source.at - Source.rooms[r].since
  <2> DEFINE old == Source.rooms[r]
             since == IF old.since = 0 THEN clock ELSE old.since + (clock - Source.at)
  <2>1. old \in Room /\ old.content \in Content /\ old.since \in Nat
    BY <1>2, <1>4, RoomFields
  <2>2. old.since <= Source.at
    BY <1>2, <1>4, <2>1 DEF IInv, Ages, AgeTrue
  <2>3. old.since # 0 => Source.at - old.since = onDisk[r]
    BY <1>4 DEF IInv, Ages, AgeTrue
  <2>4. mem'[r] = Restore(old, Source.at)
    BY <1>4
  <2>5. Restore(old, Source.at) = [content |-> old.content, since |-> since]
    BY <1>2, <2>1, <2>2, RestoreIs
  <2>6. mem'[r].content = old.content /\ mem'[r].since = since
    BY <2>4, <2>5
  <2>7. /\ since \in Nat /\ since # 0 /\ since <= clock
        /\ clock - since = IF old.since = 0 THEN 0 ELSE Source.at - old.since
    <3>1. CASE old.since = 0
      BY <1>2, <3>1
    <3>2. CASE old.since # 0
      BY <1>2, <2>1, <2>2, <3>2, Shifted
    <3> QED
      BY <3>1, <3>2
  <2>8. mem'[r] \in Room
    <3>1. since \in Time
      BY <1>2, <2>7, PersistenceAssumption DEF Time
    <3> HIDE DEF since
    <3> QED
      BY <2>1, <2>4, <2>5, <3>1 DEF Room
  <2>9. waited'[r] = IF old.since # 0 THEN onDisk[r] ELSE 0
    BY <1>4
  <2> QED
    BY <2>3, <2>6, <2>7, <2>8, <2>9, PersistenceAssumption
<1>5. \A r \in Code : Source.rooms[r] = None => mem'[r] = None /\ waited'[r] = 0
  OBVIOUS
<1>6. mem' \in Rooms /\ waited' \in [Code -> Time] /\ \A r \in Code : waited'[r] <= clock
  <2>1. \A r \in Code : mem'[r] \in Room \cup {None}
    BY <1>4, <1>5
  <2>2. \A r \in Code : waited'[r] \in Nat /\ waited'[r] <= clock
    BY <1>2
  <2>3. \A r \in Code : waited'[r] \in Time
    BY <1>2, <2>2, PersistenceAssumption DEF Time
  <2> QED
    BY <2>1, <2>2, <2>3 DEF Rooms
<1>7. flush = None /\ flush' = None
  BY DEF IInv, Steps
<1>8. TypeOK'
  <2>1. NoRooms \in Rooms /\ disk.rooms \in Rooms /\ 0 \in Time /\ 0 \in 0..StateFlushInterval
    BY PersistenceAssumption DEF IInv, TypeOK, NoRooms, Rooms, Snapshot, Time
  <2>2. asOf' \in [Code -> Time]
    BY DEF IInv, TypeOK
  <2> QED
    BY <1>6, <2>1, <2>2 DEF IInv, TypeOK
<1>9. Dated'
  BY <1>1, <1>2, <1>6, <1>7
     DEF Dated
<1>10. Ages'
  <2>1. AgeTrue(mem, clock, waited)'
    BY <1>4, <1>5 DEF AgeTrue
  <2> QED
    BY <1>1, <1>7, <2>1 DEF IInv, Ages, AgeTrue
<1>11. Steps'
  BY <1>7 DEF Steps
<1>12. Migrates'
  <2>1. CASE phase' = "migrating"
    <3>1. Holds(Source.rooms) # {}
      BY <2>1 DEF IInv, Migrates, Source
    <3>2. Holds(mem)' # {}
      BY <1>4, <3>1 DEF Holds
    <3>3. \A r \in Code : Source.rooms[r] = None => disk.rooms[r] = None
      BY DEF Source, Holds
    <3>4. \A r \in Code : mem'[r] = None => disk.rooms[r] = None
      BY <1>4, <3>3
    <3>5. \A r \in Code : Restorable(r)' = IF mem'[r] = None THEN None
                                           ELSE [content |-> mem'[r].content,
                                                 age |-> clock - mem'[r].since]
      BY <1>1, <1>4, <1>5 DEF Restorable
    <3>6. \A r \in Code : mem'[r] # None => mem'[r].since # 0
      BY <1>4, <1>5
    <3> QED
      BY <2>1, <3>2, <3>4, <3>5, <3>6 DEF IInv, Migrates, Holds
  <2> QED
    BY <2>1 DEF IInv, Migrates, Holds
<1>13. Fresh'
  <2>1. \A r \in Code : asOf'[r] = clock
    OBVIOUS
  <2> QED
    BY <1>2, <1>7, <2>1 DEF Fresh, Running, Unflushed
<1>14. Stamped'
  BY DEF Stamped
<1> QED
  BY <1>8, <1>9, <1>10, <1>11, <1>12, <1>13, <1>14 DEF IInv

\* Once the rooms are written, LoadState reads them and no legacy snapshot.
LEMMA SourceIsDisk ==
    ASSUME Steps, phase \in {"saved", "consumed", "up", "saving", "stopped"}
    PROVE  Source = disk
BY DEF Steps, Source

\* Consuming the snapshot in the database keeps IInv.
LEMMA ConsumeServerStateInv == IInv /\ ConsumeServerState => IInv'
<1> SUFFICES ASSUME IInv, ConsumeServerState PROVE IInv'
  OBVIOUS
<1> USE DEF ConsumeServerState, server, history
<1>1. Steps'
  BY DEF IInv, Steps, Holds
<1>2. Source' = Source
  BY <1>1, SourceIsDisk DEF IInv, Source, Holds, Steps
<1>3. TypeOK'
  BY DEF IInv, TypeOK
<1>4. Dated'
  BY <1>2 DEF IInv, Dated
<1>5. Ages'
  BY <1>2 DEF IInv, Ages, AgeTrue
<1>6. Migrates'
  BY DEF IInv, Migrates, Holds
<1>7. Fresh' /\ Stamped'
  BY DEF IInv, Fresh, Stamped, Running
<1> QED
  BY <1>1, <1>3, <1>4, <1>5, <1>6, <1>7 DEF IInv

\* Removing the snapshot file, the end of a migration, keeps IInv.
LEMMA RemoveStateFileInv == IInv /\ RemoveStateFile => IInv'
<1> SUFFICES ASSUME IInv, RemoveStateFile PROVE IInv'
  OBVIOUS
<1> USE DEF RemoveStateFile, server, history
<1>1. flush = None /\ Steps'
  BY DEF IInv, Steps, Holds
<1>2. Source' = Source
  BY <1>1, SourceIsDisk DEF IInv, Source, Holds, Steps
<1>3. TypeOK'
  BY DEF IInv, TypeOK
<1>4. Dated'
  BY <1>2 DEF IInv, Dated
<1>5. Ages'
  BY <1>2 DEF IInv, Ages, AgeTrue
<1>6. Migrates'
  BY DEF IInv, Migrates, Holds
<1>7. Fresh' /\ Stamped'
  BY <1>1, Numbers, PersistenceAssumption DEF IInv, Fresh, Stamped, Running, Unflushed
<1> QED
  BY <1>1, <1>3, <1>4, <1>5, <1>6, <1>7 DEF IInv

-----------------------------------------------------------------------------
(* The end of a flush.                                                     *)

\* A transaction that succeeds keeps IInv: what a start would read is now what
\* the rooms were when the flush began.
LEMMA TransactionInv == IInv /\ EndFlush /\ Transaction => IInv'
<1> SUFFICES ASSUME IInv, EndFlush, Transaction PROVE IInv'
  OBVIOUS
<1>1. /\ flush # None /\ flush' = None /\ failing' = FALSE
      /\ ticker' = ticker /\ clock' = clock /\ waited' = waited
      /\ bucket' = bucket /\ file' = file
      /\ persisted' = flush.rooms /\ lastFlush' = flush.at /\ onDisk' = flush.waited
  BY DEF EndFlush, Transaction
<1>2. /\ flush \in Flush /\ flush.rooms \in Rooms /\ flush.waited \in [Code -> Time]
      /\ flush.at \in Time /\ flush.at = clock /\ flush.force \in BOOLEAN
      /\ phase \in {"migrating", "up", "saving"}
      /\ phase = "migrating" => flush.force
      /\ flush.force => phase # "up" /\ flush.rooms = mem
  BY <1>1 DEF IInv, TypeOK, Flush, Dated, Steps
<1>3. disk' = [rooms |-> flush.rooms, at |-> clock]
  BY <1>1, <1>2, StoredIs DEF IInv, Transaction
<1>4. phase' = IF ~flush.force THEN phase ELSE IF phase = "migrating" THEN "saved" ELSE "stopped"
  BY <1>1, <1>2 DEF EndFlush
<1>5. mem' = mem
  BY <1>2, <1>4 DEF EndFlush
<1>6. phase = "migrating" => Holds(flush.rooms) # {}
  BY <1>2 DEF IInv, Migrates
<1>7. Source' = disk'
  BY <1>1, <1>2, <1>3, <1>6 DEF IInv, Steps, Source, Holds
<1>8. \A r \in Code : asOf'[r] = clock
  BY <1>2, <1>3, <1>7 DEF Transaction
<1>9. TypeOK'
  <2>1. disk' \in Snapshot
    BY <1>2, <1>3 DEF IInv, TypeOK, Snapshot
  <2>2. asOf' \in [Code -> Time]
    <3>1. asOf' = [r \in Code |-> asOf'[r]]
      BY DEF Transaction
    <3> QED
      BY <1>8, <3>1 DEF IInv, TypeOK
  <2>3. phase' \in {"migrating", "up", "saving", "saved", "stopped"}
    BY <1>2, <1>4
  <2> QED
    BY <1>1, <1>2, <1>5, <2>1, <2>2, <2>3 DEF IInv, TypeOK
<1>10. AgeTrue(flush.rooms, clock, flush.waited)
  BY <1>1, <1>2 DEF IInv, Ages
<1>11. Ages'
  <2>1. AgeTrue(mem, clock, waited)
    BY <1>2 DEF IInv, Ages
  <2> QED
    BY <1>1, <1>3, <1>5, <1>7, <1>10, <2>1 DEF Ages, AgeTrue
<1>12. Dated'
  <2>1. clock \in Nat /\ clock >= 2 /\ \A r \in Code : waited[r] <= clock
    BY Numbers DEF IInv, Dated
  <2>2. \A r \in Code : flush.waited[r] <= clock
    BY <1>1 DEF IInv, Dated
  <2> QED
    BY <1>1, <1>3, <1>7, <1>8, <2>1, <2>2 DEF Dated
<1>13. Steps'
  BY <1>1, <1>2, <1>3, <1>4, <1>6 DEF IInv, Steps, Holds
<1>14. Migrates'
  BY <1>1, <1>2, <1>4 DEF IInv, Migrates, Holds
<1>15. Fresh'
  <2>1. phase' = "stopped" => flush.rooms = mem
    BY <1>2, <1>4
  <2> QED
    BY <1>1, <1>3, <1>5, <1>7, <1>8, <2>1, Numbers DEF IInv, Fresh, Unflushed
<1>16. Stamped'
  <2>1. lastFlush' = clock /\ disk'.at = clock /\ phase' # "migrating"
    BY <1>1, <1>2, <1>3, <1>4
  <2> QED
    BY <1>1, <2>1, Numbers, PersistenceAssumption DEF IInv, Stamped, Unflushed
<1> QED
  BY <1>9, <1>11, <1>12, <1>13, <1>14, <1>15, <1>16 DEF IInv

\* A transaction that fails keeps IInv: what is stored is as it was, and a
\* migration is given up.
LEMMA TransactionFailsInv == IInv /\ EndFlush /\ TransactionFails => IInv'
<1> SUFFICES ASSUME IInv, EndFlush, TransactionFails PROVE IInv'
  OBVIOUS
<1>1. /\ flush # None /\ flush' = None /\ failing' = TRUE
      /\ ticker' = ticker /\ clock' = clock /\ waited' = waited
      /\ UNCHANGED stored /\ UNCHANGED <<persisted, lastFlush, onDisk, asOf>>
  BY DEF EndFlush, TransactionFails
<1>2. /\ phase \in {"migrating", "up", "saving"}
      /\ phase = "migrating" => flush.force
      /\ flush.force => phase # "up"
  BY <1>1 DEF IInv, Steps
<1>3. phase' = IF ~flush.force THEN phase ELSE IF phase = "saving" THEN "stopped" ELSE "down"
  BY <1>1, <1>2 DEF EndFlush
<1>4. mem' = IF phase = "migrating" THEN NoRooms ELSE mem
  BY <1>2, <1>3 DEF EndFlush
<1>5. Source' = Source
  BY <1>1, SourceKept
<1> USE DEF stored
<1>6. TypeOK'
  <2>1. phase' \in {"up", "saving", "stopped", "down"} /\ mem' \in Rooms
    BY <1>2, <1>3, <1>4 DEF IInv, TypeOK, NoRooms, Rooms
  <2> QED
    BY <1>1, <2>1 DEF IInv, TypeOK
<1>7. Dated'
  BY <1>1, <1>5 DEF IInv, Dated
<1>8. Ages'
  BY <1>1, <1>2, <1>3, <1>4, <1>5 DEF IInv, Ages, AgeTrue
<1>9. Steps'
  BY <1>1, <1>2, <1>3 DEF IInv, Steps, Holds
<1>10. Migrates'
  BY <1>1, <1>2, <1>3 DEF IInv, Migrates, Holds
<1>11. Fresh'
  BY <1>1, <1>2, <1>3, <1>4, <1>5 DEF IInv, Fresh, Running
<1>12. Stamped'
  BY <1>1, <1>2, <1>3 DEF IInv, Stamped, Running
<1> QED
  BY <1>6, <1>7, <1>8, <1>9, <1>10, <1>11, <1>12 DEF IInv

-----------------------------------------------------------------------------
(* The theorems.                                                           *)

\* What an older version left satisfies IInv.
LEMMA InitInv == Init => IInv
<1> SUFFICES ASSUME Init PROVE IInv
  OBVIOUS
<1> DEFINE Old(x, t, r) == [rooms |-> [NoRooms EXCEPT ![r] = [content |-> x, since |-> t]], at |-> 2]
<1>1. PICK x \in Content, t \in {0, 1}, r \in Code :
        /\ bucket \in {None, Old(x, t, r)} /\ file \in {None, Old(x, t, r)}
        /\ onDisk = [q \in Code |-> IF q = r /\ t = 1 THEN 1 ELSE 0]
  BY DEF Init
<1>2. PICK old : old = Old(x, t, r)
  OBVIOUS
<1>3. /\ old \in Snapshot /\ old.at = 2 /\ Holds(old.rooms) # {}
      /\ \A q \in Code : old.rooms[q] = IF q = r THEN [content |-> x, since |-> t] ELSE None
  <2>1. t \in Time /\ 2 \in Time
    BY PersistenceAssumption DEF Time
  <2>2. [content |-> x, since |-> t] \in Room
    BY <2>1 DEF Room
  <2>3. [content |-> x, since |-> t] # None
    BY <2>2, PersistenceAssumption
  <2> DEFINE rs == [NoRooms EXCEPT ![r] = [content |-> x, since |-> t]]
  <2>4. \A q \in Code : rs[q] = IF q = r THEN [content |-> x, since |-> t] ELSE None
    BY DEF NoRooms
  <2>5. rs \in Rooms
    BY <2>2 DEF NoRooms, Rooms
  <2>6. Holds(rs) # {}
    BY <2>3, <2>4 DEF Holds
  <2>7. old = [rooms |-> rs, at |-> 2]
    BY <1>2
  <2> HIDE DEF rs
  <2>8. old.rooms = rs /\ old.at = 2
    BY <2>7
  <2>9. old \in Snapshot
    BY <2>1, <2>5, <2>7 DEF Snapshot
  <2> QED
    BY <2>4, <2>6, <2>8, <2>9
<1>4. bucket \in {None, old} /\ file \in {None, old}
  BY <1>1, <1>2
<1>5. /\ disk = [rooms |-> NoRooms, at |-> 0] /\ flush = None /\ phase = "down" /\ clock = 2
      /\ disk \in Snapshot /\ NoRooms \in Rooms /\ Holds(disk.rooms) = {}
  BY PersistenceAssumption DEF Init, NoRooms, Rooms, Snapshot, Time, Holds
<1>6. Source \in {disk, old}
  BY <1>4, <1>5 DEF Source
<1>7. TypeOK
  <2>1. onDisk \in [Code -> Time] /\ 0 \in Time /\ 2 \in Time
    BY <1>1, PersistenceAssumption DEF Time
  <2>2. bucket \in Snapshot \cup {None} /\ file \in Snapshot \cup {None}
    BY <1>3, <1>4
  <2>3. /\ waited \in [Code -> Time] /\ asOf \in [Code -> Time]
        /\ ticker \in 0..StateFlushInterval /\ lastFlush \in Time /\ clock \in Time
        /\ failing \in BOOLEAN
    <3>1. /\ waited = [q \in Code |-> 0] /\ asOf = [q \in Code |-> 2]
          /\ ticker = 0 /\ lastFlush = 0 /\ clock = 2 /\ failing = FALSE
      BY Zenon DEF Init
    <3>2. waited \in [Code -> Time] /\ asOf \in [Code -> Time]
      BY Zenon, <2>1, <3>1
    <3>3. ticker \in 0..StateFlushInterval
      BY <3>1, PersistenceAssumption
    <3> QED
      BY Zenon, <2>1, <3>1, <3>2, <3>3
  <2>4. mem \in Rooms /\ persisted \in Rooms
    BY <1>5 DEF Init
  <2> QED
    BY <1>5, <2>1, <2>2, <2>3, <2>4 DEF TypeOK
<1>8. Dated
  BY <1>1, <1>3, <1>5, <1>6 DEF Init, Dated
<1>9. Ages
  BY <1>1, <1>3, <1>5, <1>6 DEF Ages, AgeTrue, NoRooms
<1>10. Steps /\ Fresh /\ Stamped
  BY <1>5 DEF Steps, Fresh, Stamped, Running
<1>11. Migrates
  BY <1>3, <1>4, <1>5 DEF Migrates
<1> QED
  BY <1>7, <1>8, <1>9, <1>10, <1>11 DEF IInv

\* Every step keeps IInv.
LEMMA NextInv == IInv /\ [Next]_vars => IInv'
<1> SUFFICES ASSUME IInv, [Next]_vars PROVE IInv'
  OBVIOUS
<1>1. CASE UNCHANGED vars
  <2>1. /\ Source' = Source
        /\ phase' = phase /\ mem' = mem /\ persisted' = persisted
        /\ lastFlush' = lastFlush /\ flush' = flush /\ ticker' = ticker
        /\ disk' = disk /\ bucket' = bucket /\ file' = file
        /\ clock' = clock /\ failing' = failing
        /\ waited' = waited /\ onDisk' = onDisk /\ asOf' = asOf
    BY <1>1, SourceKept DEF vars, server, stored, history
  <2>2. TypeOK'
    BY Zenon, <2>1 DEF IInv, TypeOK
  <2>3. Dated' /\ Ages'
    BY Zenon, <2>1 DEF IInv, Dated, Ages, AgeTrue
  <2>4. Steps'
    BY Zenon, <2>1 DEF IInv, Steps, Holds
  <2>5. Migrates'
    BY Zenon, <2>1 DEF IInv, Migrates, Restorable, Holds
  <2>6. Fresh' /\ Stamped'
    BY Zenon, <2>1 DEF IInv, Fresh, Stamped, Running, Unflushed
  <2> QED
    BY Zenon, <2>2, <2>3, <2>4, <2>5, <2>6 DEF IInv
<1>2. CASE EndFlush
  BY <1>2, TransactionInv, TransactionFailsInv DEF EndFlush
<1>3. ASSUME NEW r \in Code, Change(r) \/ Delete(r) \/ Disconnect(r) \/ Reconnect(r)
      PROVE  IInv'
  BY <1>3, HandlersInv
<1> QED
  BY <1>1, <1>2, <1>3, LoadStateInv, ConsumeServerStateInv, RemoveStateFileInv, TickInv,
     RunStateFlusherInv, SaveStateInv, ShutdownInv, CrashInv DEF Next

\* IInv is an invariant.
LEMMA Inductive == Spec => []IInv
BY InitInv, NextInv, PTL DEF Spec

\* Every variable keeps its type: no time is dated past the clock, the flusher's
\* ticker does not run past the interval, and what is stored are snapshots.
THEOREM TypesHold == Spec => []TypeOK
BY Inductive, PTL DEF IInv

\* A crash loses at most StateFlushInterval of changes, and a shutdown that could
\* write loses nothing (runStateFlusher, flushState and SaveState).
THEOREM LossBounded == Spec => []RecentlySaved
<1>1. IInv => RecentlySaved
  BY Numbers, PersistenceAssumption DEF IInv, RecentlySaved, Fresh, Running, Unflushed
<1> QED
  BY <1>1, Inductive, PTL

\* Downtime never counts towards a session's timeout, over any number of stops
\* and crashes (restoreRoom's shift by the offline time).
THEOREM DowntimeNotCharged == Spec => []AgeIsUptime
<1>1. IInv => AgeIsUptime
  BY DEF IInv, AgeIsUptime, Ages, AgeTrue, Running
<1> QED
  BY <1>1, Inductive, PTL

\* The timestamp downtime is measured from is never older than the heartbeat and
\* one interval, although flushes without changes are skipped (flushState).
THEOREM TimestampClose == Spec => []DowntimeClose
<1>1. IInv => DowntimeClose
  BY Numbers, PersistenceAssumption DEF IInv, DowntimeClose, Stamped, Running, Unflushed
<1> QED
  BY <1>1, Inductive, PTL

\* Wherever a start or its migration fails, the next start restores the same
\* rooms with the same ages (LoadState, consumeServerState).
THEOREM StartRepeatable == Spec => FailedStartLosesNothing
<1>1. IInv /\ [Next]_vars => [~Running => \A r \in Code : Restorable(r)' = Restorable(r)]_vars
  <2> SUFFICES ASSUME IInv, Next, ~Running, NEW r \in Code
               PROVE  Restorable(r)' = Restorable(r)
    OBVIOUS
  <2>1. CASE Source' = Source
    BY <2>1 DEF Restorable
  <2>2. CASE UNCHANGED stored
    BY <2>1, <2>2, SourceKept
  <2>3. CASE ConsumeServerState \/ RemoveStateFile
    <3>1. Source' = disk /\ Source = disk
      BY <2>3, SourceIsDisk
         DEF IInv, Steps, Source, Holds, ConsumeServerState, RemoveStateFile, server
    <3> QED
      BY <2>1, <3>1
  <2>4. CASE EndFlush /\ TransactionFails
    BY <2>2, <2>4 DEF TransactionFails
  <2>5. CASE EndFlush /\ Transaction
    <3>1. /\ flush # None /\ phase = "migrating" /\ flush.rooms = mem /\ flush.at = clock
      BY <2>5 DEF Transaction, IInv, Steps, Dated, Running
    <3>2. disk' = [rooms |-> mem, at |-> clock] /\ bucket' = bucket /\ file' = file
      BY <2>5, <3>1, StoredIs DEF IInv, Transaction
    <3>3. Source' = disk'
      BY <3>1, <3>2 DEF IInv, Migrates, Source, Holds
    <3>4. Restorable(r)' = IF mem[r] = None THEN None
                           ELSE [content |-> mem[r].content,
                                 age |-> IF mem[r].since = 0 THEN 0 ELSE clock - mem[r].since]
      BY <3>2, <3>3 DEF Restorable
    <3>5. Restorable(r) = IF mem[r] = None THEN None
                          ELSE [content |-> mem[r].content, age |-> clock - mem[r].since]
      BY <3>1 DEF IInv, Migrates
    <3>6. mem[r] # None => mem[r].since # 0
      BY <3>1 DEF IInv, Migrates
    <3> QED
      BY <3>4, <3>5, <3>6
  <2>6. CASE Tick \/ LoadState \/ SaveState \/ Crash
    BY <2>2, <2>6 DEF Tick, LoadState, SaveState, Crash, stored
  <2>7. ~RunStateFlusher /\ ~Shutdown /\ \A q \in Code :
          ~(Change(q) \/ Delete(q) \/ Disconnect(q) \/ Reconnect(q))
    BY DEF Running, RunStateFlusher, Shutdown, Change, Delete, Disconnect, Reconnect, Write
  <2> QED
    BY <2>3, <2>4, <2>5, <2>6, <2>7 DEF Next, EndFlush
<1> QED
  BY <1>1, Inductive, PTL DEF Spec, FailedStartLosesNothing

=============================================================================
