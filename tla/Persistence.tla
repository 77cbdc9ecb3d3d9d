---------------------------- MODULE Persistence -----------------------------
(***************************************************************************)
(* The database behind the rooms: the flusher that writes changed rooms    *)
(* every StateFlushInterval, the final save, crashes, the start that       *)
(* restores what was written, and the one-time migration of the snapshots  *)
(* older versions left.                                                    *)
(*                                                                         *)
(* Granularity.  A flush holds persistMu from its snapshot to the end of   *)
(* its transaction; everything else may happen between the two.  A         *)
(* transaction takes effect as a whole or not at all.                      *)
(*                                                                         *)
(* Abstractions.  A room is its content, one of a few values that the      *)
(* handlers of Membership, Playback and Suggestions change at will, and    *)
(* the time since which its one member is disconnected.  Time is counted   *)
(* in ticks.  The flusher's ticker fires in time, and a transaction ends   *)
(* within the tick it began in.                                            *)
(***************************************************************************)
EXTENDS Naturals

CONSTANTS
    Code,
    Content,
    None,
    StateFlushInterval, FlushHeartbeat,
    MaxClock    \* bound on the clock

VARIABLES
    phase,      \* "down", "migrating", "saved", "consumed", "up", "saving", "stopped"
    mem,        \* Server.rooms
    persisted,  \* Server.persisted
    lastFlush,  \* Server.lastFlush
    disk,       \* buckets rooms and meta
    bucket, file,   \* the legacy snapshots: key "latest" and server_state.json
    flush,      \* the flush that holds persistMu, or None
    ticker,     \* ticks since the flusher last woke up
    clock,
    failing,    \* the last transaction failed
    waited,     \* ticks each member has been away from a server that was up
    onDisk,     \* waited as of the last transaction
    asOf        \* when each room was last as it is on disk

server == <<mem, persisted, lastFlush, flush, ticker>>
stored == <<disk, bucket, file>>
history == <<failing, waited, onDisk, asOf>>
vars == <<phase, mem, persisted, lastFlush, disk, bucket, file, flush, ticker, clock, failing,
          waited, onDisk, asOf>>

-----------------------------------------------------------------------------

Time == 0..MaxClock

\* since: 0 while the member is connected.
Room == [content : Content, since : Time]

Rooms == [Code -> Room \cup {None}]

NoRooms == [r \in Code |-> None]

Snapshot == [rooms : Rooms, at : Time]

\* A flush between its snapshot and the end of its transaction.
Flush == [rooms : Rooms, waited : [Code -> Time], at : Time, force : BOOLEAN]

ASSUME PersistenceAssumption ==
    /\ StateFlushInterval \in Nat \ {0} /\ FlushHeartbeat \in Nat \ {0}
    /\ MaxClock \in Nat /\ MaxClock >= 2
    /\ None \notin Room /\ None \notin Snapshot /\ None \notin Flush

Holds(rooms) == {r \in Code : rooms[r] # None}

Running == phase \in {"up", "saving"}

\* What LoadState reads: room records, or else a legacy snapshot.
Source ==
    IF Holds(disk.rooms) # {} THEN disk
    ELSE IF bucket # None THEN bucket
    ELSE IF file # None THEN file
    ELSE disk

\* An older version stopped at time 2, with its only member connected or away,
\* and left one of its two snapshots; or there is nothing.
Init ==
    /\ phase = "down"
    /\ mem = NoRooms /\ persisted = NoRooms
    /\ lastFlush = 0 /\ ticker = 0
    /\ disk = [rooms |-> NoRooms, at |-> 0]
    /\ \E x \in Content, t \in {0, 1}, r \in Code :
          LET old == [rooms |-> [NoRooms EXCEPT ![r] = [content |-> x, since |-> t]], at |-> 2]
          IN  /\ bucket \in {None, old} /\ file \in {None, old} /\ None \in {bucket, file}
              /\ onDisk = [q \in Code |-> IF q = r /\ t = 1 THEN 1 ELSE 0]
    /\ flush = None
    /\ clock = 2
    /\ failing = FALSE
    /\ waited = [r \in Code |-> 0]
    /\ asOf = [r \in Code |-> 2]

-----------------------------------------------------------------------------
(* Start *)

\* Mutant: the time the server was down is charged to those who wait.
RestoreUnshifted(rec, flushedAt) ==
    [rec EXCEPT !.since = IF @ = 0 THEN clock ELSE @]

\* Mutant: the downtime is added twice for a member who was connected.
RestoreTwice(rec, flushedAt) ==
    LET offline == IF flushedAt # 0 /\ clock > flushedAt THEN clock - flushedAt ELSE 0
    IN  [rec EXCEPT !.since = (IF @ = 0 THEN clock ELSE @) + offline]

\* Downtime does not count: times are moved by it, and whoever was connected
\* at the last flush is disconnected from now on.
Restore(rec, flushedAt) ==
    LET offline == IF flushedAt # 0 /\ clock > flushedAt THEN clock - flushedAt ELSE 0
        stoppedAt == IF flushedAt = 0 THEN clock ELSE flushedAt
    IN  [rec EXCEPT !.since = (IF @ = 0 THEN stoppedAt ELSE @) + offline]

\* LoadState up to the migration.  The flusher's memory of what is stored is
\* set unless everything is about to be written anew.
LoadState ==
    /\ phase = "down"
    /\ mem' = [r \in Code |-> IF Source.rooms[r] = None THEN None
                              ELSE Restore(Source.rooms[r], Source.at)]
    /\ IF bucket # None \/ file # None
         THEN phase' = "migrating" /\ persisted' = NoRooms
         ELSE phase' = "up" /\ persisted' = disk.rooms
    /\ lastFlush' = 0 /\ ticker' = 0
    /\ waited' = [r \in Code |-> IF Source.rooms[r] # None /\ Source.rooms[r].since # 0
                                 THEN onDisk[r] ELSE 0]
    /\ asOf' = [r \in Code |-> clock]
    /\ UNCHANGED <<stored, flush, clock, failing, onDisk>>

\* Mutant: the snapshot is consumed before the rooms are written.
ConsumeServerStateEarly ==
    /\ phase \in {"migrating", "saved"}
    /\ phase' = IF phase = "saved" THEN "consumed" ELSE phase
    /\ bucket' = None
    /\ UNCHANGED <<server, disk, file, clock, history>>

ConsumeServerState ==
    /\ phase = "saved"
    /\ phase' = "consumed"
    /\ bucket' = None
    /\ UNCHANGED <<server, disk, file, clock, history>>

RemoveStateFile ==
    /\ phase = "consumed"
    /\ phase' = "up"
    /\ file' = None
    /\ UNCHANGED <<server, disk, bucket, clock, history>>

-----------------------------------------------------------------------------
(* The server at work *)

\* Handlers run until the shutdown has ended the last pump.
Write(r, rec) ==
    /\ phase = "up"
    /\ mem' = [mem EXCEPT ![r] = rec]
    /\ asOf' = [asOf EXCEPT ![r] = IF rec = Source.rooms[r] THEN clock ELSE @]
    /\ UNCHANGED <<phase, persisted, lastFlush, flush, ticker, stored, clock, failing, onDisk>>

\* A member who founds the room is connected.
Change(r) ==
    /\ \E x \in Content :
          Write(r, [content |-> x, since |-> IF mem[r] = None THEN 0 ELSE mem[r].since])
    /\ waited' = [waited EXCEPT ![r] = IF mem[r] = None THEN 0 ELSE @]

Delete(r) ==
    /\ mem[r] # None
    /\ Write(r, None)
    /\ waited' = [waited EXCEPT ![r] = 0]

Disconnect(r) ==
    /\ mem[r] # None /\ mem[r].since = 0
    /\ Write(r, [mem[r] EXCEPT !.since = clock])
    /\ waited' = [waited EXCEPT ![r] = 0]

Reconnect(r) ==
    /\ mem[r] # None /\ mem[r].since # 0
    /\ Write(r, [mem[r] EXCEPT !.since = 0])
    /\ waited' = [waited EXCEPT ![r] = 0]

Tick ==
    /\ clock < MaxClock
    /\ Running => flush = None /\ ticker < StateFlushInterval
    /\ phase \in {"down", "up", "saving", "stopped"}
    /\ clock' = clock + 1
    /\ ticker' = IF Running THEN ticker + 1 ELSE ticker
    /\ waited' = [r \in Code |-> IF Running /\ mem[r] # None /\ mem[r].since # 0
                                 THEN waited[r] + 1 ELSE waited[r]]
    /\ asOf' = [r \in Code |-> IF mem[r] = Source.rooms[r] THEN clock + 1 ELSE asOf[r]]
    /\ UNCHANGED <<phase, mem, persisted, lastFlush, flush, stored, failing, onDisk>>

-----------------------------------------------------------------------------
(* flushState *)

\* Mutant: the timestamp is left alone as long as nothing changes.
SkipAlways(force) == ~force /\ mem = persisted

\* Nothing is written if nothing changed, unless the timestamp is old.
Skip(force) == ~force /\ mem = persisted /\ clock - lastFlush < FlushHeartbeat

\* persistMu, and the snapshot.  A zero lastFlush is long ago.
BeginFlush(force) ==
    /\ flush = None
    /\ IF Skip(force) /\ lastFlush # 0
         THEN UNCHANGED flush
         ELSE flush' = [rooms |-> mem, waited |-> waited, at |-> clock, force |-> force]

\* The flusher wakes up, until it sees that stop is closed.
RunStateFlusher ==
    /\ Running
    /\ ticker = StateFlushInterval
    /\ BeginFlush(FALSE)
    /\ ticker' = 0
    /\ UNCHANGED <<phase, mem, persisted, lastFlush, stored, clock, history>>

\* SaveState, of the migration or of the shutdown.
SaveState ==
    /\ phase \in {"migrating", "saving"}
    /\ BeginFlush(TRUE)
    /\ UNCHANGED <<phase, mem, persisted, lastFlush, ticker, stored, clock, history>>

\* Rooms that differ from what was last written are put, those that are gone
\* are deleted.
Stored ==
    [r \in Code |-> IF flush.rooms[r] # None /\ flush.rooms[r] # persisted[r] THEN flush.rooms[r]
                    ELSE IF flush.rooms[r] = None /\ persisted[r] # None THEN None
                    ELSE disk.rooms[r]]

Transaction ==
    /\ flush # None
    /\ disk' = [rooms |-> Stored, at |-> flush.at]
    /\ persisted' = flush.rooms
    /\ lastFlush' = flush.at
    /\ failing' = FALSE
    /\ onDisk' = flush.waited
    /\ UNCHANGED <<bucket, file>>
    /\ asOf' = [r \in Code |-> IF mem[r] = Source'.rooms[r] THEN clock
                               ELSE IF flush.rooms[r] = Source'.rooms[r] THEN flush.at
                               ELSE asOf[r]]

\* Mutant: a failed flush counts as written.
TransactionFailsSilently ==
    /\ flush # None
    /\ persisted' = flush.rooms
    /\ lastFlush' = flush.at
    /\ failing' = TRUE
    /\ UNCHANGED <<stored, onDisk, asOf>>

TransactionFails ==
    /\ flush # None
    /\ failing' = TRUE
    /\ UNCHANGED <<persisted, lastFlush, stored, onDisk, asOf>>

\* The flusher goes on either way.  The shutdown only logs an error of its
\* save; the migration cannot do without.
EndFlush ==
    /\ Transaction \/ TransactionFails
    /\ flush' = None
    /\ phase' = IF ~flush.force THEN phase
                ELSE IF phase = "saving" THEN "stopped"
                ELSE IF failing' THEN "down" ELSE "saved"
    /\ mem' = IF phase' = "down" THEN NoRooms ELSE mem
    /\ UNCHANGED <<ticker, clock, waited>>

-----------------------------------------------------------------------------
(* Stop *)

\* A shutdown has ended the pumps and is about to save.
Shutdown ==
    /\ phase = "up"
    /\ phase' = "saving"
    /\ UNCHANGED <<server, stored, clock, history>>

\* The process ends, at any point of a start, of a flush or of its service.
Crash ==
    /\ phase # "down"
    /\ phase' = "down"
    /\ mem' = NoRooms /\ persisted' = NoRooms /\ flush' = None
    /\ UNCHANGED <<lastFlush, ticker, stored, clock, history>>

Next ==
    \/ LoadState \/ ConsumeServerState \/ RemoveStateFile
    \/ \E r \in Code : Change(r) \/ Delete(r) \/ Disconnect(r) \/ Reconnect(r)
    \/ Tick
    \/ RunStateFlusher \/ SaveState \/ EndFlush
    \/ Shutdown \/ Crash

Spec == Init /\ [][Next]_vars

-----------------------------------------------------------------------------
(* Properties *)

TypeOK ==
    /\ phase \in {"down", "migrating", "saved", "consumed", "up", "saving", "stopped"}
    /\ mem \in Rooms /\ persisted \in Rooms
    /\ lastFlush \in Time /\ clock \in Time /\ ticker \in 0..StateFlushInterval
    /\ disk \in Snapshot
    /\ bucket \in Snapshot \cup {None} /\ file \in Snapshot \cup {None}
    /\ flush \in Flush \cup {None}
    /\ failing \in BOOLEAN
    /\ waited \in [Code -> Time] /\ onDisk \in [Code -> Time] /\ asOf \in [Code -> Time]

\* A crash loses at most StateFlushInterval: while transactions succeed, what
\* a start would restore is what each room was that recently, also after
\* failed ones, changes undone, rooms deleted and rooms restored; and a
\* shutdown loses nothing.
RecentlySaved ==
    ~failing =>
        /\ Running => \A r \in Code : clock - asOf[r] <= StateFlushInterval
        /\ phase = "stopped" => Source.rooms = mem

\* What a start would restore of room r, and for how long its member has waited.
Restorable(r) ==
    IF Source.rooms[r] = None THEN None
    ELSE [content |-> Source.rooms[r].content,
          age |-> IF Source.rooms[r].since = 0 THEN 0 ELSE Source.at - Source.rooms[r].since]

\* A start that does not get to serve changes nothing that the next one will
\* find, wherever in the migration it fails: nothing is lost, nothing twice.
FailedStartLosesNothing ==
    [][~Running => \A r \in Code : Restorable(r)' = Restorable(r)]_vars

\* A member's session is exactly as old as the time for which the server was
\* up without it, as far as it is on disk: no downtime counts, however often
\* the server stops and whether or not the room's record was rewritten.
AgeIsUptime ==
    Running => \A r \in Code : mem[r] # None /\ mem[r].since # 0 =>
                                clock - mem[r].since = waited[r]

\* The timestamp stays close, "so restarts measure downtime from close to the
\* actual stop", although flushes are skipped while nothing changes.
DowntimeClose ==
    Running /\ ~failing /\ lastFlush # 0 =>
        clock - disk.at < FlushHeartbeat + StateFlushInterval
=============================================================================
