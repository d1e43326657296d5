----------------------------- MODULE Standalone -----------------------------
(***************************************************************************)
(* The server without --raft_dir: service/main_service.cc with its AOF     *)
(* (persistence/aof_writer.cc) and snapshot.bin (persistence/              *)
(* snapshot_manager.cc, service/snapshot_fiber.cc), their writers, and the *)
(* restart that loads the snapshot and replays the AOF over it.            *)
(*                                                                         *)
(* Connections run on different threads.  A write is applied (one at a     *)
(* time, under the Raft node's mutex) and answered, and only then appended *)
(* to the AOF's buffer and flushed, each under the writer's mutex.  A      *)
(* snapshot is exported shard by shard, one shard per key, while writes go *)
(* on; the snapshot fiber and a SAVE may both be at it.  The fiber's time  *)
(* trigger is left out: a SAVE may come at any time.  A DEL of several     *)
(* keys deletes them in one step, in the code one after the other.         *)
(* Nothing is fsynced: what the kernel has is safe from a kill, not from a *)
(* power failure.                                                          *)
(***************************************************************************)
EXTENDS KvState, Sequences, FiniteSets, SequencesExt

CONSTANTS
  Conn,             \* connections that write
  Options,          \* the options of SET: some of "none", "nx", "xx"
  Ttls,             \* the TTLs of EX and EXPIRE
  CmdThreshold,     \* --snapshot_cmd_count
  MaxWrites,        \* bound: write commands
  MaxTime,          \* bound: the clock
  MaxKills,         \* bound: kills and shutdowns
  MaxFailures       \* bound: power failures and failed writes

ASSUME StandaloneAssumption ==
  /\ IsFiniteSet(Key) /\ Options \subseteq {"none", "nx", "xx"}
  /\ Ttls \subseteq Nat
  /\ {CmdThreshold, MaxWrites, MaxTime, MaxKills, MaxFailures} \subseteq Nat
  /\ CmdThreshold > 0 /\ MaxTime > 0

Saver == {"fiber", "save"}   \* the snapshot fiber, a connection that SAVEs

VARIABLES
  now, mode, db,    \* the clock; "up", "down" or "replay"; the shards
  conn,             \* per connection: pc, and the number of its command
  buf, aof,         \* AofWriter::buf_ and the file: command numbers, 0 a
                    \* record cut short
  pos,              \* the next record to replay
  saver,            \* per saver: pc, the shards to export, the export
  file,             \* snapshot.bin: whether it decodes, its size, its entries
  writes            \* write_count_

\* History.  cmds: every command applied, in that order, with the commands
\* that were over before it came.  recorded: those whose RecordCommand
\* returned and whose record no failure has taken.  over: those, and the ones
\* a kill or a failure cut off.  kills, failures: counted up to their bounds.
VARIABLES cmds, recorded, over, kills, failures

server  == <<conn, buf, pos, saver, writes>>
disk    == <<aof, file>>
history == <<cmds, recorded, over>>
counts  == <<kills, failures>>
vars    == <<now, mode, db, server, disk, history, counts>>

Idle     == [pc |-> "idle", cmd |-> 0]
NotSaving == [pc |-> "idle", todo |-> {}, data |-> EmptyTable]
NoFile   == [ok |-> FALSE, size |-> 0, data |-> EmptyTable]
Torn     == 0

Number == 1..Len(cmds)
Busy   == {conn[c].cmd : c \in {d \in Conn : conn[d].pc # "idle"}}
Size(data) == Cardinality({k \in Key : data[k] # Absent})

(***************************************************************************)
(* Write commands.                                                         *)
(***************************************************************************)

\* SET key value [NX|XX] [EX ttl], DEL key..., EXPIRE key ttl.
WriteCommand(id) ==
  {Command("set", {k}, o, t, id) : k \in Key, o \in Options, t \in Ttls \cup {NoTtl}}
    \cup {Command("del", ks, "none", NoTtl, id) : ks \in SUBSET Key \ {{}}}
    \cup {Command("expire", {k}, "none", t, id) : k \in Key, t \in Ttls}

\* SubmitCommand and the answer.  EXPIRE ends there: it is never recorded.
Execute(c, command) ==
  /\ mode = "up" /\ conn[c].pc = "idle"
  /\ db' = ApplyLogEntry(db, command, now)
  /\ conn' = [conn EXCEPT ![c] =
       IF command.op = "expire" THEN Idle ELSE [pc |-> "append", cmd |-> command.id]]
  /\ cmds' = Append(cmds, [command |-> command, prior |-> over])
  /\ over' = IF command.op = "expire" THEN over \cup {command.id} ELSE over
  /\ UNCHANGED <<now, mode, buf, pos, saver, writes, disk, recorded, counts>>

WriteArrives(c) ==
  /\ Len(cmds) < MaxWrites
  /\ \E command \in WriteCommand(Len(cmds) + 1) : Execute(c, command)

\* RecordCommand, AofWriter::Append.
AofAppend(c) ==
  /\ conn[c].pc = "append"
  /\ buf' = Append(buf, conn[c].cmd)
  /\ conn' = [conn EXCEPT ![c].pc = "flush"]
  /\ UNCHANGED <<now, mode, db, pos, saver, writes, disk, history, counts>>

\* AofWriter::Flush writes whatever is buffered, also other connections'
\* records; then NotifyWrite (which saturates here at the threshold).
AofFlush(c) ==
  /\ conn[c].pc = "flush"
  /\ aof' = aof \o buf
  /\ buf' = <<>>
  /\ conn' = [conn EXCEPT ![c] = Idle]
  /\ writes' = IF writes < CmdThreshold THEN writes + 1 ELSE writes
  /\ recorded' = recorded \cup ({conn[c].cmd} \ over)
  /\ over' = over \cup {conn[c].cmd}
  /\ UNCHANGED <<now, mode, db, pos, saver, file, cmds, counts>>

\* fwrite or fflush fails part of the way (a full disk): the error is logged,
\* the buffer cleared, other connections' records with it, and the connection
\* goes on.
AofFlushFails(c) ==
  /\ conn[c].pc = "flush" /\ buf # <<>> /\ failures < MaxFailures
  /\ \E n \in 0..(Len(buf) - 1) : aof' = Append(aof \o SubSeq(buf, 1, n), Torn)
  /\ buf' = <<>>
  /\ conn' = [conn EXCEPT ![c] = Idle]
  /\ writes' = IF writes < CmdThreshold THEN writes + 1 ELSE writes
  /\ over' = over \cup ToSet(buf) \cup {conn[c].cmd}
  /\ failures' = failures + 1
  /\ UNCHANGED <<now, mode, db, pos, saver, file, cmds, recorded, kills>>

(***************************************************************************)
(* Snapshots.                                                              *)
(***************************************************************************)

\* SnapshotFiber::Run finds its trigger; SAVE arrives.
SaveBegins(s) ==
  /\ saver[s].pc = "idle"
  /\ IF s = "fiber" THEN mode # "down" /\ writes >= CmdThreshold ELSE mode = "up"
  /\ saver' = [saver EXCEPT ![s] = [pc |-> "export", todo |-> Key, data |-> EmptyTable]]
  /\ UNCHANGED <<now, mode, db, conn, buf, pos, writes, disk, history, counts>>

Export(s, k) ==
  /\ saver[s].pc = "export" /\ k \in saver[s].todo
  /\ saver' = [saver EXCEPT ![s].todo = @ \ {k}, ![s].data[k] = db[k]]
  /\ UNCHANGED <<now, mode, db, conn, buf, pos, writes, disk, history, counts>>

\* SnapshotManager::Save truncates the file it is about to write.
OpenFile(s) ==
  /\ saver[s].pc = "export" /\ saver[s].todo = {}
  /\ saver' = [saver EXCEPT ![s].pc = "write"]
  /\ file' = NoFile
  /\ UNCHANGED <<now, mode, db, conn, buf, pos, writes, aof, history, counts>>

\* FAULT: every save takes its writes off the count.
SaveSubtracts(s) ==
  /\ saver' = [saver EXCEPT ![s] = NotSaving]
  /\ writes' = writes - CmdThreshold

\* The fiber clears the write count, whatever it has become and however the
\* save went.
SaveEnds(s) ==
  /\ saver' = [saver EXCEPT ![s] = NotSaving]
  /\ writes' = IF s = "fiber" THEN 0 ELSE writes

\* Written from the start of the file: if another saver's longer content is
\* there, its tail stays and the file does not decode.
WriteFile(s) ==
  LET mine == Size(saver[s].data)
  IN /\ saver[s].pc = "write"
     /\ file' = IF file.size > mine THEN [file EXCEPT !.ok = FALSE]
                ELSE [ok |-> TRUE, size |-> mine, data |-> saver[s].data]
     /\ SaveEnds(s)
     /\ UNCHANGED <<now, mode, db, conn, buf, pos, aof, history, counts>>

\* fopen fails, or fwrite part of the way.
SaveFails(s) ==
  /\ failures < MaxFailures
  /\ \/ saver[s].pc = "export" /\ saver[s].todo = {} /\ UNCHANGED file
     \/ saver[s].pc = "write" /\ file' = [file EXCEPT !.ok = FALSE]
  /\ SaveEnds(s)
  /\ failures' = failures + 1
  /\ UNCHANGED <<now, mode, db, conn, buf, pos, aof, history, kills>>

(***************************************************************************)
(* Stopping and starting.                                                  *)
(***************************************************************************)

\* The process is gone; what it had handed to the kernel is not.
ProcessEnds ==
  /\ mode' = "down"
  /\ db' = EmptyTable
  /\ conn' = [c \in Conn |-> Idle]
  /\ buf' = <<>> /\ pos' = 0 /\ writes' = 0
  /\ saver' = [s \in Saver |-> NotSaving]

Kill ==
  /\ mode # "down" /\ kills < MaxKills
  /\ ProcessEnds
  /\ over' = over \cup Busy
  /\ kills' = kills + 1
  /\ UNCHANGED <<now, disk, cmds, recorded, failures>>

\* Service::Shutdown, once the connections are closed: joins the snapshot
\* fiber and flushes the AOF, whose buffer every connection left empty.
Shutdown ==
  /\ mode = "up" /\ kills < MaxKills
  /\ \A c \in Conn : conn[c].pc = "idle"
  /\ \A s \in Saver : saver[s].pc = "idle"
  /\ ProcessEnds
  /\ aof' = aof \o buf
  /\ kills' = kills + 1
  /\ UNCHANGED <<now, file, history, failures>>

\* The machine stops.  The AOF keeps any part of what was written, its last
\* record perhaps cut short; snapshot.bin may be what it was or not decode.
PowerFailure ==
  /\ mode # "down" /\ failures < MaxFailures
  /\ ProcessEnds
  /\ \E n \in 0..Len(aof) :
       \/ aof' = SubSeq(aof, 1, n)
       \/ n < Len(aof) /\ aof' = Append(SubSeq(aof, 1, n), Torn)
  /\ \/ UNCHANGED file
     \/ file' = NoFile
  /\ recorded' = recorded \cap ToSet(aof')
  /\ over' = over \cup Busy
  /\ failures' = failures + 1
  /\ UNCHANGED <<now, cmds, kills>>

\* FAULT: the AOF is not replayed where a snapshot was loaded.
BootsFromSnapshot ==
  /\ mode = "down"
  /\ mode' = IF file.ok THEN "up" ELSE "replay"
  /\ db' = IF file.ok THEN Import(EmptyTable, file.data) ELSE EmptyTable
  /\ pos' = 1
  /\ UNCHANGED <<now, conn, buf, saver, writes, disk, history, counts>>

\* Service::Init: LoadSnapshot into empty shards, then ReplayAof begins.
Boot ==
  /\ mode = "down"
  /\ mode' = "replay"
  /\ db' = IF file.ok THEN Import(EmptyTable, file.data) ELSE EmptyTable
  /\ pos' = 1
  /\ UNCHANGED <<now, conn, buf, saver, writes, disk, history, counts>>

\* ParseRespCommands stops at the first record that is cut short; whatever
\* is behind it is not read.
Parses(i) == i <= Len(aof) /\ aof[i] # Torn

\* Dispatched again with replay_mode_ set: applied now, not recorded.
ReplayCommand ==
  /\ mode = "replay" /\ Parses(pos)
  /\ db' = ApplyLogEntry(db, cmds[aof[pos]].command, now)
  /\ pos' = pos + 1
  /\ UNCHANGED <<now, mode, conn, buf, saver, writes, disk, history, counts>>

\* The listener is added: the server is up.
ReplayEnds ==
  /\ mode = "replay" /\ ~Parses(pos)
  /\ mode' = "up" /\ pos' = 0
  /\ UNCHANGED <<now, db, conn, buf, saver, writes, disk, history, counts>>

Tick ==
  /\ now < MaxTime
  /\ now' = now + 1
  /\ UNCHANGED <<mode, db, server, disk, history, counts>>

Init ==
  /\ now = 1 /\ mode = "up" /\ db = EmptyTable
  /\ conn = [c \in Conn |-> Idle]
  /\ buf = <<>> /\ aof = <<>> /\ pos = 0 /\ writes = 0
  /\ saver = [s \in Saver |-> NotSaving] /\ file = NoFile
  /\ cmds = <<>> /\ recorded = {} /\ over = {} /\ kills = 0 /\ failures = 0

ConnStep(c) == WriteArrives(c) \/ AofAppend(c) \/ AofFlush(c) \/ AofFlushFails(c)

SaveStep(s) ==
  \/ SaveBegins(s) \/ OpenFile(s) \/ WriteFile(s) \/ SaveFails(s)
  \/ \E k \in Key : Export(s, k)

Next ==
  \/ \E c \in Conn : ConnStep(c)
  \/ \E s \in Saver : SaveStep(s)
  \/ Kill \/ Shutdown \/ PowerFailure
  \/ Boot \/ ReplayCommand \/ ReplayEnds \/ Tick

Spec == Init /\ [][Next]_vars

(***************************************************************************)
(* Properties.                                                             *)
(***************************************************************************)
On(k)      == {n \in Number : k \in cmds[n].command.keys}
Timed(n)   == cmds[n].command.ttl # NoTtl
ValueOf(n) == IF cmds[n].command.op = "set" THEN n ELSE -1
Visible(k) == Find(db, k, now).val

\* No record was written behind one that is cut short.
Readable == \A i \in 1..(Len(aof) - 1) : aof[i] # Torn

\* The writes of k that may be its last: not over when a write of k came
\* that is recorded now.  EXPIRE writes nothing.
MayBeLast(k) ==
  {n \in On(k) : /\ cmds[n].command.op # "expire"
                 /\ \A m \in On(k) \cap recorded : n \notin cmds[m].prior}

TypeOK ==
  /\ now \in 1..MaxTime /\ mode \in {"up", "down", "replay"}
  /\ \A k \in Key : db[k].val \in -1..Len(cmds) /\ db[k].exp \in Nat
  /\ ToSet(buf) \subseteq Number /\ ToSet(aof) \subseteq Number \cup {Torn}
  /\ recorded \subseteq over /\ over \subseteq Number
  /\ file.size \in 0..Cardinality(Key) /\ writes \in 0..CmdThreshold

\* A recorded write is never undone: through kills, restarts, saves at any
\* moment and power failures, the value of a key is that of a write that may
\* be its last; it is missing only if such a write deleted it, nothing on it
\* is recorded, or a time to live is involved.
NothingUndone ==
  (mode = "up" /\ Readable) =>
    \A k \in Key :
      \/ \E n \in MayBeLast(k) : Visible(k) = ValueOf(n)
      \/ /\ Visible(k) = -1
         /\ On(k) \cap recorded = {} \/ \E n \in On(k) : Timed(n)

\* What ReplayAof makes of a table, record by record up to one cut short.
Replayed(t) ==
  LET after[i \in Nat] ==
        IF i = 0 THEN t
        ELSE IF \A j \in 1..i : Parses(j)
             THEN ApplyLogEntry(after[i - 1], cmds[aof[i]].command, now)
             ELSE after[i - 1]
  IN after[Len(aof)]

\* The AOF overrides the snapshot: whenever and by whomever snapshot.bin was
\* written, a key the AOF mentions gets the value the AOF alone gives it.
SnapshotAddsNothing ==
  LET with == Replayed(IF file.ok THEN file.data ELSE EmptyTable)
      without == Replayed(EmptyTable)
  IN Readable => \A k \in Key :
       (\E n \in On(k) : n \in ToSet(aof)) =>
         Find(with, k, now).val = Find(without, k, now).val

\* A restart brings back what was answered: the value of a key is that of the
\* last write that was answered.
AnsweredKept ==
  mode = "up" => \A k \in Key :
    LET writesOf == {n \in On(k) : cmds[n].command.op # "expire"}
    IN writesOf # {} /\ (\A n \in On(k) : ~Timed(n)) =>
         Visible(k) = ValueOf(CHOOSE n \in writesOf : \A m \in writesOf : m <= n)

\* A key holds only what some SET wrote.
NoEmptyEntry == \A k \in Key : Visible(k) # 0

=============================================================================
