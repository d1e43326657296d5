-------------------------- MODULE StandaloneProofs --------------------------
(***************************************************************************)
(* Standalone for every number of keys, connections and writes: its types, *)
(* and that no recorded write is undone where every SET is a plain one.    *)
(***************************************************************************)
EXTENDS Standalone, Iteration, FiniteSetTheorems, SequenceTheorems, TLAPS

(***************************************************************************)
(* Types.                                                                  *)
(***************************************************************************)
Entry == [val : Int, exp : Nat]

CommandType ==
  [op : {"set", "del", "expire"}, keys : SUBSET Key, opt : {"none", "nx", "xx"},
   ttl : Nat \cup {NoTtl}, id : Nat]

CmdsTyped ==
  /\ cmds \in Seq([command : CommandType, prior : SUBSET Nat])
  /\ \A n \in Number :
       /\ cmds[n].command.id = n
       /\ cmds[n].command.op = "set" => cmds[n].command.opt \in Options
       /\ cmds[n].command.op \in {"set", "expire"} =>
            \E k \in Key : cmds[n].command.keys = {k}

\* A table of entries written by the commands so far.
TableTyped(t) == t \in [Key -> Entry] /\ \A k \in Key : t[k].val \in -1..Len(cmds)

TablesTyped ==
  /\ TableTyped(db) /\ TableTyped(file.data)
  /\ \A s \in Saver : TableTyped(saver[s].data)

ConnType  == [pc : {"idle", "append", "flush"}, cmd : Nat]
SaverType == [pc : {"idle", "export", "write"}, todo : SUBSET Key, data : [Key -> Entry]]
FileType  == [ok : BOOLEAN, size : Nat, data : [Key -> Entry]]

Shapes ==
  /\ conn \in [Conn -> ConnType] /\ saver \in [Saver -> SaverType] /\ file \in FileType
  /\ buf \in Seq(Nat) /\ aof \in Seq(Nat) /\ pos \in Nat
  /\ kills \in Nat /\ failures \in Nat

\* Command numbers, wherever they are.
NumbersKnown ==
  /\ \A c \in Conn : conn[c].pc # "idle" => conn[c].cmd \in Number
  /\ \A i \in 1..Len(buf) : buf[i] \in Number
  /\ \A i \in 1..Len(aof) : aof[i] \in Number \cup {Torn}
  /\ recorded \subseteq over /\ over \subseteq Number

\* A process that serves no connection holds nothing of one.
ServesOnlyUp ==
  mode # "up" => (\A c \in Conn : conn[c].pc = "idle") /\ buf = <<>>

Counters ==
  /\ now \in 1..MaxTime /\ mode \in {"up", "down", "replay"}
  /\ file.size \in 0..Cardinality(Key) /\ writes \in 0..CmdThreshold
  /\ mode = "replay" => pos >= 1

TypeInv ==
  CmdsTyped /\ TablesTyped /\ Shapes /\ NumbersKnown /\ ServesOnlyUp /\ Counters

(***************************************************************************)
(* The order of the AOF.                                                   *)
(***************************************************************************)

\* What the AOF has and will have.
Records == aof \o buf

\* The commands that were over when n came were over long before it is.
PriorsOver == \A n \in Number : cmds[n].prior \subseteq over /\ n \notin cmds[n].prior

\* Each connection has a command of its own, a SET or a DEL, that is not
\* over and not in the buffer before its record is appended.
CommandsApart ==
  \A c \in Conn :
    /\ conn[c].pc # "idle" =>
         /\ cmds[conn[c].cmd].command.op # "expire"
         /\ \A d \in Conn \ {c} : conn[d].pc # "idle" => conn[c].cmd # conn[d].cmd
    /\ conn[c].pc = "append" =>
         conn[c].cmd \notin over /\ \A i \in 1..Len(buf) : buf[i] # conn[c].cmd
    /\ conn[c].pc = "flush" =>
         \/ conn[c].cmd \in over
         \/ \E i \in 1..Len(Records) : Records[i] = conn[c].cmd

\* A command that was over before another came has no record from that one's
\* on.
RecordsOrdered ==
  /\ \A i \in 1..Len(Records) : Records[i] \in Number =>
       /\ cmds[Records[i]].command.op # "expire"
       /\ \A j \in i..Len(Records) : Records[j] \notin cmds[Records[i]].prior
  /\ \A n \in recorded : \E i \in 1..Len(aof) : aof[i] = n

AofInv == PriorsOver /\ CommandsApart /\ RecordsOrdered

(***************************************************************************)
(* The shards and the snapshots.                                           *)
(***************************************************************************)

\* An entry of k that the commands C made: a SET of k wrote it, a deadline
\* takes a TTL.
OriginIn(C, k, e) ==
  /\ e.val # -1 => /\ e.val \in 1..Len(C) /\ k \in C[e.val].command.keys
                   /\ C[e.val].command.op = "set"
  /\ e.exp # 0 => \E n \in 1..Len(C) : k \in C[n].command.keys /\ C[n].command.ttl # NoTtl

Origin(t) == \A k \in Key : OriginIn(cmds, k, t[k])

Origins == Origin(db) /\ Origin(file.data) /\ \A s \in Saver : Origin(saver[s].data)

Pending == recorded \cup Busy

\* The value of k is that of a write that was not over when any write of k
\* came that is recorded or may still be.
Live(k) ==
  \/ \E n \in On(k) :
       /\ cmds[n].command.op # "expire" /\ db[k].val = ValueOf(n)
       /\ \A m \in On(k) \cap Pending : n \notin cmds[m].prior
  \/ db[k].val = -1 /\ On(k) \cap Pending = {}

\* The replay has given k the value of the last record on k before pos, if
\* there is one.
ReplayedTo(k) ==
  \/ \A j \in 1..(pos - 1) : aof[j] \notin On(k)
  \/ \E i \in 1..(pos - 1) :
       /\ aof[i] \in On(k) /\ db[k].val = ValueOf(aof[i])
       /\ \A j \in (i + 1)..(pos - 1) : aof[j] \notin On(k)

Values ==
  /\ (mode = "up" /\ Readable) => \A k \in Key : Live(k)
  /\ mode = "replay" =>
       /\ pos \in 1..(Len(aof) + 1) /\ \A i \in 1..(pos - 1) : aof[i] # Torn
       /\ \A k \in Key : ReplayedTo(k)

ValueInv == Origins /\ Values

StandaloneInv == TypeInv /\ AofInv /\ ValueInv

(***************************************************************************)
(* Commands and what they do to a table.                                   *)
(***************************************************************************)
LEMMA CommandShapes ==
  ASSUME NEW id \in Nat, NEW c \in WriteCommand(id)
  PROVE  /\ c \in CommandType /\ c.id = id
         /\ c.op = "set" => c.opt \in Options
         /\ c.op \in {"set", "expire"} => \E k \in Key : c.keys = {k}
<1>1. CASE \E k \in Key, o \in Options, t \in Ttls \cup {NoTtl} : c = Command("set", {k}, o, t, id)
  <2>1. PICK k \in Key, o \in Options, t \in Ttls \cup {NoTtl} :
          c = [op |-> "set", keys |-> {k}, opt |-> o, ttl |-> t, id |-> id]
    BY <1>1 DEF Command
  <2>2. o \in {"none", "nx", "xx"} /\ t \in Nat \cup {NoTtl}
    BY StandaloneAssumption
  <2> QED BY <2>1, <2>2 DEF CommandType
<1>2. CASE \E ks \in SUBSET Key \ {{}} : c = Command("del", ks, "none", NoTtl, id)
  <2>1. PICK ks \in SUBSET Key :
          c = [op |-> "del", keys |-> ks, opt |-> "none", ttl |-> NoTtl, id |-> id]
    BY <1>2 DEF Command
  <2> QED BY <2>1 DEF CommandType
<1>3. CASE \E k \in Key, t \in Ttls : c = Command("expire", {k}, "none", t, id)
  <2>1. PICK k \in Key, t \in Ttls :
          c = [op |-> "expire", keys |-> {k}, opt |-> "none", ttl |-> t, id |-> id]
    BY <1>3 DEF Command
  <2>2. t \in Nat
    BY StandaloneAssumption
  <2> QED BY <2>1, <2>2 DEF CommandType
<1> DEFINE sets == {Command("set", {k}, o, t, id) : k \in Key, o \in Options, t \in Ttls \cup {NoTtl}}
           dels == {Command("del", ks, "none", NoTtl, id) : ks \in SUBSET Key \ {{}}}
           expires == {Command("expire", {k}, "none", t, id) : k \in Key, t \in Ttls}
<1>4. c \in sets \/ c \in dels \/ c \in expires
  <2>1. WriteCommand(id) = sets \cup dels \cup expires
    BY DEF WriteCommand
  <2> HIDE DEF sets, dels, expires
  <2> QED BY <2>1
<1>5. CASE c \in sets
  BY <1>1, <1>5, SMT
<1>6. CASE c \in dels
  BY <1>2, <1>6, Zenon
<1>7. CASE c \in expires
  BY <1>3, <1>7, SMT
<1> HIDE DEF sets, dels, expires
<1> QED BY <1>4, <1>5, <1>6, <1>7

\* A command sets the entries of its keys; E is what it makes of one.
LEMMA ApplyIs ==
  ASSUME NEW t \in [Key -> Entry], NEW c \in CommandType, NEW time \in Nat \ {0},
         c.op \in {"set", "expire"} => \E k \in Key : c.keys = {k}
  PROVE  /\ ApplyLogEntry(t, c, time) \in [Key -> Entry]
         /\ \A k \in Key : k \notin c.keys => ApplyLogEntry(t, c, time)[k] = t[k]
         /\ \A k \in c.keys :
              LET e == ApplyLogEntry(t, c, time)[k]
              IN /\ e.val \in {c.id, 0, -1, t[k].val}
                 /\ c.op = "set" /\ c.opt = "none" => e.val = c.id
                 /\ c.op = "del" => e.val = -1 /\ e.exp = 0
                 /\ c.op = "expire" => e.val = t[k].val
                 /\ e.exp # 0 => c.ttl # NoTtl \/ t[k].exp # 0
<1>0. /\ c.op \in {"set", "del", "expire"} /\ c.keys \subseteq Key /\ c.id \in Nat
      /\ c.ttl \in Nat \cup {NoTtl} /\ NoTtl = -1
  BY DEF CommandType, NoTtl
<1>1. PICK d : d = ExpireAt(c.ttl, time)
  OBVIOUS
<1>2. d \in Nat /\ (d # 0 => c.ttl # NoTtl)
  BY <1>0, <1>1 DEF ExpireAt
<1>3. Absent \in Entry /\ NewEntry \in Entry /\ Absent.val = -1 /\ Absent.exp = 0
      /\ NewEntry.val = 0 /\ NewEntry.exp = 0
  BY DEF Absent, NewEntry, Entry
<1>4. CASE c.op = "set"
  <2>1. PICK k \in Key : c.keys = {k} /\ TheKey(c) = k
    BY <1>4 DEF TheKey
  <2>2. PICK e : e = AddOrFind(t, k, time)
    OBVIOUS
  <2>3. e \in Entry /\ e.val \in {0, t[k].val} /\ (e.exp # 0 => t[k].exp # 0)
    BY <1>3, <2>2 DEF AddOrFind, Entry
  <2>4. PICK f : f = IF Refused(t, k, c, time) THEN e
                     ELSE [val |-> c.id, exp |-> IF d > 0 THEN d ELSE e.exp]
    OBVIOUS
  <2>5. f \in Entry /\ f.val \in {c.id, 0, t[k].val} /\ (f.exp # 0 => c.ttl # NoTtl \/ t[k].exp # 0)
    BY <1>0, <1>2, <2>3, <2>4 DEF Entry
  <2>6. c.opt = "none" => f.val = c.id
    BY <2>4 DEF Refused
  <2>7. ApplyLogEntry(t, c, time) = [t EXCEPT ![k] = f]
    BY <1>1, <1>4, <2>1, <2>2, <2>4 DEF ApplyLogEntry, ApplySet
  <2> QED BY <1>4, <2>1, <2>5, <2>6, <2>7
<1>5. CASE c.op = "del"
  <2>1. ApplyLogEntry(t, c, time) = [k \in Key |-> IF k \in c.keys THEN Absent ELSE t[k]]
    BY <1>5 DEF ApplyLogEntry, Del
  <2> QED BY <1>0, <1>3, <1>5, <2>1
<1>6. CASE c.op = "expire"
  <2>1. PICK k \in Key : c.keys = {k} /\ TheKey(c) = k
    BY <1>6 DEF TheKey
  <2>2. ApplyLogEntry(t, c, time) = SetExpire(t, k, d)
    BY <1>1, <1>6, <2>1 DEF ApplyLogEntry
  <2>3. SetExpire(t, k, d) = t \/ SetExpire(t, k, d) = [t EXCEPT ![k].exp = d]
    BY DEF SetExpire
  <2> QED BY <1>2, <1>6, <2>1, <2>2, <2>3 DEF Entry
<1> QED BY <1>0, <1>4, <1>5, <1>6

LEMMA EmptyTyped == EmptyTable \in [Key -> Entry] /\ \A k \in Key : EmptyTable[k] = Absent
  BY DEF EmptyTable, Absent, Entry

LEMMA CmdsGrow ==
  ASSUME CmdsTyped, over \subseteq Number, NEW c \in WriteCommand(Len(cmds) + 1),
         cmds' = Append(cmds, [command |-> c, prior |-> over])
  PROVE  /\ Len(cmds) \in Nat /\ Len(cmds') = Len(cmds) + 1
         /\ Number' = Number \cup {Len(cmds) + 1} /\ Len(cmds) + 1 \notin Number
         /\ \A n \in Number : cmds'[n] = cmds[n]
         /\ cmds'[Len(cmds) + 1] = [command |-> c, prior |-> over]
         /\ CmdsTyped'
<1> DEFINE T == [command : CommandType, prior : SUBSET Nat]
           x == [command |-> c, prior |-> over]
           n0 == Len(cmds) + 1
<1>1. cmds \in Seq(T) /\ Len(cmds) \in Nat /\ Number = 1..Len(cmds)
  BY DEF CmdsTyped, Number
<1>2. /\ c \in CommandType /\ c.id = n0
      /\ c.op = "set" => c.opt \in Options
      /\ c.op \in {"set", "expire"} => \E k \in Key : c.keys = {k}
  BY <1>1, CommandShapes
<1>3. over \in SUBSET Nat
  BY <1>1
<1>4. x \in T
  BY <1>2, <1>3
<1>5. /\ cmds' \in Seq(T) /\ Len(cmds') = n0
      /\ \A n \in 1..Len(cmds) : cmds'[n] = cmds[n]
      /\ cmds'[n0] = x
  <2> HIDE DEF T, x
  <2> QED BY <1>1, <1>4, AppendProperties DEF x
<1>6. Number' = 1..n0 /\ 1..n0 = Number \cup {n0} /\ n0 \notin Number
  BY <1>1, <1>5 DEF Number
<1>7. CmdsTyped'
  <2>1. ASSUME NEW n \in Number'
        PROVE  /\ cmds'[n].command.id = n
               /\ cmds'[n].command.op = "set" => cmds'[n].command.opt \in Options
               /\ cmds'[n].command.op \in {"set", "expire"} =>
                    \E k \in Key : cmds'[n].command.keys = {k}
    <3>1. CASE n \in Number
      BY <1>1, <1>5, <3>1 DEF CmdsTyped
    <3>2. CASE n = n0
      BY <1>2, <1>5, <3>2
    <3> QED BY <1>6, <3>1, <3>2
  <2> QED BY <1>5, <2>1 DEF CmdsTyped
<1> QED BY <1>1, <1>5, <1>6, <1>7

(***************************************************************************)
(* Every action keeps the types.                                           *)
(***************************************************************************)
LEMMA TypeFacts ==
  ASSUME TypeInv
  PROVE  /\ CmdsTyped /\ Number = 1..Len(cmds) /\ Len(cmds) \in Nat
         /\ TableTyped(db) /\ TableTyped(file.data) /\ \A s \in Saver : TableTyped(saver[s].data)
         /\ conn \in [Conn -> ConnType] /\ saver \in [Saver -> SaverType] /\ file \in FileType
         /\ buf \in Seq(Nat) /\ aof \in Seq(Nat) /\ pos \in Nat
         /\ Len(buf) \in Nat /\ Len(aof) \in Nat
         /\ kills \in Nat /\ failures \in Nat
         /\ now \in Nat \ {0} /\ now \in 1..MaxTime /\ mode \in {"up", "down", "replay"}
         /\ file.size \in 0..Cardinality(Key) /\ writes \in 0..CmdThreshold
         /\ over \subseteq Number /\ recorded \subseteq over
<1>1. Len(cmds) \in Nat
  BY DEF TypeInv, CmdsTyped
<1> QED BY <1>1 DEF TypeInv, Number, TablesTyped, Shapes, NumbersKnown, Counters

\* A step that brings no command.
LEMMA CmdsSame ==
  ASSUME CmdsTyped, cmds' = cmds
  PROVE  CmdsTyped' /\ Number' = Number
  BY DEF CmdsTyped, Number

LEMMA EmptyTableTyped ==
  ASSUME Len(cmds) \in Nat PROVE TableTyped(EmptyTable)
  BY EmptyTyped DEF TableTyped, Absent

LEMMA SizeBounded ==
  ASSUME NEW data PROVE Size(data) \in 0..Cardinality(Key) /\ Cardinality(Key) \in Nat
<1>1. IsFiniteSet(Key)
  BY StandaloneAssumption
<1>2. {k \in Key : data[k] # Absent} \in SUBSET Key
  OBVIOUS
<1>3. /\ Cardinality({k \in Key : data[k] # Absent}) \in Nat /\ Cardinality(Key) \in Nat
      /\ Cardinality({k \in Key : data[k] # Absent}) <= Cardinality(Key)
  BY <1>1, <1>2, FS_Subset, FS_CardinalityType
<1> QED BY <1>3 DEF Size

\* A connection moves to another place.
LEMMA ConnMoves ==
  ASSUME conn \in [Conn -> ConnType], NEW c \in Conn, NEW r \in ConnType,
         conn' = [conn EXCEPT ![c] = r]
  PROVE  /\ conn' \in [Conn -> ConnType] /\ conn'[c] = r
         /\ \A d \in Conn : d # c => conn'[d] = conn[d]
  OBVIOUS

LEMMA IdleTyped == Idle \in ConnType /\ Idle.pc = "idle" /\ Idle.cmd = 0
  BY DEF Idle, ConnType

LEMMA NotSavingTyped ==
  NotSaving \in SaverType /\ NotSaving.data = EmptyTable /\ NotSaving.pc = "idle"
  BY EmptyTyped DEF NotSaving, SaverType

LEMMA NoFileTyped ==
  /\ NoFile \in FileType /\ NoFile.data = EmptyTable
  /\ NoFile.size \in 0..Cardinality(Key)
<1>1. Cardinality(Key) \in Nat
  BY StandaloneAssumption, FS_CardinalityType
<1>2. FALSE \in BOOLEAN /\ 0 \in Nat /\ EmptyTable \in [Key -> Entry]
  BY EmptyTyped
<1>3. NoFile \in FileType /\ NoFile.data = EmptyTable
  BY <1>2, Zenon DEF NoFile, FileType
<1>4. NoFile.size = 0
  BY DEF NoFile
<1> QED BY <1>1, <1>3, <1>4

\* What WriteArrives does.
LEMMA Arrives ==
  ASSUME TypeInv, NEW c \in Conn, WriteArrives(c)
  PROVE  \E command \in WriteCommand(Len(cmds) + 1) :
           /\ Execute(c, command)
           /\ db' = ApplyLogEntry(db, command, now)
           /\ mode = "up" /\ conn[c].pc = "idle"
           /\ conn' = [conn EXCEPT ![c] =
                IF command.op = "expire" THEN Idle ELSE [pc |-> "append", cmd |-> Len(cmds) + 1]]
           /\ cmds' = Append(cmds, [command |-> command, prior |-> over])
           /\ over' = IF command.op = "expire" THEN over \cup {Len(cmds) + 1} ELSE over
           /\ UNCHANGED <<now, mode, buf, pos, saver, writes, aof, file, recorded, kills, failures>>
<1>1. PICK command \in WriteCommand(Len(cmds) + 1) : Execute(c, command)
  BY DEF WriteArrives
<1>2. Len(cmds) + 1 \in Nat
  BY TypeFacts
<1>3. command.id = Len(cmds) + 1
  BY <1>2, CommandShapes
<1> QED BY <1>1, <1>3 DEF Execute, disk, counts

LEMMA ArrivesTyped ==
  ASSUME TypeInv, NEW c \in Conn, WriteArrives(c)
  PROVE  TypeInv'
<1>1. PICK command \in WriteCommand(Len(cmds) + 1) :
        /\ db' = ApplyLogEntry(db, command, now)
        /\ mode = "up" /\ conn[c].pc = "idle"
        /\ conn' = [conn EXCEPT ![c] =
             IF command.op = "expire" THEN Idle ELSE [pc |-> "append", cmd |-> Len(cmds) + 1]]
        /\ cmds' = Append(cmds, [command |-> command, prior |-> over])
        /\ over' = IF command.op = "expire" THEN over \cup {Len(cmds) + 1} ELSE over
        /\ UNCHANGED <<now, mode, buf, pos, saver, writes, aof, file, recorded, kills, failures>>
  BY Arrives
<1>2. /\ Len(cmds) \in Nat /\ Len(cmds') = Len(cmds) + 1
      /\ Number' = Number \cup {Len(cmds) + 1} /\ CmdsTyped'
  BY <1>1, TypeFacts, CmdsGrow
<1>3. /\ command \in CommandType /\ command.id = Len(cmds) + 1
      /\ command.op \in {"set", "expire"} => \E k \in Key : command.keys = {k}
  BY <1>2, CommandShapes
<1>4. TablesTyped'
  <2>1. db \in [Key -> Entry] /\ (\A k \in Key : db[k].val \in -1..Len(cmds)) /\ now \in Nat \ {0}
    BY TypeFacts DEF TableTyped
  <2>2. /\ db' \in [Key -> Entry]
        /\ \A k \in Key : k \notin command.keys => db'[k] = db[k]
        /\ \A k \in command.keys : db'[k].val \in {command.id, 0, -1, db[k].val}
    BY <1>1, <1>3, <2>1, ApplyIs
  <2>3. \A k \in Key : db'[k].val \in -1..Len(cmds')
    BY <1>2, <1>3, <2>1, <2>2
  <2>4. \A n \in -1..Len(cmds) : n \in -1..Len(cmds')
    BY <1>2
  <2>5. TableTyped(file.data)' /\ \A s \in Saver : TableTyped(saver[s].data)'
    BY <1>1, <2>4, TypeFacts DEF TableTyped
  <2> QED BY <2>2, <2>3, <2>5 DEF TablesTyped, TableTyped
<1>5. PICK r : r = IF command.op = "expire" THEN Idle ELSE [pc |-> "append", cmd |-> Len(cmds) + 1]
  OBVIOUS
<1>6. r \in ConnType /\ (r.pc # "idle" => r.cmd \in Number')
  BY <1>2, <1>5, IdleTyped DEF ConnType
<1>7. /\ conn' \in [Conn -> ConnType] /\ conn'[c] = r
      /\ \A d \in Conn : d # c => conn'[d] = conn[d]
  BY <1>1, <1>5, <1>6, TypeFacts, ConnMoves
<1>8. Shapes'
  BY <1>1, <1>7, TypeFacts DEF Shapes
<1>9. NumbersKnown'
  <2>1. \A d \in Conn : conn'[d].pc # "idle" => conn'[d].cmd \in Number'
    BY <1>2, <1>6, <1>7 DEF TypeInv, NumbersKnown
  <2>2. over' \subseteq Number' /\ recorded' \subseteq over'
    BY <1>1, <1>2, TypeFacts
  <2> QED BY <1>1, <1>2, <2>1, <2>2 DEF TypeInv, NumbersKnown
<1>10. ServesOnlyUp' /\ Counters'
  BY <1>1 DEF TypeInv, ServesOnlyUp, Counters
<1> QED BY <1>2, <1>4, <1>8, <1>9, <1>10 DEF TypeInv

\* The steps of RecordCommand touch the connection, the buffer, the file and
\* the history of what is recorded.
LEMMA RecordTyped ==
  ASSUME TypeInv, NEW c \in Conn, conn[c].pc # "idle",
         NEW r \in ConnType, r.pc # "idle" => r.cmd = conn[c].cmd, conn' = [conn EXCEPT ![c] = r],
         buf' \in Seq(Nat), \A i \in 1..Len(buf') : buf'[i] \in Number,
         aof' \in Seq(Nat), \A i \in 1..Len(aof') : aof'[i] \in Number \cup {Torn},
         writes' \in 0..CmdThreshold, failures' \in Nat,
         recorded' \subseteq over', over' \subseteq Number,
         UNCHANGED <<now, mode, db, pos, saver, file, cmds, kills>>
  PROVE  TypeInv'
<1>1. CmdsTyped' /\ Number' = Number
  BY TypeFacts, CmdsSame
<1>2. /\ conn' \in [Conn -> ConnType] /\ conn'[c] = r
      /\ \A d \in Conn : d # c => conn'[d] = conn[d]
  BY TypeFacts, ConnMoves
<1>3. TablesTyped'
  BY DEF TypeInv, TablesTyped, TableTyped
<1>4. Shapes'
  BY <1>2, TypeFacts DEF Shapes
<1>5. \A d \in Conn : conn'[d].pc # "idle" => conn'[d].cmd \in Number
  BY <1>2 DEF TypeInv, NumbersKnown
<1>6. NumbersKnown'
  BY <1>1, <1>5 DEF NumbersKnown
<1>7. mode = "up"
  BY DEF TypeInv, ServesOnlyUp
<1>8. ServesOnlyUp' /\ Counters'
  BY <1>7 DEF TypeInv, ServesOnlyUp, Counters
<1> QED BY <1>1, <1>3, <1>4, <1>6, <1>8 DEF TypeInv

LEMMA AppendTyped ==
  ASSUME TypeInv, NEW c \in Conn, AofAppend(c)
  PROVE  TypeInv'
<1>1. /\ conn[c].pc = "append" /\ buf' = Append(buf, conn[c].cmd)
      /\ conn' = [conn EXCEPT ![c].pc = "flush"]
      /\ UNCHANGED <<now, mode, db, pos, saver, writes, aof, file, cmds, recorded, over, kills,
                     failures>>
  BY DEF AofAppend, disk, history, counts
<1>2. PICK r : r = [conn[c] EXCEPT !.pc = "flush"]
  OBVIOUS
<1>3. r \in ConnType /\ r.cmd = conn[c].cmd /\ conn' = [conn EXCEPT ![c] = r]
  BY <1>1, <1>2, TypeFacts DEF ConnType
<1>4. conn[c].cmd \in Number /\ conn[c].cmd \in Nat
  BY <1>1, TypeFacts DEF TypeInv, NumbersKnown
<1>5. /\ buf' \in Seq(Nat) /\ Len(buf') = Len(buf) + 1 /\ Len(buf) \in Nat
      /\ \A i \in 1..Len(buf) : buf'[i] = buf[i]
      /\ buf'[Len(buf) + 1] = conn[c].cmd
  BY <1>1, <1>4, TypeFacts, AppendProperties
<1>6. \A i \in 1..Len(buf') : buf'[i] \in Number
  BY <1>4, <1>5 DEF TypeInv, NumbersKnown
<1>7. \A i \in 1..Len(aof') : aof'[i] \in Number \cup {Torn}
  BY <1>1 DEF TypeInv, NumbersKnown
<1> QED BY <1>1, <1>3, <1>5, <1>6, <1>7, TypeFacts, RecordTyped

LEMMA CountTyped ==
  ASSUME TypeInv
  PROVE  (IF writes < CmdThreshold THEN writes + 1 ELSE writes) \in 0..CmdThreshold
<1>1. writes \in 0..CmdThreshold /\ CmdThreshold \in Nat
  BY TypeFacts, StandaloneAssumption
<1> QED BY <1>1

\* What a flush, failed or not, leaves behind.
LEMMA FlushedRecords ==
  ASSUME TypeInv, NEW n \in 0..Len(buf)
  PROVE  LET flushed == aof \o SubSeq(buf, 1, n)
         IN /\ flushed \in Seq(Nat) /\ Len(flushed) = Len(aof) + n
            /\ \A i \in 1..Len(aof) : flushed[i] = aof[i]
            /\ \A i \in 1..n : flushed[Len(aof) + i] = buf[i]
            /\ \A i \in 1..Len(flushed) : flushed[i] \in Number \cup {Torn}
<1> DEFINE part == SubSeq(buf, 1, n)
           flushed == aof \o part
<1>1. /\ buf \in Seq(Nat) /\ aof \in Seq(Nat) /\ Len(buf) \in Nat /\ Len(aof) \in Nat
      /\ \A i \in 1..Len(buf) : buf[i] \in Number /\ buf[i] \in Nat
      /\ \A i \in 1..Len(aof) : aof[i] \in Number \cup {Torn}
  BY TypeFacts, SMTT(30) DEF TypeInv, NumbersKnown
<1>2. n \in Nat /\ n <= Len(buf) /\ \A i \in 1..n : i \in 1..Len(buf)
  BY <1>1
<1>3. \A i \in 1..n : buf[i] \in Nat
  BY <1>1, <1>2
<1>4. part \in Seq(Nat) /\ Len(part) = n /\ \A i \in 1..n : part[i] = buf[i]
  <2>1. /\ part \in Seq(Nat) /\ Len(part) = (IF 1 <= n THEN n - 1 + 1 ELSE 0)
        /\ \A i \in 1..(n - 1 + 1) : part[i] = buf[1 + i - 1]
    BY <1>2, <1>3, SubSeqProperties
  <2> HIDE DEF part
  <2>2. \A i \in 1..n : i \in 1..(n - 1 + 1) /\ 1 + i - 1 = i
    BY <1>2
  <2>3. \A i \in 1..n : part[i] = buf[i]
    BY <2>1, <2>2
  <2> QED BY <1>2, <2>1, <2>3
<1> HIDE DEF part
<1>5. /\ flushed \in Seq(Nat) /\ Len(flushed) = Len(aof) + n
      /\ \A i \in 1..(Len(aof) + n) : flushed[i] = IF i <= Len(aof) THEN aof[i] ELSE part[i - Len(aof)]
  BY <1>1, <1>4, ConcatProperties
<1> HIDE DEF flushed
<1>6. \A i \in 1..Len(aof) : flushed[i] = aof[i]
  BY <1>1, <1>2, <1>5
<1>7. \A i \in 1..n : flushed[Len(aof) + i] = buf[i]
  <2> TAKE i \in 1..n
  <2>1. Len(aof) + i \in 1..(Len(aof) + n) /\ ~(Len(aof) + i <= Len(aof)) /\ (Len(aof) + i) - Len(aof) = i
    BY <1>1, <1>2
  <2> QED BY <1>4, <1>5, <2>1
<1>8. ASSUME NEW i \in 1..Len(flushed) PROVE flushed[i] \in Number \cup {Torn}
  <2>1. CASE i <= Len(aof)
    <3>1. i \in 1..Len(aof)
      BY <1>1, <1>2, <1>5, <2>1
    <3> QED BY <1>1, <1>6, <3>1
  <2>2. CASE ~(i <= Len(aof))
    <3>1. i - Len(aof) \in 1..n /\ i = Len(aof) + (i - Len(aof))
      BY <1>1, <1>2, <1>5, <2>2
    <3> QED BY <1>1, <1>2, <1>7, <3>1
  <2> QED BY <2>1, <2>2
<1> QED BY <1>5, <1>6, <1>7, <1>8 DEF flushed, part

LEMMA WholeBuffer ==
  ASSUME TypeInv PROVE SubSeq(buf, 1, Len(buf)) = buf
  BY TypeFacts

LEMMA EmptyBuffer == <<>> \in Seq(Nat) /\ Len(<<>>) = 0 /\ \A i \in 1..Len(<<>>) : <<>>[i] \in Number
  OBVIOUS

LEMMA FlushTyped ==
  ASSUME TypeInv, NEW c \in Conn, AofFlush(c)
  PROVE  TypeInv'
<1>1. /\ conn[c].pc = "flush" /\ aof' = aof \o buf /\ buf' = <<>>
      /\ conn' = [conn EXCEPT ![c] = Idle]
      /\ writes' = IF writes < CmdThreshold THEN writes + 1 ELSE writes
      /\ recorded' = recorded \cup ({conn[c].cmd} \ over) /\ over' = over \cup {conn[c].cmd}
      /\ UNCHANGED <<now, mode, db, pos, saver, file, cmds, kills, failures>>
  BY DEF AofFlush, counts
<1>2. conn[c].cmd \in Number
  BY <1>1 DEF TypeInv, NumbersKnown
<1>3. Len(buf) \in 0..Len(buf)
  BY TypeFacts
<1>4. aof' \in Seq(Nat) /\ \A i \in 1..Len(aof') : aof'[i] \in Number \cup {Torn}
  BY <1>1, <1>3, FlushedRecords, WholeBuffer
<1>5. buf' \in Seq(Nat) /\ \A i \in 1..Len(buf') : buf'[i] \in Number
  BY <1>1, EmptyBuffer
<1>6. recorded' \subseteq over' /\ over' \subseteq Number
  BY <1>1, <1>2, TypeFacts
<1>7. writes' \in 0..CmdThreshold
  BY <1>1, CountTyped
<1> QED BY <1>1, <1>4, <1>5, <1>6, <1>7, TypeFacts, IdleTyped, RecordTyped

\* What AofFlushFails does.
LEMMA Fails ==
  ASSUME TypeInv, NEW c \in Conn, AofFlushFails(c)
  PROVE  /\ conn[c].pc = "flush" /\ buf' = <<>> /\ conn' = [conn EXCEPT ![c] = Idle]
         /\ writes' = IF writes < CmdThreshold THEN writes + 1 ELSE writes
         /\ over' = over \cup {buf[i] : i \in 1..Len(buf)} \cup {conn[c].cmd}
         /\ failures' = failures + 1
         /\ \E n \in 0..Len(buf) : aof' = Append(aof \o SubSeq(buf, 1, n), Torn)
         /\ UNCHANGED <<now, mode, db, pos, saver, file, cmds, recorded, kills>>
<1>1. DOMAIN buf = 1..Len(buf) /\ Len(buf) \in Nat
  BY TypeFacts
<1>2. ToSet(buf) = {buf[i] : i \in 1..Len(buf)}
  BY <1>1 DEF ToSet
<1>3. \A n \in 0..(Len(buf) - 1) : n \in 0..Len(buf)
  BY <1>1
<1> QED BY <1>2, <1>3 DEF AofFlushFails

LEMMA FlushFailsTyped ==
  ASSUME TypeInv, NEW c \in Conn, AofFlushFails(c)
  PROVE  TypeInv'
<1>1. /\ conn[c].pc = "flush" /\ buf' = <<>> /\ conn' = [conn EXCEPT ![c] = Idle]
      /\ writes' = IF writes < CmdThreshold THEN writes + 1 ELSE writes
      /\ over' = over \cup {buf[i] : i \in 1..Len(buf)} \cup {conn[c].cmd}
      /\ failures' = failures + 1
      /\ UNCHANGED <<now, mode, db, pos, saver, file, cmds, recorded, kills>>
  BY Fails
<1>2. conn[c].cmd \in Number /\ \A i \in 1..Len(buf) : buf[i] \in Number
  BY <1>1 DEF TypeInv, NumbersKnown
<1>3. PICK n \in 0..Len(buf) : aof' = Append(aof \o SubSeq(buf, 1, n), Torn)
  BY Fails
<1>4. PICK flushed : flushed = aof \o SubSeq(buf, 1, n)
  OBVIOUS
<1>5. flushed \in Seq(Nat) /\ \A i \in 1..Len(flushed) : flushed[i] \in Number \cup {Torn}
  BY <1>4, FlushedRecords
<1>6. Torn \in Nat
  BY DEF Torn
<1>7. /\ aof' \in Seq(Nat) /\ Len(aof') = Len(flushed) + 1 /\ Len(flushed) \in Nat
      /\ \A i \in 1..Len(flushed) : aof'[i] = flushed[i]
      /\ aof'[Len(flushed) + 1] = Torn
  BY <1>3, <1>4, <1>5, <1>6, AppendProperties
<1>8. \A i \in 1..Len(aof') : aof'[i] \in Number \cup {Torn}
  BY <1>5, <1>7
<1>9. buf' \in Seq(Nat) /\ \A i \in 1..Len(buf') : buf'[i] \in Number
  BY <1>1, EmptyBuffer
<1>10. recorded' \subseteq over' /\ over' \subseteq Number
  BY <1>1, <1>2, TypeFacts
<1>11. writes' \in 0..CmdThreshold /\ failures' \in Nat
  BY <1>1, CountTyped, TypeFacts
<1> QED BY <1>1, <1>7, <1>8, <1>9, <1>10, <1>11, IdleTyped, RecordTyped

\* What a saver's step does: entries go from the shards to its export, and
\* from the export to the file.
SaverMoves(s) ==
  /\ UNCHANGED <<now, mode, db, conn, buf, pos, aof, cmds, recorded, over, kills>>
  /\ failures' \in Nat /\ writes' \in 0..CmdThreshold
  /\ saver' \in [Saver -> SaverType] /\ file' \in FileType /\ file'.size \in 0..Cardinality(Key)
  /\ \A u \in Saver, k \in Key : saver'[u].data[k] \in {Absent, saver[u].data[k], db[k]}
  /\ \A k \in Key : file'.data[k] \in {Absent, file.data[k], saver[s].data[k]}

LEMMA SaverBecomes ==
  ASSUME TypeInv, NEW s \in Saver, NEW r \in SaverType, saver' = [saver EXCEPT ![s] = r],
         \A k \in Key : r.data[k] \in {Absent, saver[s].data[k], db[k]}
  PROVE  /\ saver' \in [Saver -> SaverType]
         /\ \A u \in Saver, k \in Key : saver'[u].data[k] \in {Absent, saver[u].data[k], db[k]}
<1>1. saver \in [Saver -> SaverType]
  BY TypeFacts
<1>2. saver' \in [Saver -> SaverType] /\ \A u \in Saver : saver'[u] = IF u = s THEN r ELSE saver[u]
  BY <1>1
<1> QED BY <1>2

LEMMA SaveBeginsMoves ==
  ASSUME TypeInv, NEW s \in Saver, SaveBegins(s)
  PROVE  SaverMoves(s)
<1>1. /\ saver' = [saver EXCEPT ![s] = [pc |-> "export", todo |-> Key, data |-> EmptyTable]]
      /\ UNCHANGED <<now, mode, db, conn, buf, pos, writes, aof, file, cmds, recorded, over, kills,
                     failures>>
  BY DEF SaveBegins, disk, history, counts
<1>2. PICK r : r = [pc |-> "export", todo |-> Key, data |-> EmptyTable]
  OBVIOUS
<1>3. r \in SaverType /\ \A k \in Key : r.data[k] = Absent
  BY <1>2, EmptyTyped DEF SaverType
<1>4. /\ saver' \in [Saver -> SaverType]
      /\ \A u \in Saver, k \in Key : saver'[u].data[k] \in {Absent, saver[u].data[k], db[k]}
  BY <1>1, <1>2, <1>3, SaverBecomes
<1> QED BY <1>1, <1>4, TypeFacts DEF SaverMoves

LEMMA ExportMoves ==
  ASSUME TypeInv, NEW s \in Saver, NEW k \in Key, Export(s, k)
  PROVE  SaverMoves(s)
<1>1. /\ saver' = [saver EXCEPT ![s].todo = @ \ {k}, ![s].data[k] = db[k]]
      /\ UNCHANGED <<now, mode, db, conn, buf, pos, writes, aof, file, cmds, recorded, over, kills,
                     failures>>
  BY DEF Export, disk, history, counts
<1>2. saver[s] \in SaverType /\ db \in [Key -> Entry]
  BY TypeFacts DEF TableTyped
<1>3. PICK r : r = [saver[s] EXCEPT !.todo = @ \ {k}, !.data[k] = db[k]]
  OBVIOUS
<1>4. saver' = [saver EXCEPT ![s] = r]
  BY <1>1, <1>3, TypeFacts
<1>5. /\ r = [pc |-> saver[s].pc, todo |-> saver[s].todo \ {k},
              data |-> [saver[s].data EXCEPT ![k] = db[k]]]
      /\ saver[s].data \in [Key -> Entry]
  BY <1>2, <1>3 DEF SaverType
<1>6. r \in SaverType /\ \A j \in Key : r.data[j] \in {Absent, saver[s].data[j], db[j]}
  BY <1>2, <1>5 DEF SaverType
<1>7. /\ saver' \in [Saver -> SaverType]
      /\ \A u \in Saver, j \in Key : saver'[u].data[j] \in {Absent, saver[u].data[j], db[j]}
  BY <1>4, <1>6, SaverBecomes
<1> QED BY <1>1, <1>7, TypeFacts DEF SaverMoves

LEMMA OpenFileMoves ==
  ASSUME TypeInv, NEW s \in Saver, OpenFile(s)
  PROVE  SaverMoves(s)
<1>1. /\ saver' = [saver EXCEPT ![s].pc = "write"] /\ file' = NoFile
      /\ UNCHANGED <<now, mode, db, conn, buf, pos, writes, aof, cmds, recorded, over, kills,
                     failures>>
  BY DEF OpenFile, history, counts
<1>2. PICK r : r = [saver[s] EXCEPT !.pc = "write"]
  OBVIOUS
<1>3. r \in SaverType /\ r.data = saver[s].data /\ saver' = [saver EXCEPT ![s] = r]
  BY <1>1, <1>2, TypeFacts DEF SaverType
<1>4. /\ saver' \in [Saver -> SaverType]
      /\ \A u \in Saver, k \in Key : saver'[u].data[k] \in {Absent, saver[u].data[k], db[k]}
  BY <1>3, SaverBecomes
<1>5. /\ file' \in FileType /\ file'.size \in 0..Cardinality(Key)
      /\ \A k \in Key : file'.data[k] = Absent
  BY <1>1, NoFileTyped, EmptyTyped
<1> QED BY <1>1, <1>4, <1>5, TypeFacts DEF SaverMoves

\* The end of a save.
LEMMA SaveEndsMoves ==
  ASSUME TypeInv, NEW s \in Saver, SaveEnds(s)
  PROVE  /\ saver' \in [Saver -> SaverType] /\ writes' \in 0..CmdThreshold
         /\ \A u \in Saver, k \in Key : saver'[u].data[k] \in {Absent, saver[u].data[k], db[k]}
<1>1. saver' = [saver EXCEPT ![s] = NotSaving] /\ writes' \in {0, writes}
  BY DEF SaveEnds
<1>2. NotSaving \in SaverType /\ \A k \in Key : NotSaving.data[k] = Absent
  BY NotSavingTyped, EmptyTyped
<1>3. writes' \in 0..CmdThreshold
  BY <1>1, TypeFacts, StandaloneAssumption
<1> QED BY <1>1, <1>2, <1>3, SaverBecomes, ZenonT(30)

\* A file that does not decode any more.
LEMMA FileBroken ==
  ASSUME file \in FileType
  PROVE  /\ [file EXCEPT !.ok = FALSE] \in FileType
         /\ [file EXCEPT !.ok = FALSE].size = file.size
         /\ [file EXCEPT !.ok = FALSE].data = file.data
  BY Zenon DEF FileType

LEMMA WriteFileMoves ==
  ASSUME TypeInv, NEW s \in Saver, WriteFile(s)
  PROVE  SaverMoves(s)
<1>1. PICK mine : mine = Size(saver[s].data)
  OBVIOUS
<1>2. /\ file' = IF file.size > mine THEN [file EXCEPT !.ok = FALSE]
                 ELSE [ok |-> TRUE, size |-> mine, data |-> saver[s].data]
      /\ SaveEnds(s)
      /\ UNCHANGED <<now, mode, db, conn, buf, pos, aof, cmds, recorded, over, kills, failures>>
  BY <1>1 DEF WriteFile, history, counts
<1>3. mine \in 0..Cardinality(Key) /\ mine \in Nat
  BY <1>1, SizeBounded
<1>4. saver[s].data \in [Key -> Entry]
  BY TypeFacts DEF TableTyped
<1>5. PICK g : g = [ok |-> TRUE, size |-> mine, data |-> saver[s].data]
  OBVIOUS
<1>6. g \in FileType /\ g.size = mine /\ g.data = saver[s].data
  BY <1>3, <1>4, <1>5, Zenon DEF FileType
<1>7. /\ file' \in FileType /\ file'.size \in 0..Cardinality(Key)
      /\ file'.data = file.data \/ file'.data = saver[s].data
  BY <1>2, <1>3, <1>5, <1>6, FileBroken, TypeFacts
<1>8. \A k \in Key : file'.data[k] \in {Absent, file.data[k], saver[s].data[k]}
  BY <1>7
<1> QED BY <1>2, <1>7, <1>8, SaveEndsMoves, TypeFacts DEF SaverMoves

LEMMA SaveFailsMoves ==
  ASSUME TypeInv, NEW s \in Saver, SaveFails(s)
  PROVE  SaverMoves(s)
<1>1. /\ UNCHANGED file \/ file' = [file EXCEPT !.ok = FALSE]
      /\ SaveEnds(s) /\ failures' = failures + 1
      /\ UNCHANGED <<now, mode, db, conn, buf, pos, aof, cmds, recorded, over, kills>>
  BY DEF SaveFails, history
<1>2. /\ file' \in FileType /\ file'.size \in 0..Cardinality(Key) /\ file'.data = file.data
  BY <1>1, FileBroken, TypeFacts
<1>3. failures' \in Nat
  BY <1>1, TypeFacts
<1> QED BY <1>1, <1>2, <1>3, SaveEndsMoves DEF SaverMoves

LEMMA SaveMoves ==
  ASSUME TypeInv, NEW s \in Saver, SaveStep(s)
  PROVE  SaverMoves(s)
  BY SaveBeginsMoves, ExportMoves, OpenFileMoves, WriteFileMoves, SaveFailsMoves DEF SaveStep

\* A table whose entries come from well-typed ones.
LEMMA TableFrom ==
  ASSUME Len(cmds) \in Nat, cmds' = cmds, NEW t \in [Key -> Entry], NEW u, NEW v,
         TableTyped(u), TableTyped(v), \A k \in Key : t[k] \in {Absent, u[k], v[k]}
  PROVE  t \in [Key -> Entry] /\ \A k \in Key : t[k].val \in -1..Len(cmds')
  BY DEF TableTyped, Absent

LEMMA SaveTyped ==
  ASSUME TypeInv, NEW s \in Saver, SaverMoves(s)
  PROVE  TypeInv'
<1>1. /\ UNCHANGED <<now, mode, db, conn, buf, pos, aof, cmds, recorded, over, kills>>
      /\ failures' \in Nat /\ writes' \in 0..CmdThreshold
      /\ saver' \in [Saver -> SaverType] /\ file' \in FileType
      /\ file'.size \in 0..Cardinality(Key)
  BY DEF SaverMoves
<1>2. CmdsTyped' /\ Number' = Number
  BY <1>1, TypeFacts, CmdsSame
<1>3. TableTyped(db)'
  BY <1>1, TypeFacts DEF TableTyped
<1>4. TableTyped(file.data)'
  <2>1. file'.data \in [Key -> Entry]
    BY <1>1 DEF FileType
  <2>2. \A k \in Key : file'.data[k] \in {Absent, file.data[k], saver[s].data[k]}
    BY DEF SaverMoves
  <2>3. \A k \in Key : file'.data[k].val \in -1..Len(cmds')
    BY <1>1, <2>1, <2>2, TypeFacts, TableFrom
  <2> QED BY <2>1, <2>3 DEF TableTyped
<1>5. ASSUME NEW u \in Saver PROVE TableTyped(saver[u].data)'
  <2>1. saver'[u].data \in [Key -> Entry]
    BY <1>1 DEF SaverType
  <2>2. \A k \in Key : saver'[u].data[k] \in {Absent, saver[u].data[k], db[k]}
    BY DEF SaverMoves
  <2>3. \A k \in Key : saver'[u].data[k].val \in -1..Len(cmds')
    BY <1>1, <2>1, <2>2, TypeFacts, TableFrom
  <2> QED BY <2>1, <2>3 DEF TableTyped
<1>6. Shapes'
  BY <1>1, TypeFacts DEF Shapes
<1>7. NumbersKnown' /\ ServesOnlyUp'
  BY <1>1, <1>2 DEF TypeInv, NumbersKnown, ServesOnlyUp
<1>8. Counters'
  BY <1>1, TypeFacts DEF TypeInv, Counters
<1> QED BY <1>2, <1>3, <1>4, <1>5, <1>6, <1>7, <1>8 DEF TypeInv, TablesTyped

\* The process is gone: what is left is on disk, and the commands whose
\* connections it served are over.
Stops ==
  /\ mode' = "down" /\ db' = EmptyTable /\ buf' = <<>> /\ pos' = 0 /\ writes' = 0
  /\ conn' \in [Conn -> ConnType] /\ (\A c \in Conn : conn'[c].pc = "idle")
  /\ saver' \in [Saver -> SaverType] /\ (\A s \in Saver : saver'[s].data = EmptyTable)
  /\ UNCHANGED <<now, cmds>>
  /\ file' \in {file, NoFile}
  /\ aof' \in Seq(Nat) /\ (\A i \in 1..Len(aof') : aof'[i] \in Number \cup {Torn})
  /\ recorded' \subseteq recorded /\ over \subseteq over' /\ over' \subseteq Number
  /\ kills' \in Nat /\ failures' \in Nat

LEMMA EndsStops ==
  ASSUME TypeInv, ProcessEnds
  PROVE  /\ mode' = "down" /\ db' = EmptyTable /\ buf' = <<>> /\ pos' = 0 /\ writes' = 0
         /\ conn' \in [Conn -> ConnType] /\ (\A c \in Conn : conn'[c].pc = "idle")
         /\ saver' \in [Saver -> SaverType] /\ (\A s \in Saver : saver'[s].data = EmptyTable)
         /\ Busy \subseteq Number
<1>1. Busy \subseteq Number
  BY DEF TypeInv, NumbersKnown, Busy
<1> QED BY <1>1, IdleTyped, NotSavingTyped DEF ProcessEnds

LEMMA AofKnown ==
  ASSUME TypeInv
  PROVE  aof \in Seq(Nat) /\ \A i \in 1..Len(aof) : aof[i] \in Number \cup {Torn}
  BY TypeFacts DEF TypeInv, NumbersKnown

LEMMA KillStops ==
  ASSUME TypeInv, Kill
  PROVE  Stops /\ aof' = aof /\ recorded' = recorded
<1>1. /\ ProcessEnds /\ over' = over \cup Busy /\ kills' = kills + 1
      /\ UNCHANGED <<now, aof, file, cmds, recorded, failures>>
  BY DEF Kill, disk
<1>2. over' \subseteq Number /\ kills' \in Nat /\ failures' \in Nat
  BY <1>1, EndsStops, TypeFacts
<1> QED BY <1>1, <1>2, EndsStops, AofKnown DEF Stops

LEMMA ShutdownStops ==
  ASSUME TypeInv, Shutdown
  PROVE  Stops /\ aof' = aof \o buf /\ recorded' = recorded
<1>1. /\ ProcessEnds /\ aof' = aof \o buf /\ kills' = kills + 1
      /\ UNCHANGED <<now, file, cmds, recorded, over, failures>>
  BY DEF Shutdown, history
<1>2. Len(buf) \in 0..Len(buf)
  BY TypeFacts
<1>3. aof' \in Seq(Nat) /\ \A i \in 1..Len(aof') : aof'[i] \in Number \cup {Torn}
  BY <1>1, <1>2, FlushedRecords, WholeBuffer
<1>4. over' \subseteq Number /\ kills' \in Nat /\ failures' \in Nat
  BY <1>1, TypeFacts
<1> QED BY <1>1, <1>3, <1>4, EndsStops DEF Stops

\* Of the AOF a power failure leaves a part, perhaps with a last record cut
\* short.
LEMMA Leftover ==
  ASSUME TypeInv, PowerFailure
  PROVE  \E n \in 0..Len(aof) :
           /\ aof' \in Seq(Nat) /\ Len(aof') \in {n, n + 1}
           /\ \A i \in 1..n : aof'[i] = aof[i]
           /\ Len(aof') = n + 1 => aof'[n + 1] = Torn
<1>1. PICK n \in 0..Len(aof) :
        aof' = SubSeq(aof, 1, n) \/ aof' = Append(SubSeq(aof, 1, n), Torn)
  BY DEF PowerFailure
<1>2. PICK part : part = SubSeq(aof, 1, n)
  OBVIOUS
<1>3. n \in Nat /\ n <= Len(aof) /\ Len(aof) \in Nat /\ aof \in Seq(Nat) /\ Torn \in Nat
  BY TypeFacts DEF Torn
<1>4. \A i \in 1..n : aof[i] \in Nat
  BY <1>3
<1>5. part \in Seq(Nat) /\ Len(part) = n /\ \A i \in 1..n : part[i] = aof[i]
  <2>1. /\ part \in Seq(Nat) /\ Len(part) = (IF 1 <= n THEN n - 1 + 1 ELSE 0)
        /\ \A i \in 1..(n - 1 + 1) : part[i] = aof[1 + i - 1]
    BY <1>2, <1>3, <1>4, SubSeqProperties
  <2>2. \A i \in 1..n : i \in 1..(n - 1 + 1) /\ 1 + i - 1 = i
    BY <1>3
  <2>3. \A i \in 1..n : part[i] = aof[i]
    BY <2>1, <2>2
  <2> QED BY <1>3, <2>1, <2>3
<1>6. CASE aof' = part
  <2>1. aof' \in Seq(Nat) /\ Len(aof') = n /\ n # n + 1 /\ \A i \in 1..n : aof'[i] = aof[i]
    BY <1>3, <1>5, <1>6
  <2> QED BY <2>1
<1>7. CASE aof' = Append(part, Torn)
  <2>1. /\ aof' \in Seq(Nat) /\ Len(aof') = n + 1
        /\ \A i \in 1..n : aof'[i] = part[i]
        /\ aof'[n + 1] = Torn
    BY <1>3, <1>5, <1>7, AppendProperties
  <2> QED BY <1>5, <2>1
<1> QED BY <1>1, <1>2, <1>6, <1>7

LEMMA PowerFailureStops ==
  ASSUME TypeInv, PowerFailure
  PROVE  /\ Stops /\ recorded' \subseteq {aof'[i] : i \in 1..Len(aof')}
<1>1. /\ ProcessEnds /\ over' = over \cup Busy /\ failures' = failures + 1
      /\ file' = file \/ file' = NoFile
      /\ recorded' = recorded \cap ToSet(aof')
      /\ UNCHANGED <<now, cmds, kills>>
  BY DEF PowerFailure
<1>2. PICK n \in 0..Len(aof) :
        /\ aof' \in Seq(Nat) /\ Len(aof') \in {n, n + 1}
        /\ \A i \in 1..n : aof'[i] = aof[i]
        /\ Len(aof') = n + 1 => aof'[n + 1] = Torn
  BY Leftover
<1>3. n \in Nat /\ n <= Len(aof) /\ Len(aof) \in Nat
  BY TypeFacts
<1>4. ASSUME NEW i \in 1..Len(aof') PROVE aof'[i] \in Number \cup {Torn}
  <2>1. i \in 1..n \/ (i = n + 1 /\ Len(aof') = n + 1)
    BY <1>2, <1>3
  <2>2. CASE i \in 1..n
    <3>1. i \in 1..Len(aof)
      BY <1>3, <2>2
    <3> QED BY <1>2, <2>2, <3>1, AofKnown
  <2> QED BY <1>2, <2>1, <2>2
<1>5. DOMAIN aof' = 1..Len(aof')
  BY <1>2
<1>6. recorded' \subseteq {aof'[i] : i \in 1..Len(aof')} /\ recorded' \subseteq recorded
  BY <1>1, <1>5 DEF ToSet
<1>7. over' \subseteq Number /\ kills' \in Nat /\ failures' \in Nat
  BY <1>1, EndsStops, TypeFacts
<1> QED BY <1>1, <1>2, <1>4, <1>6, <1>7, EndsStops DEF Stops

LEMMA StopTyped ==
  ASSUME TypeInv, Stops
  PROVE  TypeInv'
<1>1. /\ UNCHANGED <<now, cmds>> /\ db' = EmptyTable /\ mode' = "down" /\ buf' = <<>>
      /\ file' \in {file, NoFile} /\ writes' = 0 /\ pos' = 0
      /\ saver' \in [Saver -> SaverType] /\ (\A s \in Saver : saver'[s].data = EmptyTable)
  BY DEF Stops
<1>2. CmdsTyped' /\ Number' = Number /\ Len(cmds) \in Nat
  BY <1>1, TypeFacts, CmdsSame
<1>3. TableTyped(EmptyTable)' /\ TableTyped(file.data)'
  BY <1>1, <1>2, TypeFacts, EmptyTableTyped, NoFileTyped DEF TableTyped
<1>4. TablesTyped'
  BY <1>1, <1>3 DEF TablesTyped, TableTyped
<1>5. file' \in FileType /\ file'.size \in 0..Cardinality(Key)
  BY <1>1, TypeFacts, NoFileTyped
<1>6. Shapes'
  BY <1>1, <1>5, EmptyBuffer DEF Shapes, Stops
<1>7. buf' \in Seq(Nat) /\ \A i \in 1..Len(buf') : buf'[i] \in Number
  BY <1>1, EmptyBuffer
<1>8. recorded' \subseteq over'
  BY TypeFacts DEF Stops
<1>9. NumbersKnown'
  BY <1>2, <1>7, <1>8 DEF Stops, NumbersKnown
<1>10. ServesOnlyUp'
  BY <1>1 DEF Stops, ServesOnlyUp
<1>11. Counters'
  BY <1>1, <1>5, TypeFacts, StandaloneAssumption DEF Counters
<1> QED BY <1>2, <1>4, <1>6, <1>9, <1>10, <1>11 DEF TypeInv

\* Starting, replaying and the clock leave everything but the shards, the
\* mode, the position and the time alone.
LEMMA StartTyped ==
  ASSUME TypeInv, TableTyped(db)', pos' \in Nat, mode' = "replay" => pos' >= 1, mode' \in {"up", "down", "replay"},
         mode' = mode \/ mode # "up", now' \in 1..MaxTime,
         UNCHANGED <<conn, buf, saver, writes, aof, file, cmds, recorded, over, kills, failures>>
  PROVE  TypeInv'
<1>1. CmdsTyped' /\ Number' = Number
  BY TypeFacts, CmdsSame
<1>2. TablesTyped'
  BY TypeFacts DEF TablesTyped, TableTyped
<1>3. Shapes' /\ Counters'
  BY TypeFacts DEF Shapes, Counters
<1>4. NumbersKnown' /\ ServesOnlyUp'
  BY <1>1 DEF TypeInv, NumbersKnown, ServesOnlyUp
<1> QED BY <1>1, <1>2, <1>3, <1>4 DEF TypeInv

\* The table a start begins with.
Loaded == IF file.ok THEN Import(EmptyTable, file.data) ELSE EmptyTable

LEMMA LoadedTyped ==
  ASSUME TypeInv
  PROVE  /\ TableTyped(Loaded)
         /\ \A k \in Key : Loaded[k] \in {Absent, file.data[k]}
<1>1. TableTyped(file.data) /\ TableTyped(EmptyTable) /\ \A k \in Key : EmptyTable[k] = Absent
  BY TypeFacts, EmptyTyped, EmptyTableTyped
<1>2. PICK t : t = Import(EmptyTable, file.data)
  OBVIOUS
<1>3. t = [k \in Key |-> IF file.data[k] = Absent THEN Absent ELSE file.data[k]]
  BY <1>1, <1>2 DEF Import
<1>4. TableTyped(t) /\ \A k \in Key : t[k] \in {Absent, file.data[k]}
  BY <1>1, <1>3 DEF TableTyped
<1> QED BY <1>1, <1>2, <1>4 DEF Loaded

LEMMA BootTyped ==
  ASSUME TypeInv, Boot
  PROVE  TypeInv'
<1>1. /\ mode = "down" /\ mode' = "replay" /\ db' = Loaded /\ pos' = 1
      /\ UNCHANGED <<now, conn, buf, saver, writes, aof, file, cmds, recorded, over, kills, failures>>
  BY DEF Boot, Loaded, disk, history, counts
<1>2. TableTyped(db)'
  BY <1>1, LoadedTyped DEF TableTyped
<1> QED BY <1>1, <1>2, TypeFacts, StartTyped

\* A record that parses is that of a command.
LEMMA RecordIsCommand ==
  ASSUME TypeInv, NEW i \in 1..Len(aof), aof[i] # Torn
  PROVE  /\ aof[i] \in Number /\ cmds[aof[i]].command \in CommandType
         /\ cmds[aof[i]].command.id = aof[i]
         /\ cmds[aof[i]].command.op = "set" => cmds[aof[i]].command.opt \in Options
         /\ cmds[aof[i]].command.op \in {"set", "expire"} =>
              \E k \in Key : cmds[aof[i]].command.keys = {k}
<1>1. aof[i] \in Number
  BY AofKnown
<1>2. cmds[aof[i]] \in [command : CommandType, prior : SUBSET Nat]
  BY <1>1, TypeFacts, ElementOfSeq DEF CmdsTyped
<1> QED BY <1>1, <1>2, TypeFacts DEF CmdsTyped

LEMMA PosInFile ==
  ASSUME TypeInv, ReplayCommand
  PROVE  pos \in 1..Len(aof) /\ aof[pos] # Torn
<1>1. pos \in Nat /\ pos >= 1 /\ Len(aof) \in Nat
  BY TypeFacts DEF TypeInv, Counters, ReplayCommand
<1> QED BY <1>1 DEF ReplayCommand, Parses

LEMMA ReplayTyped ==
  ASSUME TypeInv, ReplayCommand
  PROVE  TypeInv'
<1>1. /\ mode = "replay" /\ aof[pos] # Torn /\ pos' = pos + 1
      /\ db' = ApplyLogEntry(db, cmds[aof[pos]].command, now)
      /\ UNCHANGED <<now, mode, conn, buf, saver, writes, aof, file, cmds, recorded, over, kills,
                     failures>>
  BY DEF ReplayCommand, Parses, disk, history, counts
<1>2. PICK c : c = cmds[aof[pos]].command
  OBVIOUS
<1>3. /\ c \in CommandType /\ c.id \in Number
      /\ c.op \in {"set", "expire"} => \E k \in Key : c.keys = {k}
  BY <1>1, <1>2, PosInFile, RecordIsCommand
<1>4. db \in [Key -> Entry] /\ (\A k \in Key : db[k].val \in -1..Len(cmds)) /\ now \in Nat \ {0}
      /\ Number = 1..Len(cmds) /\ Len(cmds) \in Nat
  BY TypeFacts DEF TableTyped
<1>5. /\ db' \in [Key -> Entry]
      /\ \A k \in Key : k \notin c.keys => db'[k] = db[k]
      /\ \A k \in c.keys : db'[k].val \in {c.id, 0, -1, db[k].val}
  <2>1. db' = ApplyLogEntry(db, c, now)
    BY <1>1, <1>2
  <2> QED BY <1>3, <1>4, <2>1, ApplyIs
<1>6. \A k \in Key : db'[k].val \in -1..Len(cmds)
  BY <1>3, <1>4, <1>5
<1>7. TableTyped(db)'
  BY <1>1, <1>5, <1>6 DEF TableTyped
<1>8. pos' \in Nat /\ pos' >= 1
  BY <1>1, TypeFacts, SMTT(30)
<1> QED BY <1>1, <1>7, <1>8, TypeFacts, StartTyped

LEMMA OthersTyped ==
  ASSUME TypeInv, ReplayEnds \/ Tick
  PROVE  TypeInv'
<1>1. CASE ReplayEnds
  BY <1>1, TypeFacts, StartTyped DEF ReplayEnds, disk, history, counts, TableTyped
<1>2. CASE Tick
  <2>1. /\ now < MaxTime /\ now' = now + 1
        /\ UNCHANGED <<mode, db, pos, conn, buf, saver, writes, aof, file, cmds, recorded, over,
                       kills, failures>>
    BY <1>2 DEF Tick, server, disk, history, counts
  <2>2. now' \in 1..MaxTime
    BY <2>1, TypeFacts, StandaloneAssumption, SMTT(30)
  <2> QED BY <2>1, <2>2, TypeFacts, StartTyped DEF TableTyped, TypeInv, Counters
<1> QED BY <1>1, <1>2

LEMMA TypeInit ==
  ASSUME Init PROVE TypeInv
<1>1. /\ cmds = <<>> /\ recorded = {} /\ over = {} /\ kills = 0 /\ failures = 0
      /\ now = 1 /\ mode = "up" /\ db = EmptyTable
      /\ conn = [c \in Conn |-> Idle] /\ buf = <<>> /\ aof = <<>> /\ pos = 0 /\ writes = 0
      /\ saver = [s \in Saver |-> NotSaving] /\ file = NoFile
  BY DEF Init
<1>2. Len(cmds) = 0 /\ Number = {}
  BY <1>1 DEF Number
<1>3. CmdsTyped
  BY <1>1, <1>2 DEF CmdsTyped
<1>4. TablesTyped
  BY <1>1, <1>2, EmptyTableTyped, NotSavingTyped, NoFileTyped DEF TablesTyped
<1>5. Shapes
  BY <1>1, IdleTyped, NotSavingTyped, NoFileTyped DEF Shapes
<1>6. NumbersKnown /\ ServesOnlyUp
  BY <1>1, <1>2, IdleTyped DEF NumbersKnown, ServesOnlyUp
<1>7. Counters
  BY <1>1, NoFileTyped, StandaloneAssumption DEF Counters
<1> QED BY <1>3, <1>4, <1>5, <1>6, <1>7 DEF TypeInv

LEMMA TypeSame ==
  ASSUME TypeInv, UNCHANGED vars
  PROVE  TypeInv'
<1>1. UNCHANGED <<now, mode, db, pos, conn, buf, saver, writes, aof, file, cmds, recorded, over,
                  kills, failures>>
  BY DEF vars, server, disk, history, counts
<1> QED BY <1>1, TypeFacts, StartTyped DEF TableTyped, TypeInv, Counters

LEMMA TypeStep ==
  ASSUME TypeInv, [Next]_vars
  PROVE  TypeInv'
<1>1. CASE \E c \in Conn : ConnStep(c)
  BY <1>1, ArrivesTyped, AppendTyped, FlushTyped, FlushFailsTyped DEF ConnStep
<1>2. CASE \E s \in Saver : SaveStep(s)
  BY <1>2, SaveMoves, SaveTyped
<1>3. CASE Kill \/ Shutdown \/ PowerFailure
  BY <1>3, KillStops, ShutdownStops, PowerFailureStops, StopTyped
<1>4. CASE Boot \/ ReplayCommand \/ ReplayEnds \/ Tick
  BY <1>4, BootTyped, ReplayTyped, OthersTyped
<1>5. CASE UNCHANGED vars
  BY <1>5, TypeSame
<1> QED BY <1>1, <1>2, <1>3, <1>4, <1>5 DEF Next

\* The server keeps its types: every value in a shard is that of a command
\* applied, every record in the AOF is that of one or cut short, and the write
\* count never exceeds its trigger.
THEOREM StandaloneTypes == Spec => []TypeOK
<1>1. ASSUME TypeInv PROVE TypeOK
  <2>1. ToSet(buf) \subseteq Number
    BY <1>1, TypeFacts DEF TypeInv, NumbersKnown, ToSet
  <2>2. ToSet(aof) \subseteq Number \cup {Torn}
    BY <1>1, TypeFacts DEF TypeInv, NumbersKnown, ToSet
  <2>3. \A k \in Key : db[k].val \in -1..Len(cmds) /\ db[k].exp \in Nat
    BY <1>1, TypeFacts DEF TableTyped, Entry
  <2> QED BY <1>1, <2>1, <2>2, <2>3, TypeFacts DEF TypeOK
<1> QED BY <1>1, TypeInit, TypeStep, PTL DEF Spec

(***************************************************************************)
(* The order of the AOF.                                                   *)
(***************************************************************************)
LEMMA RecordsFacts ==
  ASSUME TypeInv
  PROVE  /\ Records \in Seq(Nat) /\ Len(Records) = Len(aof) + Len(buf)
         /\ \A i \in 1..Len(aof) : Records[i] = aof[i]
         /\ \A i \in 1..Len(buf) : Records[Len(aof) + i] = buf[i]
<1>1. Len(buf) \in 0..Len(buf)
  BY TypeFacts
<1> QED BY <1>1, FlushedRecords, WholeBuffer DEF Records

\* A prefix of the records, with records cut short behind it, is in order.
LEMMA OrderFrom ==
  ASSUME TypeInv, AofInv, NEW R \in Seq(Nat), NEW n \in 0..Len(Records),
         Len(R) >= n, \A i \in 1..n : R[i] = Records[i],
         \A i \in 1..Len(R) : i > n => R[i] = Torn
  PROVE  \A i \in 1..Len(R) : R[i] \in Number =>
           /\ cmds[R[i]].command.op # "expire"
           /\ \A j \in i..Len(R) : R[j] \notin cmds[R[i]].prior
<1>1. Len(Records) \in Nat /\ Len(R) \in Nat /\ n \in Nat /\ n <= Len(Records)
  BY RecordsFacts
<1>2. Torn \notin Number /\ Number \subseteq Nat \ {0}
  BY TypeFacts DEF Torn
<1> SUFFICES ASSUME NEW i \in 1..Len(R), R[i] \in Number
             PROVE  /\ cmds[R[i]].command.op # "expire"
                    /\ \A j \in i..Len(R) : R[j] \notin cmds[R[i]].prior
  OBVIOUS
<1>3. i \in 1..n /\ i \in 1..Len(Records)
  BY <1>1, <1>2
<1>4. R[i] = Records[i] /\ Records[i] \in Number
  BY <1>3
<1>5. cmds[R[i]].command.op # "expire"
  BY <1>3, <1>4 DEF AofInv, RecordsOrdered
<1>6. ASSUME NEW j \in i..Len(R) PROVE R[j] \notin cmds[R[i]].prior
  <2>1. CASE j <= n
    <3>1. j \in i..Len(Records) /\ j \in 1..n
      BY <1>1, <2>1
    <3> QED BY <1>3, <1>4, <3>1 DEF AofInv, RecordsOrdered
  <2>2. CASE ~(j <= n)
    <3>1. R[j] = Torn
      BY <1>1, <1>3, <2>2
    <3>2. cmds[R[i]].prior \subseteq Number
      BY <1>4, TypeFacts DEF AofInv, PriorsOver
    <3> QED BY <1>2, <3>1, <3>2
  <2> QED BY <2>1, <2>2
<1> QED BY <1>5, <1>6

LEMMA AofSame ==
  ASSUME TypeInv, AofInv, UNCHANGED <<conn, buf, aof, cmds, recorded, over>>
  PROVE  AofInv'
<1>1. Number' = Number /\ Records' = Records
  BY DEF Number, Records
<1>2. PriorsOver'
  BY <1>1 DEF AofInv, PriorsOver
<1>3. CommandsApart'
  BY <1>1 DEF AofInv, CommandsApart
<1>4. RecordsOrdered'
  BY <1>1 DEF AofInv, RecordsOrdered
<1> QED BY <1>2, <1>3, <1>4 DEF AofInv

LEMMA StopAof ==
  ASSUME TypeInv, AofInv, Stops, NEW n \in 0..Len(Records),
         Len(aof') >= n, \A i \in 1..n : aof'[i] = Records[i],
         \A i \in 1..Len(aof') : i > n => aof'[i] = Torn,
         \A m \in recorded' : \E i \in 1..Len(aof') : aof'[i] = m
  PROVE  AofInv'
<1>1. /\ cmds' = cmds /\ buf' = <<>> /\ over \subseteq over' /\ aof' \in Seq(Nat)
      /\ \A c \in Conn : conn'[c].pc = "idle"
  BY DEF Stops
<1>2. Number' = Number /\ Records' = aof'
  BY <1>1, ConcatEmptySeq DEF Number, Records
<1>3. PriorsOver'
  BY <1>1, <1>2 DEF AofInv, PriorsOver
<1>4. CommandsApart'
  BY <1>1 DEF CommandsApart
<1>5. \A i \in 1..Len(aof') : aof'[i] \in Number =>
        /\ cmds[aof'[i]].command.op # "expire"
        /\ \A j \in i..Len(aof') : aof'[j] \notin cmds[aof'[i]].prior
  BY <1>1, OrderFrom
<1>6. RecordsOrdered'
  BY <1>1, <1>2, <1>5 DEF RecordsOrdered
<1> QED BY <1>3, <1>4, <1>6 DEF AofInv

LEMMA RecordedInFile ==
  ASSUME AofInv PROVE \A m \in recorded : \E i \in 1..Len(aof) : aof[i] = m
  BY DEF AofInv, RecordsOrdered

LEMMA EndsAof ==
  ASSUME TypeInv, AofInv, Kill \/ Shutdown \/ PowerFailure
  PROVE  AofInv'
<1>0. Len(aof) \in Nat /\ Len(buf) \in Nat /\ Len(Records) = Len(aof) + Len(buf)
  BY TypeFacts, RecordsFacts
<1>1. CASE Kill
  <2>1. Stops /\ aof' = aof /\ recorded' = recorded
    BY <1>1, KillStops
  <2>2. Len(aof) \in 0..Len(Records) /\ Len(aof') >= Len(aof)
    BY <1>0, <2>1
  <2>3. \A i \in 1..Len(aof') : ~(i > Len(aof))
    BY <1>0, <2>1
  <2> QED BY <2>1, <2>2, <2>3, RecordsFacts, RecordedInFile, StopAof
<1>2. CASE Shutdown
  <2>1. Stops /\ aof' = Records /\ recorded' = recorded
    BY <1>2, ShutdownStops DEF Records
  <2>2. Len(Records) \in 0..Len(Records) /\ Len(aof') >= Len(Records)
    BY <1>0, <2>1
  <2>3. \A i \in 1..Len(aof') : ~(i > Len(Records))
    BY <1>0, <2>1
  <2>4. \A i \in 1..Len(aof) : i \in 1..Len(aof') /\ aof'[i] = aof[i]
    BY <1>0, <2>1, RecordsFacts
  <2>5. \A m \in recorded' : \E i \in 1..Len(aof') : aof'[i] = m
    BY <2>1, <2>4, RecordedInFile
  <2> QED BY <2>1, <2>2, <2>3, <2>5, StopAof
<1>3. CASE PowerFailure
  <2>1. Stops /\ recorded' \subseteq {aof'[i] : i \in 1..Len(aof')}
    BY <1>3, PowerFailureStops
  <2>2. PICK n \in 0..Len(aof) :
          /\ aof' \in Seq(Nat) /\ Len(aof') \in {n, n + 1}
          /\ \A i \in 1..n : aof'[i] = aof[i]
          /\ Len(aof') = n + 1 => aof'[n + 1] = Torn
    BY <1>3, Leftover
  <2>3. n \in 0..Len(Records) /\ Len(aof') >= n
    BY <1>0, <2>2
  <2>4. \A i \in 1..n : aof'[i] = Records[i]
    <3>1. \A i \in 1..n : i \in 1..Len(aof)
      BY <1>0
    <3> QED BY <2>2, <3>1, RecordsFacts
  <2>5. ASSUME NEW i \in 1..Len(aof'), i > n PROVE aof'[i] = Torn
    <3>1. i = n + 1 /\ Len(aof') = n + 1
      BY <1>0, <2>2, <2>5
    <3> QED BY <2>2, <3>1
  <2>6. \A m \in recorded' : \E i \in 1..Len(aof') : aof'[i] = m
    BY <2>1
  <2> QED BY <2>1, <2>3, <2>4, <2>5, <2>6, StopAof
<1> QED BY <1>1, <1>2, <1>3

LEMMA RecordsKnown ==
  ASSUME TypeInv PROVE \A i \in 1..Len(Records) : Records[i] \in Number \cup {Torn}
<1>1. Len(buf) \in 0..Len(buf)
  BY TypeFacts
<1> QED BY <1>1, FlushedRecords, WholeBuffer DEF Records

LEMMA ArrivesAof ==
  ASSUME TypeInv, AofInv, NEW c \in Conn, WriteArrives(c)
  PROVE  AofInv'
<1>1. PICK command \in WriteCommand(Len(cmds) + 1) :
        /\ conn' = [conn EXCEPT ![c] =
             IF command.op = "expire" THEN Idle ELSE [pc |-> "append", cmd |-> Len(cmds) + 1]]
        /\ cmds' = Append(cmds, [command |-> command, prior |-> over])
        /\ over' = IF command.op = "expire" THEN over \cup {Len(cmds) + 1} ELSE over
        /\ UNCHANGED <<buf, aof, recorded>>
  BY Arrives
<1>2. PICK n0 : n0 = Len(cmds) + 1
  OBVIOUS
<1>3. /\ Number' = Number \cup {n0} /\ n0 \notin Number /\ n0 # Torn /\ n0 \in Nat
      /\ \A n \in Number : cmds'[n] = cmds[n]
      /\ cmds'[n0].command = command /\ cmds'[n0].prior = over
  <2>1. Len(cmds) \in Nat
    BY TypeFacts
  <2>2. n0 # Torn /\ n0 \in Nat
    BY <1>2, <2>1 DEF Torn
  <2> QED BY <1>1, <1>2, <2>2, TypeFacts, CmdsGrow
<1>4. PICK r : r = IF command.op = "expire" THEN Idle ELSE [pc |-> "append", cmd |-> n0]
  OBVIOUS
<1>5. /\ r \in ConnType
      /\ r.pc # "idle" => r.pc = "append" /\ r.cmd = n0 /\ command.op # "expire" /\ over' = over
  BY <1>1, <1>2, <1>3, <1>4, IdleTyped DEF ConnType
<1>6. /\ conn'[c] = r
      /\ \A d \in Conn : d # c => conn'[d] = conn[d]
  BY <1>1, <1>2, <1>4, <1>5, TypeFacts, ConnMoves
<1>7. over \subseteq Number /\ over \subseteq over' /\ over' \subseteq over \cup {n0}
      /\ \A i \in 1..Len(buf) : buf[i] \in Number
  BY <1>1, <1>2, TypeFacts DEF TypeInv, NumbersKnown
<1>8. \A d \in Conn : conn[d].pc # "idle" => conn[d].cmd \in Number /\ conn[d].cmd # n0
  BY <1>3 DEF TypeInv, NumbersKnown
<1>9. Records' = Records
  BY <1>1 DEF Records
<1>10. PriorsOver'
  <2>1. ASSUME NEW n \in Number' PROVE cmds'[n].prior \subseteq over' /\ n \notin cmds'[n].prior
    <3>1. CASE n \in Number
      BY <1>3, <1>7, <3>1 DEF AofInv, PriorsOver
    <3>2. CASE n = n0
      BY <1>3, <1>7, <3>2
    <3> QED BY <1>3, <3>1, <3>2
  <2> QED BY <2>1 DEF PriorsOver
<1>11. CommandsApart'
  <2>1. ASSUME NEW d \in Conn, conn'[d].pc # "idle"
        PROVE  /\ cmds'[conn'[d].cmd].command.op # "expire"
               /\ \A e \in Conn \ {d} : conn'[e].pc # "idle" => conn'[d].cmd # conn'[e].cmd
    <3>1. CASE d = c
      BY <1>3, <1>5, <1>6, <1>8, <2>1, <3>1
    <3>2. CASE d # c
      <4>1. conn'[d] = conn[d] /\ cmds'[conn[d].cmd] = cmds[conn[d].cmd] /\ conn[d].cmd # n0
        BY <1>3, <1>6, <1>8, <2>1, <3>2
      <4> QED BY <1>5, <1>6, <2>1, <4>1 DEF AofInv, CommandsApart
    <3> QED BY <3>1, <3>2
  <2>2. ASSUME NEW d \in Conn, conn'[d].pc = "append"
        PROVE  conn'[d].cmd \notin over' /\ \A i \in 1..Len(buf) : buf[i] # conn'[d].cmd
    <3>1. CASE d = c
      BY <1>3, <1>5, <1>6, <1>7, <2>2, <3>1
    <3>2. CASE d # c
      BY <1>6, <1>7, <1>8, <2>2, <3>2 DEF AofInv, CommandsApart
    <3> QED BY <3>1, <3>2
  <2>3. ASSUME NEW d \in Conn, conn'[d].pc = "flush"
        PROVE  \/ conn'[d].cmd \in over'
               \/ \E i \in 1..Len(Records) : Records[i] = conn'[d].cmd
    BY <1>5, <1>6, <1>7, <2>3 DEF AofInv, CommandsApart
  <2> QED BY <1>1, <1>9, <2>1, <2>2, <2>3 DEF CommandsApart
<1>12. RecordsOrdered'
  <2>1. \A i \in 1..Len(Records) : Records[i] \in Number' =>
          Records[i] \in Number /\ cmds'[Records[i]] = cmds[Records[i]]
    BY <1>3, RecordsKnown
  <2> QED BY <1>1, <1>9, <2>1 DEF AofInv, RecordsOrdered
<1> QED BY <1>10, <1>11, <1>12 DEF AofInv

LEMMA BeforeNext ==
  \A p \in Nat : \A i \in 1..(p - 1) :
    i \in 1..p /\ \A j \in (i + 1)..p : j = p \/ j \in (i + 1)..(p - 1)
  OBVIOUS

LEMMA Between == \A n \in Nat : \A j, i \in 1..n : j <= i => i \in j..n
  OBVIOUS

LEMMA LastOrBefore == \A i, n \in Nat : \A j \in i..(n + 1) : j \in i..n \/ j = n + 1
  OBVIOUS

LEMMA AppendTo ==
  \A s \in Seq(Nat), m \in Nat :
    /\ Len(Append(s, m)) = Len(s) + 1
    /\ \A i \in 1..Len(s) : Append(s, m)[i] = s[i]
    /\ Append(s, m)[Len(s) + 1] = m
  BY AppendProperties

LEMMA AppendAof ==
  ASSUME TypeInv, AofInv, NEW c \in Conn, AofAppend(c)
  PROVE  AofInv'
<1>1. /\ conn[c].pc = "append" /\ buf' = Append(buf, conn[c].cmd)
      /\ conn' = [conn EXCEPT ![c].pc = "flush"]
      /\ UNCHANGED <<aof, cmds, recorded, over>>
  BY DEF AofAppend, disk, history
<1>2. PICK m : m = conn[c].cmd
  OBVIOUS
<1>3. /\ m \in Number /\ m \in Nat /\ m \notin over /\ cmds[m].command.op # "expire"
  BY <1>1, <1>2, TypeFacts DEF TypeInv, NumbersKnown, AofInv, CommandsApart
<1>4. /\ conn'[c].pc = "flush" /\ conn'[c].cmd = m
      /\ \A d \in Conn : d # c => conn'[d] = conn[d]
  BY <1>1, <1>2, TypeFacts DEF ConnType
<1>5. Number' = Number
  BY <1>1 DEF Number
<1>6. /\ buf \in Seq(Nat) /\ aof \in Seq(Nat) /\ Records \in Seq(Nat) /\ Len(Records) \in Nat
      /\ Len(Records) = Len(aof) + Len(buf)
  BY TypeFacts, RecordsFacts
<1>7. Records' = Append(Records, m)
  <2>0. <<m>> \in Seq(Nat) /\ buf' = Append(buf, m)
    BY <1>1, <1>2, <1>3
  <2>1. buf' = buf \o <<m>> /\ Append(Records, m) = Records \o <<m>>
    BY <1>3, <1>6, <2>0, AppendIsConcat
  <2>2. aof \o (buf \o <<m>>) = (aof \o buf) \o <<m>>
    BY <1>6, <2>0, ConcatAssociative, SMTT(30)
  <2> QED BY <1>1, <2>1, <2>2 DEF Records
<1>8. /\ Len(Records') = Len(Records) + 1
      /\ \A i \in 1..Len(Records) : i \in 1..Len(Records') /\ Records'[i] = Records[i]
      /\ Records'[Len(Records) + 1] = m
  <2>1. /\ Len(Records') = Len(Records) + 1
        /\ \A i \in 1..Len(Records) : Records'[i] = Records[i]
        /\ Records'[Len(Records) + 1] = m
    <3>1. PICK q : q = Append(Records, m)
      OBVIOUS
    <3>2. /\ Len(q) = Len(Records) + 1
          /\ \A i \in 1..Len(Records) : q[i] = Records[i]
          /\ q[Len(Records) + 1] = m
      <4>1. Records \in Seq(Nat) /\ m \in Nat
        BY <1>3, <1>6
      <4> QED BY <3>1, <4>1, AppendTo
    <3>3. Records' = q
      BY <1>7, <3>1
    <3> QED BY <3>2, <3>3
  <2> QED BY <1>6, <2>1
<1>9. /\ Len(buf) \in Nat /\ Len(buf') = Len(buf) + 1
      /\ \A i \in 1..Len(buf) : buf'[i] = buf[i]
      /\ buf'[Len(buf) + 1] = m
  BY <1>1, <1>2, <1>3, <1>6, AppendProperties
<1>10. PriorsOver'
  BY <1>1, <1>5 DEF AofInv, PriorsOver
<1>11. CommandsApart'
  <2>1. ASSUME NEW d \in Conn, conn'[d].pc # "idle"
        PROVE  /\ cmds[conn'[d].cmd].command.op # "expire"
               /\ \A e \in Conn \ {d} : conn'[e].pc # "idle" => conn'[d].cmd # conn'[e].cmd
    <3>1. \A e \in Conn : conn'[e].cmd = conn[e].cmd /\ (conn'[e].pc # "idle" => conn[e].pc # "idle")
      BY <1>1, <1>2, <1>4
    <3> QED BY <2>1, <3>1 DEF AofInv, CommandsApart
  <2>2. ASSUME NEW d \in Conn, conn'[d].pc = "append"
        PROVE  conn'[d].cmd \notin over /\ \A i \in 1..Len(buf') : buf'[i] # conn'[d].cmd
    <3>1. d # c /\ conn'[d] = conn[d]
      BY <1>4, <2>2
    <3>2. conn[d].cmd # m
      BY <1>1, <1>2, <2>2, <3>1 DEF AofInv, CommandsApart
    <3>3. conn[d].cmd \notin over /\ \A i \in 1..Len(buf) : buf[i] # conn[d].cmd
      BY <2>2, <3>1 DEF AofInv, CommandsApart
    <3>4. ASSUME NEW i \in 1..Len(buf') PROVE buf'[i] # conn[d].cmd
      <4>1. i \in 1..Len(buf) \/ i = Len(buf) + 1
        BY <1>9
      <4> QED BY <1>9, <3>2, <3>3, <4>1
    <3> QED BY <3>1, <3>3, <3>4
  <2>3. ASSUME NEW d \in Conn, conn'[d].pc = "flush"
        PROVE  \/ conn'[d].cmd \in over
               \/ \E i \in 1..Len(Records') : Records'[i] = conn'[d].cmd
    <3>1. CASE d = c
      <4>1. Len(Records) + 1 \in 1..Len(Records')
        BY <1>6, <1>8
      <4> QED BY <1>4, <1>8, <3>1, <4>1
    <3>2. CASE d # c
      <4>1. \/ conn[d].cmd \in over
            \/ \E i \in 1..Len(Records) : Records[i] = conn[d].cmd
        BY <1>4, <2>3, <3>2 DEF AofInv, CommandsApart
      <4> QED BY <1>4, <1>8, <3>2, <4>1
    <3> QED BY <3>1, <3>2
  <2> QED BY <1>1, <2>1, <2>2, <2>3 DEF CommandsApart
<1>12. RecordsOrdered'
  <2>1. ASSUME NEW i \in 1..Len(Records'), Records'[i] \in Number
        PROVE  /\ cmds[Records'[i]].command.op # "expire"
               /\ \A j \in i..Len(Records') : Records'[j] \notin cmds[Records'[i]].prior
    <3>1. CASE i \in 1..Len(Records)
      <4>1. Records'[i] = Records[i]
        BY <1>8, <3>1
      <4>2. ASSUME NEW j \in i..Len(Records') PROVE Records'[j] \notin cmds[Records[i]].prior
        <5>1. j \in i..Len(Records) \/ j = Len(Records) + 1
          <6>1. j \in i..(Len(Records) + 1) /\ i \in Nat
            BY <1>6, <1>8, <3>1
          <6> QED BY <1>6, <6>1, LastOrBefore
        <5>2. CASE j \in i..Len(Records)
          <6>1. j \in 1..Len(Records)
            BY <1>6, <3>1, <5>2
          <6> QED BY <1>8, <2>1, <3>1, <4>1, <5>2, <6>1 DEF AofInv, RecordsOrdered
        <5>3. CASE j = Len(Records) + 1
          BY <1>3, <1>8, <2>1, <4>1, <5>3 DEF AofInv, PriorsOver
        <5> QED BY <5>1, <5>2, <5>3
      <4> QED BY <2>1, <3>1, <4>1, <4>2 DEF AofInv, RecordsOrdered
    <3>2. CASE i = Len(Records) + 1
      <4>1. Records'[i] = m /\ \A j \in i..Len(Records') : j = i
        BY <1>6, <1>8, <3>2
      <4> QED BY <1>3, <4>1 DEF AofInv, PriorsOver
    <3> QED BY <1>6, <1>8, <3>1, <3>2
  <2> QED BY <1>1, <1>5, <2>1 DEF AofInv, RecordsOrdered
<1> QED BY <1>10, <1>11, <1>12 DEF AofInv

\* Whatever becomes of a flush: the buffer is empty, the connection idle, and
\* every other connection's command is where it has to be.
LEMMA FlushAofKept ==
  ASSUME TypeInv, AofInv, NEW c \in Conn, conn[c].pc = "flush", conn' = [conn EXCEPT ![c] = Idle],
         buf' = <<>>, aof' \in Seq(Nat), cmds' = cmds, over \subseteq over',
         \A d \in Conn : d # c /\ conn[d].pc = "append" => conn[d].cmd \notin over',
         \A i \in 1..Len(Records) : Records[i] \in over' \/ \E j \in 1..Len(aof') : aof'[j] = Records[i],
         \A i \in 1..Len(aof') : aof'[i] \in Number =>
           /\ cmds[aof'[i]].command.op # "expire"
           /\ \A j \in i..Len(aof') : aof'[j] \notin cmds[aof'[i]].prior,
         \A m \in recorded' : \E i \in 1..Len(aof') : aof'[i] = m
  PROVE  AofInv'
<1>1. Number' = Number /\ Records' = aof'
  BY ConcatEmptySeq DEF Number, Records
<1>2. conn'[c] = Idle /\ \A d \in Conn : d # c => conn'[d] = conn[d]
  BY TypeFacts
<1>3. PriorsOver'
  BY <1>1 DEF AofInv, PriorsOver
<1>4. CommandsApart'
  <2>1. ASSUME NEW d \in Conn, conn'[d].pc # "idle" PROVE d # c /\ conn'[d] = conn[d]
    BY <1>2, <2>1, IdleTyped
  <2>2. ASSUME NEW d \in Conn, conn'[d].pc # "idle"
        PROVE  /\ cmds[conn'[d].cmd].command.op # "expire"
               /\ \A e \in Conn \ {d} : conn'[e].pc # "idle" => conn'[d].cmd # conn'[e].cmd
    BY <2>1, <2>2 DEF AofInv, CommandsApart
  <2>3. ASSUME NEW d \in Conn, conn'[d].pc = "append"
        PROVE  conn'[d].cmd \notin over' /\ \A i \in 1..Len(buf') : buf'[i] # conn'[d].cmd
    BY <2>1, <2>3, EmptyBuffer
  <2>4. ASSUME NEW d \in Conn, conn'[d].pc = "flush"
        PROVE  \/ conn'[d].cmd \in over'
               \/ \E i \in 1..Len(aof') : aof'[i] = conn'[d].cmd
    <3>1. \/ conn[d].cmd \in over
          \/ \E i \in 1..Len(Records) : Records[i] = conn[d].cmd
      BY <2>1, <2>4 DEF AofInv, CommandsApart
    <3> QED BY <2>1, <2>4, <3>1
  <2> QED BY <1>1, <2>2, <2>3, <2>4 DEF CommandsApart
<1>5. RecordsOrdered'
  BY <1>1 DEF RecordsOrdered
<1> QED BY <1>3, <1>4, <1>5 DEF AofInv

LEMMA FlushAof ==
  ASSUME TypeInv, AofInv, NEW c \in Conn, AofFlush(c)
  PROVE  AofInv'
<1>1. /\ conn[c].pc = "flush" /\ aof' = Records /\ buf' = <<>>
      /\ conn' = [conn EXCEPT ![c] = Idle]
      /\ recorded' = recorded \cup ({conn[c].cmd} \ over) /\ over' = over \cup {conn[c].cmd}
      /\ cmds' = cmds
  BY DEF AofFlush, Records
<1>2. \A d \in Conn : d # c /\ conn[d].pc = "append" => conn[d].cmd \notin over'
  BY <1>1 DEF AofInv, CommandsApart
<1>3. \A m \in recorded' : \E i \in 1..Len(aof') : aof'[i] = m
  <2>1. ASSUME NEW m \in recorded PROVE \E i \in 1..Len(aof') : aof'[i] = m
    <3>1. PICK i \in 1..Len(aof) : aof[i] = m
      BY RecordedInFile
    <3>2. i \in 1..Len(Records) /\ Records[i] = aof[i]
      BY TypeFacts, RecordsFacts
    <3> QED BY <1>1, <3>1, <3>2
  <2>2. conn[c].cmd \notin over => \E i \in 1..Len(aof') : aof'[i] = conn[c].cmd
    BY <1>1 DEF AofInv, CommandsApart
  <2> QED BY <1>1, <2>1, <2>2
<1>4. \A i \in 1..Len(aof') : aof'[i] \in Number =>
        /\ cmds[aof'[i]].command.op # "expire"
        /\ \A j \in i..Len(aof') : aof'[j] \notin cmds[aof'[i]].prior
  BY <1>1 DEF AofInv, RecordsOrdered
<1>5. aof' \in Seq(Nat)
  BY <1>1, RecordsFacts
<1> QED BY <1>1, <1>2, <1>3, <1>4, <1>5, FlushAofKept

LEMMA FlushFailsAof ==
  ASSUME TypeInv, AofInv, NEW c \in Conn, AofFlushFails(c)
  PROVE  AofInv'
<1>1. /\ conn[c].pc = "flush" /\ buf' = <<>> /\ conn' = [conn EXCEPT ![c] = Idle]
      /\ over' = over \cup {buf[i] : i \in 1..Len(buf)} \cup {conn[c].cmd}
      /\ UNCHANGED <<cmds, recorded>>
  BY Fails
<1>2. PICK n \in 0..Len(buf) : aof' = Append(aof \o SubSeq(buf, 1, n), Torn)
  BY Fails
<1>3. PICK flushed : flushed = aof \o SubSeq(buf, 1, n)
  OBVIOUS
<1>4. /\ flushed \in Seq(Nat) /\ Len(flushed) = Len(aof) + n
      /\ \A i \in 1..Len(aof) : flushed[i] = aof[i]
      /\ \A i \in 1..n : flushed[Len(aof) + i] = buf[i]
  BY <1>3, FlushedRecords
<1>5. n \in Nat /\ n <= Len(buf) /\ Len(buf) \in Nat /\ Len(aof) \in Nat /\ Torn \in Nat
      /\ Len(Records) = Len(aof) + Len(buf)
  BY TypeFacts, RecordsFacts DEF Torn
<1>6. /\ aof' \in Seq(Nat) /\ Len(aof') = Len(aof) + n + 1
      /\ \A i \in 1..(Len(aof) + n) : aof'[i] = flushed[i]
      /\ aof'[Len(aof) + n + 1] = Torn
  BY <1>2, <1>3, <1>4, <1>5, AppendProperties
<1>7. \A i \in 1..Len(aof) : i \in 1..Len(aof') /\ aof'[i] = aof[i]
  BY <1>4, <1>5, <1>6
<1>8. ASSUME NEW i \in 1..(Len(aof) + n) PROVE aof'[i] = Records[i]
  <2>1. CASE i <= Len(aof)
    <3>1. i \in 1..Len(aof)
      BY <1>5, <2>1
    <3> QED BY <1>7, <3>1, RecordsFacts
  <2>2. CASE ~(i <= Len(aof))
    <3>1. i - Len(aof) \in 1..n /\ i - Len(aof) \in 1..Len(buf) /\ i = Len(aof) + (i - Len(aof))
      BY <1>5, <2>2
    <3>2. flushed[i] = buf[i - Len(aof)] /\ Records[i] = buf[i - Len(aof)]
      BY <1>4, <3>1, RecordsFacts
    <3> QED BY <1>6, <3>2
  <2> QED BY <2>1, <2>2
<1>9. \A i \in 1..Len(aof') : aof'[i] \in Number =>
        /\ cmds[aof'[i]].command.op # "expire"
        /\ \A j \in i..Len(aof') : aof'[j] \notin cmds[aof'[i]].prior
  <2>1. Len(aof) + n \in 0..Len(Records) /\ Len(aof') >= Len(aof) + n
    BY <1>5, <1>6
  <2>2. \A i \in 1..Len(aof') : i > Len(aof) + n => aof'[i] = Torn
    BY <1>5, <1>6
  <2> QED BY <1>6, <1>8, <2>1, <2>2, OrderFrom
<1>10. \A i \in 1..Len(Records) : Records[i] \in over' \/ \E j \in 1..Len(aof') : aof'[j] = Records[i]
  <2> TAKE i \in 1..Len(Records)
  <2>1. CASE i <= Len(aof)
    <3>1. i \in 1..Len(aof) /\ Records[i] = aof[i]
      BY <1>5, <2>1, RecordsFacts
    <3> QED BY <1>7, <3>1
  <2>2. CASE ~(i <= Len(aof))
    <3>1. i - Len(aof) \in 1..Len(buf) /\ i = Len(aof) + (i - Len(aof))
      BY <1>5, <2>2
    <3>2. Records[i] = buf[i - Len(aof)]
      BY <3>1, RecordsFacts
    <3> QED BY <1>1, <3>1, <3>2
  <2> QED BY <2>1, <2>2
<1>11. \A d \in Conn : d # c /\ conn[d].pc = "append" => conn[d].cmd \notin over'
  BY <1>1 DEF AofInv, CommandsApart
<1>12. \A m \in recorded' : \E i \in 1..Len(aof') : aof'[i] = m
  BY <1>1, <1>7, RecordedInFile
<1> QED BY <1>1, <1>6, <1>9, <1>10, <1>11, <1>12, FlushAofKept

LEMMA AofInit ==
  ASSUME Init PROVE AofInv
<1>1. /\ cmds = <<>> /\ recorded = {} /\ over = {}
      /\ conn = [c \in Conn |-> Idle] /\ buf = <<>> /\ aof = <<>>
  BY DEF Init
<1>2. Number = {}
  BY <1>1 DEF Number
<1>3. PriorsOver /\ RecordsOrdered
  BY <1>1, <1>2 DEF PriorsOver, RecordsOrdered
<1>4. CommandsApart
  BY <1>1, IdleTyped DEF CommandsApart
<1> QED BY <1>3, <1>4 DEF AofInv

LEMMA AofStep ==
  ASSUME TypeInv, AofInv, [Next]_vars
  PROVE  AofInv'
<1>1. CASE \E c \in Conn : ConnStep(c)
  BY <1>1, ArrivesAof, AppendAof, FlushAof, FlushFailsAof DEF ConnStep
<1>2. CASE \E s \in Saver : SaveStep(s)
  <2>1. UNCHANGED <<conn, buf, aof, cmds, recorded, over>>
    BY <1>2, SaveMoves DEF SaverMoves
  <2> QED BY <2>1, AofSame
<1>3. CASE Kill \/ Shutdown \/ PowerFailure
  BY <1>3, EndsAof
<1>4. CASE Boot \/ ReplayCommand \/ ReplayEnds \/ Tick \/ UNCHANGED vars
  <2>1. UNCHANGED <<conn, buf, aof, cmds, recorded, over>>
    BY <1>4 DEF Boot, ReplayCommand, ReplayEnds, Tick, vars, server, disk, history
  <2> QED BY <2>1, AofSame
<1> QED BY <1>1, <1>2, <1>3, <1>4 DEF Next

(***************************************************************************)
(* Where the entries come from.                                            *)
(***************************************************************************)
LEMMA OriginAbsent == \A C, k : OriginIn(C, k, Absent)
  BY DEF OriginIn, Absent

LEMMA OriginGrows ==
  ASSUME NEW C, NEW D, Len(C) \in Nat, Len(D) \in Nat, Len(C) <= Len(D),
         \A n \in 1..Len(C) : D[n] = C[n],
         NEW k, NEW e, OriginIn(C, k, e)
  PROVE  OriginIn(D, k, e)
<1>1. \A n \in 1..Len(C) : n \in 1..Len(D) /\ D[n] = C[n]
  OBVIOUS
<1> QED BY <1>1 DEF OriginIn

LEMMA OriginApplied ==
  ASSUME NEW C, NEW n \in 1..Len(C), NEW c \in CommandType, c = C[n].command, c.id = n,
         c.op \in {"set", "expire"} => \E k \in Key : c.keys = {k},
         c.op = "set" => c.opt = "none",
         NEW t \in [Key -> Entry], NEW time \in Nat \ {0}, NEW k \in Key, OriginIn(C, k, t[k])
  PROVE  OriginIn(C, k, ApplyLogEntry(t, c, time)[k])
<1>1. PICK e : e = ApplyLogEntry(t, c, time)[k]
  OBVIOUS
<1>2. CASE k \notin c.keys
  <2>1. e = t[k]
    BY <1>1, <1>2, ApplyIs
  <2> QED BY <1>1, <2>1
<1>3. CASE k \in c.keys
  <2>1. /\ c.op = "set" /\ c.opt = "none" => e.val = c.id
        /\ c.op = "del" => e.val = -1 /\ e.exp = 0
        /\ c.op = "expire" => e.val = t[k].val
        /\ e.exp # 0 => c.ttl # NoTtl \/ t[k].exp # 0
    BY <1>1, <1>3, ApplyIs
  <2>2. c.op \in {"set", "del", "expire"}
    BY DEF CommandType
  <2>3. e.val # -1 => /\ e.val \in 1..Len(C) /\ k \in C[e.val].command.keys
                      /\ C[e.val].command.op = "set"
    BY <1>3, <2>1, <2>2 DEF OriginIn
  <2>4. e.exp # 0 => \E m \in 1..Len(C) : k \in C[m].command.keys /\ C[m].command.ttl # NoTtl
    BY <1>3, <2>1 DEF OriginIn
  <2> QED BY <1>1, <2>3, <2>4 DEF OriginIn
<1> QED BY <1>2, <1>3

LEMMA SaveOrigins ==
  ASSUME Origins, NEW s \in Saver, SaverMoves(s)
  PROVE  Origins'
<1>1. UNCHANGED <<db, cmds>>
  BY DEF SaverMoves
<1>2. Origin(db)'
  BY <1>1 DEF Origins, Origin
<1>3. ASSUME NEW k \in Key PROVE OriginIn(cmds, k, file'.data[k])
  <2>1. file'.data[k] \in {Absent, file.data[k], saver[s].data[k]}
    BY DEF SaverMoves
  <2>2. OriginIn(cmds, k, file.data[k]) /\ OriginIn(cmds, k, saver[s].data[k])
    BY DEF Origins, Origin
  <2> QED BY <2>1, <2>2, OriginAbsent
<1>4. ASSUME NEW u \in Saver, NEW k \in Key PROVE OriginIn(cmds, k, saver'[u].data[k])
  <2>1. saver'[u].data[k] \in {Absent, saver[u].data[k], db[k]}
    BY DEF SaverMoves
  <2>2. OriginIn(cmds, k, saver[u].data[k]) /\ OriginIn(cmds, k, db[k])
    BY DEF Origins, Origin
  <2> QED BY <2>1, <2>2, OriginAbsent
<1>5. Origin(file.data)' /\ \A u \in Saver : Origin(saver[u].data)'
  BY <1>1, <1>3, <1>4 DEF Origin
<1> QED BY <1>2, <1>5 DEF Origins

\* The files and the exports stay; the shards may get other entries.
LEMMA DbOrigins ==
  ASSUME Origins, UNCHANGED <<cmds, file, saver>>, \A k \in Key : OriginIn(cmds, k, db'[k])
  PROVE  Origins'
  BY DEF Origins, Origin

LEMMA StopOrigins ==
  ASSUME Origins, Stops
  PROVE  Origins'
<1>1. /\ cmds' = cmds /\ db' = EmptyTable /\ file' \in {file, NoFile}
      /\ \A s \in Saver : saver'[s].data = EmptyTable
  BY DEF Stops
<1>2. \A k \in Key : OriginIn(cmds, k, EmptyTable[k])
  BY OriginAbsent, EmptyTyped
<1>3. \A k \in Key : OriginIn(cmds, k, file'.data[k])
  BY <1>1, <1>2, NoFileTyped DEF Origins, Origin
<1> QED BY <1>1, <1>2, <1>3 DEF Origins, Origin

LEMMA BootOrigins ==
  ASSUME TypeInv, Origins, Boot
  PROVE  Origins'
<1>1. db' = Loaded /\ UNCHANGED <<cmds, file, saver>>
  BY DEF Boot, Loaded, disk, history
<1>2. ASSUME NEW k \in Key PROVE OriginIn(cmds, k, db'[k])
  <2>1. db'[k] \in {Absent, file.data[k]}
    BY <1>1, LoadedTyped
  <2> QED BY <2>1, OriginAbsent DEF Origins, Origin
<1> QED BY <1>1, <1>2, DbOrigins

\* Every SET is a plain one, without NX or XX.
Plain == Options \subseteq {"none"}

LEMMA ReplayOrigins ==
  ASSUME TypeInv, Origins, Plain, ReplayCommand
  PROVE  Origins'
<1>1. /\ db' = ApplyLogEntry(db, cmds[aof[pos]].command, now)
      /\ UNCHANGED <<cmds, file, saver>>
  BY DEF ReplayCommand, disk, history
<1>2. PICK n, c : n = aof[pos] /\ c = cmds[n].command
  OBVIOUS
<1>3. /\ n \in Number /\ c \in CommandType /\ c.id = n
      /\ c.op = "set" => c.opt = "none"
      /\ c.op \in {"set", "expire"} => \E k \in Key : c.keys = {k}
  BY <1>2, PosInFile, RecordIsCommand DEF Plain
<1>4. db \in [Key -> Entry] /\ now \in Nat \ {0} /\ n \in 1..Len(cmds)
  BY <1>3, TypeFacts DEF TableTyped
<1>5. db' = ApplyLogEntry(db, c, now)
  BY <1>1, <1>2
<1>6. ASSUME NEW k \in Key PROVE OriginIn(cmds, k, db'[k])
  <2>1. OriginIn(cmds, k, db[k])
    BY DEF Origins, Origin
  <2> QED BY <1>2, <1>3, <1>4, <1>5, <2>1, OriginApplied
<1> QED BY <1>1, <1>6, DbOrigins

LEMMA ArrivesOrigins ==
  ASSUME TypeInv, Origins, Plain, NEW c \in Conn, WriteArrives(c)
  PROVE  Origins'
<1>1. PICK command \in WriteCommand(Len(cmds) + 1) :
        /\ db' = ApplyLogEntry(db, command, now)
        /\ cmds' = Append(cmds, [command |-> command, prior |-> over])
        /\ UNCHANGED <<saver, file>>
  BY Arrives
<1>2. PICK n : n = Len(cmds) + 1
  OBVIOUS
<1>3. /\ Len(cmds) \in Nat /\ Len(cmds') = n
      /\ \A i \in 1..Len(cmds) : cmds'[i] = cmds[i]
      /\ cmds'[n].command = command
  BY <1>1, <1>2, TypeFacts, CmdsGrow
<1>4. /\ n \in Nat /\ n \in 1..Len(cmds') /\ Len(cmds) <= Len(cmds') /\ Len(cmds') \in Nat
  BY <1>2, <1>3
<1>5. /\ command \in CommandType /\ command.id = n
      /\ command.op = "set" => command.opt = "none"
      /\ command.op \in {"set", "expire"} => \E k \in Key : command.keys = {k}
  <2>1. command \in WriteCommand(n)
    BY <1>2
  <2>2. n \in Nat
    BY <1>4
  <2>3. /\ command \in CommandType /\ command.id = n
        /\ command.op = "set" => command.opt \in Options
        /\ command.op \in {"set", "expire"} => \E k \in Key : command.keys = {k}
    BY <2>1, <2>2, CommandShapes
  <2> QED BY <2>3 DEF Plain
<1>6. db \in [Key -> Entry] /\ now \in Nat \ {0}
  BY TypeFacts DEF TableTyped
<1>7. \A k, e : OriginIn(cmds, k, e) => OriginIn(cmds', k, e)
  BY <1>3, <1>4, OriginGrows
<1>8. \A k \in Key : OriginIn(cmds', k, db[k])
  BY <1>7 DEF Origins, Origin
<1>9. \A k \in Key : OriginIn(cmds', k, db'[k])
  BY <1>1, <1>3, <1>4, <1>5, <1>6, <1>8, OriginApplied
<1>10. Origin(file.data)' /\ \A s \in Saver : Origin(saver[s].data)'
  BY <1>1, <1>7 DEF Origins, Origin
<1> QED BY <1>9, <1>10 DEF Origins, Origin

LEMMA OriginsStep ==
  ASSUME TypeInv, Origins, Plain, [Next]_vars
  PROVE  Origins'
<1>1. CASE \E c \in Conn : WriteArrives(c)
  BY <1>1, ArrivesOrigins
<1>2. CASE \E s \in Saver : SaveStep(s)
  BY <1>2, SaveMoves, SaveOrigins
<1>3. CASE Kill \/ Shutdown \/ PowerFailure
  BY <1>3, KillStops, ShutdownStops, PowerFailureStops, StopOrigins
<1>4. CASE UNCHANGED <<db, cmds, file, saver>>
  BY <1>4 DEF Origins, Origin
<1>5. CASE \E c \in Conn : AofAppend(c) \/ AofFlush(c) \/ AofFlushFails(c)
  BY <1>4, <1>5 DEF AofAppend, AofFlush, AofFlushFails, disk, history
<1>6. CASE ReplayEnds \/ Tick \/ UNCHANGED vars
  BY <1>4, <1>6 DEF ReplayEnds, Tick, vars, server, disk, history
<1> QED BY <1>1, <1>2, <1>3, <1>5, <1>6, BootOrigins, ReplayOrigins DEF Next, ConnStep

(***************************************************************************)
(* What the shards hold.                                                   *)
(***************************************************************************)
LEMMA LiveShrinks ==
  ASSUME UNCHANGED <<cmds, db>>, Pending' \subseteq Pending, NEW k \in Key, Live(k)
  PROVE  Live(k)'
<1>1. On(k)' = On(k) /\ \A n : ValueOf(n)' = ValueOf(n)
  BY DEF On, Number, ValueOf
<1>2. CASE \E n \in On(k) :
             /\ cmds[n].command.op # "expire" /\ db[k].val = ValueOf(n)
             /\ \A m \in On(k) \cap Pending : n \notin cmds[m].prior
  <2>1. PICK n \in On(k) :
          /\ cmds[n].command.op # "expire" /\ db[k].val = ValueOf(n)
          /\ \A m \in On(k) \cap Pending : n \notin cmds[m].prior
    BY <1>2
  <2>2. ValueOf(n)' = ValueOf(n)
    BY DEF ValueOf
  <2>3. \A m \in On(k)' \cap Pending' : n \notin cmds'[m].prior
    BY <1>1, <2>1
  <2> QED BY <1>1, <2>1, <2>2, <2>3 DEF Live
<1>3. CASE db[k].val = -1 /\ On(k) \cap Pending = {}
  BY <1>1, <1>3 DEF Live
<1> QED BY <1>2, <1>3 DEF Live

LEMMA ValuesSame ==
  ASSUME Values, UNCHANGED <<mode, db, aof, pos, cmds, recorded, conn>>
  PROVE  Values'
<1>1. Pending' = Pending /\ (Readable' <=> Readable)
  BY DEF Pending, Busy, Readable
<1>2. (mode' = "up" /\ Readable') => \A k \in Key : Live(k)'
  BY <1>1, LiveShrinks DEF Values
<1>3. ASSUME mode' = "replay", NEW k \in Key PROVE ReplayedTo(k)'
  <2>1. On(k)' = On(k)
    BY DEF On, Number
  <2>2. ReplayedTo(k)
    BY <1>3 DEF Values
  <2> QED BY <2>1, <2>2 DEF ReplayedTo, ValueOf
<1> QED BY <1>2, <1>3 DEF Values

\* A step of RecordCommand: what is recorded was busy, the file only grows.
LEMMA RecordValues ==
  ASSUME TypeInv, Values, NEW c \in Conn, conn[c].pc # "idle", UNCHANGED <<mode, db, cmds>>,
         conn' \in [Conn -> ConnType], \A d \in Conn : d # c => conn'[d] = conn[d],
         conn'[c].pc # "idle" => conn'[c].cmd = conn[c].cmd,
         recorded' \subseteq recorded \cup {conn[c].cmd},
         Len(aof') \in Nat, Len(aof) <= Len(aof'), \A i \in 1..Len(aof) : aof'[i] = aof[i]
  PROVE  Values'
<1>1. mode = "up" /\ mode' = "up"
  BY DEF TypeInv, ServesOnlyUp
<1>2. Pending' \subseteq Pending
  <2>1. conn[c].cmd \in Busy
    BY DEF Busy
  <2>2. Busy' \subseteq Busy
    BY DEF Busy
  <2> QED BY <2>1, <2>2 DEF Pending
<1>3. Readable' => Readable
  <2>1. Len(aof) \in Nat
    BY TypeFacts
  <2>2. \A i \in 1..(Len(aof) - 1) : i \in 1..(Len(aof') - 1) /\ i \in 1..Len(aof)
    BY <2>1
  <2> QED BY <2>2 DEF Readable
<1>4. Readable' => \A k \in Key : Live(k)'
  BY <1>1, <1>2, <1>3, LiveShrinks DEF Values
<1> QED BY <1>1, <1>4 DEF Values

LEMMA ConnValues ==
  ASSUME TypeInv, Values, NEW c \in Conn, AofAppend(c) \/ AofFlush(c) \/ AofFlushFails(c)
  PROVE  Values'
<1>0. Len(aof) \in Nat /\ Len(buf) \in Nat /\ conn \in [Conn -> ConnType]
  BY TypeFacts
<1>1. CASE AofAppend(c)
  <2>1. /\ conn[c].pc = "append" /\ conn' = [conn EXCEPT ![c].pc = "flush"]
        /\ UNCHANGED <<mode, db, cmds, aof, recorded>>
    BY <1>1 DEF AofAppend, disk, history
  <2>2. /\ conn' \in [Conn -> ConnType] /\ conn'[c].cmd = conn[c].cmd
        /\ \A d \in Conn : d # c => conn'[d] = conn[d]
    BY <1>0, <2>1 DEF ConnType
  <2> QED BY <1>0, <2>1, <2>2, RecordValues
<1>2. CASE AofFlush(c)
  <2>1. /\ conn[c].pc = "flush" /\ conn' = [conn EXCEPT ![c] = Idle] /\ aof' = Records
        /\ recorded' \subseteq recorded \cup {conn[c].cmd} /\ UNCHANGED <<mode, db, cmds>>
    BY <1>2 DEF AofFlush, Records
  <2>2. /\ conn' \in [Conn -> ConnType] /\ conn'[c].pc = "idle"
        /\ \A d \in Conn : d # c => conn'[d] = conn[d]
    BY <1>0, <2>1, IdleTyped
  <2>3. Len(aof') \in Nat /\ Len(aof) <= Len(aof') /\ \A i \in 1..Len(aof) : aof'[i] = aof[i]
    BY <1>0, <2>1, RecordsFacts
  <2> QED BY <2>1, <2>2, <2>3, RecordValues
<1>3. CASE AofFlushFails(c)
  <2>1. /\ conn[c].pc = "flush" /\ conn' = [conn EXCEPT ![c] = Idle]
        /\ UNCHANGED <<mode, db, cmds, recorded>>
    BY <1>3, Fails
  <2>2. /\ conn' \in [Conn -> ConnType] /\ conn'[c].pc = "idle"
        /\ \A d \in Conn : d # c => conn'[d] = conn[d]
    BY <1>0, <2>1, IdleTyped
  <2>3. PICK n \in 0..Len(buf) : aof' = Append(aof \o SubSeq(buf, 1, n), Torn)
    BY <1>3, Fails
  <2>4. PICK flushed : flushed = aof \o SubSeq(buf, 1, n)
    OBVIOUS
  <2>5. /\ flushed \in Seq(Nat) /\ Len(flushed) = Len(aof) + n
        /\ \A i \in 1..Len(aof) : flushed[i] = aof[i]
    BY <2>4, FlushedRecords
  <2>6. Torn \in Nat /\ n \in Nat
    BY <1>0 DEF Torn
  <2>7. /\ Len(aof') = Len(flushed) + 1
        /\ \A i \in 1..Len(flushed) : aof'[i] = flushed[i]
    BY <2>3, <2>4, <2>5, <2>6, AppendTo
  <2>8. Len(aof') \in Nat /\ Len(aof) <= Len(aof') /\ \A i \in 1..Len(aof) : aof'[i] = aof[i]
    BY <1>0, <2>5, <2>6, <2>7
  <2> QED BY <2>1, <2>2, <2>8, RecordValues
<1> QED BY <1>1, <1>2, <1>3

LEMMA ArrivesValues ==
  ASSUME TypeInv, AofInv, Values, Plain, NEW c \in Conn, WriteArrives(c)
  PROVE  Values'
<1>1. PICK command \in WriteCommand(Len(cmds) + 1) :
        /\ db' = ApplyLogEntry(db, command, now)
        /\ mode = "up"
        /\ conn' = [conn EXCEPT ![c] =
             IF command.op = "expire" THEN Idle ELSE [pc |-> "append", cmd |-> Len(cmds) + 1]]
        /\ cmds' = Append(cmds, [command |-> command, prior |-> over])
        /\ UNCHANGED <<mode, aof, recorded>>
  BY Arrives
<1>2. PICK n0 : n0 = Len(cmds) + 1
  OBVIOUS
<1>3. /\ Number' = Number \cup {n0} /\ n0 \notin Number /\ n0 \in Nat
      /\ \A n \in Number : cmds'[n] = cmds[n]
      /\ cmds'[n0].command = command /\ cmds'[n0].prior = over /\ over \subseteq Number
  <2>1. n0 \in Nat
    BY <1>2, TypeFacts
  <2> QED BY <1>1, <1>2, <2>1, TypeFacts, CmdsGrow
<1>4. /\ command \in CommandType /\ command.id = n0
      /\ command.op = "set" => command.opt = "none"
      /\ command.op \in {"set", "expire"} => \E k \in Key : command.keys = {k}
  <2>1. command \in WriteCommand(n0)
    BY <1>2
  <2>2. n0 \in Nat
    BY <1>3
  <2>3. /\ command \in CommandType /\ command.id = n0
        /\ command.op = "set" => command.opt \in Options
        /\ command.op \in {"set", "expire"} => \E k \in Key : command.keys = {k}
    BY <2>1, <2>2, CommandShapes
  <2> QED BY <2>3 DEF Plain
<1>5. db \in [Key -> Entry] /\ now \in Nat \ {0}
  BY TypeFacts DEF TableTyped
<1>6. Busy' \subseteq IF command.op = "expire" THEN Busy ELSE Busy \cup {n0}
  <2>1. PICK r : r = IF command.op = "expire" THEN Idle ELSE [pc |-> "append", cmd |-> n0]
    OBVIOUS
  <2>2. /\ r \in ConnType
        /\ r.pc # "idle" => r.cmd = n0 /\ command.op # "expire"
    BY <1>3, <2>1, IdleTyped DEF ConnType
  <2>3. /\ conn'[c] = r
        /\ \A d \in Conn : d # c => conn'[d] = conn[d]
    BY <1>1, <1>2, <2>1, <2>2, TypeFacts, ConnMoves
  <2> QED BY <2>2, <2>3 DEF Busy
<1>7. recorded \subseteq Number /\ Busy \subseteq Number
  BY TypeFacts DEF TypeInv, NumbersKnown, Busy
<1>8. SUFFICES ASSUME Readable, NEW k \in Key PROVE Live(k)'
  BY <1>1 DEF Values, Readable
<1>9. On(k)' = IF k \in command.keys THEN On(k) \cup {n0} ELSE On(k)
  BY <1>3 DEF On
<1>10. On(k) \subseteq Number
  BY DEF On
<1>11. CASE k \in command.keys /\ command.op # "expire"
  <2>1. db'[k].val = IF command.op = "set" THEN n0 ELSE -1
    <3>1. command.op \in {"set", "del"}
      BY <1>4, <1>11 DEF CommandType
    <3> QED BY <1>1, <1>4, <1>5, <1>11, <3>1, ApplyIs
  <2>2. ValueOf(n0)' = db'[k].val
    BY <1>3, <2>1 DEF ValueOf
  <2>3. ASSUME NEW m \in On(k)' PROVE n0 \notin cmds'[m].prior
    <3>1. CASE m = n0
      BY <1>3, <3>1
    <3>2. CASE m \in Number
      BY <1>3, <3>2 DEF AofInv, PriorsOver
    <3> QED BY <1>9, <1>10, <3>1, <3>2
  <2>4. n0 \in On(k)' /\ cmds'[n0].command.op # "expire"
    BY <1>3, <1>9, <1>11
  <2> QED BY <2>2, <2>3, <2>4 DEF Live
<1>12. CASE ~(k \in command.keys /\ command.op # "expire")
  <2>1. db'[k].val = db[k].val
    <3>1. CASE k \notin command.keys
      BY <1>1, <1>4, <1>5, <3>1, ApplyIs
    <3>2. CASE k \in command.keys /\ command.op = "expire"
      BY <1>1, <1>4, <1>5, <3>2, ApplyIs
    <3> QED BY <1>12, <3>1, <3>2
  <2>2. On(k)' \cap Pending' \subseteq On(k) \cap Pending
    BY <1>1, <1>3, <1>6, <1>7, <1>9, <1>10, <1>12 DEF Pending
  <2>3. Live(k)
    BY <1>1, <1>8 DEF Values
  <2>4. CASE db[k].val = -1 /\ On(k) \cap Pending = {}
    BY <2>1, <2>2, <2>4 DEF Live
  <2>5. CASE \E n \in On(k) :
               /\ cmds[n].command.op # "expire" /\ db[k].val = ValueOf(n)
               /\ \A m \in On(k) \cap Pending : n \notin cmds[m].prior
    <3>1. PICK n \in On(k) :
            /\ cmds[n].command.op # "expire" /\ db[k].val = ValueOf(n)
            /\ \A m \in On(k) \cap Pending : n \notin cmds[m].prior
      BY <2>5
    <3>2. n \in On(k)' /\ cmds'[n] = cmds[n]
      BY <1>3, <1>9, <1>10
    <3>3. ValueOf(n)' = ValueOf(n)
      BY <3>2 DEF ValueOf
    <3>4. \A m \in On(k)' \cap Pending' : n \notin cmds'[m].prior
      BY <1>3, <1>10, <2>2, <3>1
    <3> QED BY <2>1, <3>1, <3>2, <3>3, <3>4 DEF Live
  <2> QED BY <2>3, <2>4, <2>5 DEF Live
<1> QED BY <1>11, <1>12

LEMMA BootValues ==
  ASSUME TypeInv, Boot
  PROVE  Values'
<1>1. mode' = "replay" /\ pos' = 1 /\ Len(aof') \in Nat
  BY TypeFacts DEF Boot, disk
<1>2. pos' \in 1..(Len(aof') + 1) /\ 1..(pos' - 1) = {}
  BY <1>1
<1> QED BY <1>1, <1>2 DEF Values, ReplayedTo

LEMMA ReplayValues ==
  ASSUME TypeInv, AofInv, Values, Plain, ReplayCommand
  PROVE  Values'
<1>1. /\ mode = "replay" /\ mode' = "replay" /\ pos' = pos + 1
      /\ db' = ApplyLogEntry(db, cmds[aof[pos]].command, now)
      /\ UNCHANGED <<aof, cmds>>
  BY DEF ReplayCommand, disk, history
<1>2. PICK n, c : n = aof[pos] /\ c = cmds[n].command
  OBVIOUS
<1>3. /\ pos \in 1..Len(aof) /\ n # Torn
      /\ n \in Number /\ c \in CommandType /\ c.id = n
      /\ c.op = "set" => c.opt = "none"
      /\ c.op \in {"set", "expire"} => \E k \in Key : c.keys = {k}
  BY <1>2, PosInFile, RecordIsCommand DEF Plain
<1>4. db \in [Key -> Entry] /\ now \in Nat \ {0} /\ Len(aof) \in Nat
  BY TypeFacts DEF TableTyped
<1>5. db' = ApplyLogEntry(db, c, now)
  BY <1>1, <1>2
<1>6. c.op \in {"set", "del"}
  <2>1. pos \in 1..Len(Records) /\ Records[pos] = n
    BY <1>2, <1>3, <1>4, TypeFacts, RecordsFacts
  <2>2. c.op # "expire"
    BY <1>2, <1>3, <2>1 DEF AofInv, RecordsOrdered
  <2> QED BY <1>3, <2>2 DEF CommandType
<1>7. /\ pos' \in 1..(Len(aof) + 1) /\ pos' - 1 = pos /\ pos \in Nat
      /\ \A i \in 1..pos : i = pos \/ i \in 1..(pos - 1)
  BY <1>1, <1>3, <1>4
<1>8. \A i \in 1..(pos' - 1) : aof'[i] # Torn
  BY <1>1, <1>2, <1>3, <1>7 DEF Values
<1>9. ASSUME NEW k \in Key PROVE ReplayedTo(k)'
  <2>1. On(k)' = On(k)
    BY <1>1 DEF On, Number
  <2>2. CASE k \in c.keys
    <3>1. n \in On(k)
      BY <1>2, <1>3, <2>2 DEF On
    <3>2. db'[k].val = IF c.op = "set" THEN n ELSE -1
      BY <1>3, <1>4, <1>5, <1>6, <2>2, ApplyIs
    <3>3. db'[k].val = ValueOf(n)'
      BY <1>1, <1>2, <3>2 DEF ValueOf
    <3>4. /\ pos \in 1..(pos' - 1) /\ aof'[pos] = n /\ (pos + 1)..(pos' - 1) = {}
      BY <1>1, <1>2, <1>3, <1>7
    <3> QED BY <2>1, <3>1, <3>3, <3>4 DEF ReplayedTo, ValueOf
  <2>3. CASE k \notin c.keys
    <3>1. n \notin On(k)
      BY <1>2, <2>3 DEF On
    <3>2. db'[k] = db[k]
      BY <1>3, <1>4, <1>5, <2>3, ApplyIs
    <3>3. ReplayedTo(k)
      BY <1>1 DEF Values
    <3>4. CASE \A j \in 1..(pos - 1) : aof[j] \notin On(k)
      <4>1. \A j \in 1..(pos' - 1) : aof'[j] \notin On(k)'
        BY <1>1, <1>2, <1>7, <2>1, <3>1, <3>4
      <4> QED BY <4>1 DEF ReplayedTo
    <3>5. CASE \E i \in 1..(pos - 1) :
                 /\ aof[i] \in On(k) /\ db[k].val = ValueOf(aof[i])
                 /\ \A j \in (i + 1)..(pos - 1) : aof[j] \notin On(k)
      <4>1. PICK i \in 1..(pos - 1) :
              /\ aof[i] \in On(k) /\ db[k].val = ValueOf(aof[i])
              /\ \A j \in (i + 1)..(pos - 1) : aof[j] \notin On(k)
        BY <3>5
      <4>2. /\ i \in 1..(pos' - 1)
            /\ \A j \in (i + 1)..(pos' - 1) : j = pos \/ j \in (i + 1)..(pos - 1)
        <5>1. pos \in Nat /\ pos' - 1 = pos
          BY <1>7
        <5>2. /\ i \in 1..pos
              /\ \A j \in (i + 1)..pos : j = pos \/ j \in (i + 1)..(pos - 1)
          BY <5>1, <4>1, BeforeNext
        <5> QED BY <5>1, <5>2
      <4>3. \A j \in (i + 1)..(pos' - 1) : aof'[j] \notin On(k)'
        BY <1>1, <1>2, <2>1, <3>1, <4>1, <4>2
      <4>4. i \in 1..(pos' - 1)
        BY <4>2
      <4>5. aof'[i] \in On(k)' /\ db'[k].val = ValueOf(aof[i])'
        BY <1>1, <2>1, <3>2, <4>1 DEF ValueOf
      <4> QED BY <4>3, <4>4, <4>5 DEF ReplayedTo
    <3> QED BY <3>3, <3>4, <3>5 DEF ReplayedTo
  <2> QED BY <2>2, <2>3
<1> QED BY <1>1, <1>7, <1>8, <1>9 DEF Values

\* The end of a replay.  The last record on a key wins, and what was over when
\* another write of the key came has its record before that one's.
LEMMA ReplayEndsLive ==
  ASSUME TypeInv, AofInv, Origins, Values, mode = "replay", ~Parses(pos), Readable,
         NEW k \in Key
  PROVE  Live(k)
<1>1. /\ Pending = recorded /\ recorded \subseteq Number
      /\ Number = 1..Len(cmds) /\ Len(cmds) \in Nat /\ Len(aof) \in Nat
  BY TypeFacts DEF TypeInv, ServesOnlyUp, Pending, Busy
<1>2. pos \in 1..(Len(aof) + 1) /\ ReplayedTo(k)
  BY DEF Values
<1>3. ASSUME NEW j \in 1..Len(aof), aof[j] \in Number PROVE j \in 1..(pos - 1)
  <2>1. aof[j] # Torn
    BY <1>1, <1>3 DEF Torn
  <2>2. CASE pos = Len(aof) + 1
    BY <1>1, <1>2, <2>2
  <2>3. CASE pos <= Len(aof)
    <3>1. aof[pos] = Torn
      BY <2>3 DEF Parses
    <3>2. pos = Len(aof)
      <4>1. pos \in 1..(Len(aof) - 1) => aof[pos] # Torn
        BY DEF Readable
      <4> QED BY <1>1, <1>2, <2>3, <3>1, <4>1
    <3> QED BY <1>1, <1>2, <2>1, <3>1, <3>2
  <2> QED BY <1>1, <1>2, <2>2, <2>3
<1>4. \A m \in recorded : \E j \in 1..(pos - 1) : j \in 1..Len(aof) /\ aof[j] = m
  BY <1>1, <1>3, RecordedInFile
<1>5. CASE \A j \in 1..(pos - 1) : aof[j] \notin On(k)
  <2>1. On(k) \cap Pending = {}
    BY <1>1, <1>4, <1>5
  <2>2. CASE db[k].val = -1
    BY <2>1, <2>2 DEF Live
  <2>3. CASE db[k].val # -1
    <3>1. /\ db[k].val \in 1..Len(cmds) /\ k \in cmds[db[k].val].command.keys
          /\ cmds[db[k].val].command.op = "set"
      BY <2>3 DEF Origins, Origin, OriginIn
    <3>2. db[k].val \in On(k) /\ ValueOf(db[k].val) = db[k].val
      BY <1>1, <3>1 DEF On, ValueOf
    <3> QED BY <2>1, <3>1, <3>2 DEF Live
  <2> QED BY <2>2, <2>3
<1>6. CASE \E i \in 1..(pos - 1) :
             /\ aof[i] \in On(k) /\ db[k].val = ValueOf(aof[i])
             /\ \A j \in (i + 1)..(pos - 1) : aof[j] \notin On(k)
  <2>1. PICK i \in 1..(pos - 1) :
          /\ aof[i] \in On(k) /\ db[k].val = ValueOf(aof[i])
          /\ \A j \in (i + 1)..(pos - 1) : aof[j] \notin On(k)
    BY <1>6
  <2>2. i \in 1..Len(aof) /\ aof[i] \in Number
    BY <1>1, <1>2, <2>1 DEF On
  <2>3. /\ \A j \in 1..Len(aof) : j \in 1..Len(Records) /\ Records[j] = aof[j]
        /\ Len(Records) \in Nat
    BY <1>1, TypeFacts, RecordsFacts
  <2>4. cmds[aof[i]].command.op # "expire"
    BY <2>2, <2>3 DEF AofInv, RecordsOrdered
  <2>5. ASSUME NEW m \in On(k) \cap Pending PROVE aof[i] \notin cmds[m].prior
    <3>1. PICK j \in 1..(pos - 1) : j \in 1..Len(aof) /\ aof[j] = m
      BY <1>1, <1>4
    <3>2. j <= i
      BY <1>2, <2>1, <3>1
    <3>3. i \in j..Len(Records)
      <4>1. j \in 1..Len(Records) /\ i \in 1..Len(Records)
        BY <2>2, <2>3, <3>1
      <4> QED BY <4>1, <2>3, <3>2, Between
    <3>4. m \in Number
      BY DEF On
    <3> QED BY <2>2, <2>3, <3>1, <3>3, <3>4 DEF AofInv, RecordsOrdered
  <2> QED BY <2>1, <2>4, <2>5 DEF Live
<1> QED BY <1>2, <1>5, <1>6 DEF ReplayedTo

LEMMA ReplayEndsValues ==
  ASSUME TypeInv, AofInv, Origins, Values, ReplayEnds
  PROVE  Values'
<1>1. /\ mode = "replay" /\ ~Parses(pos) /\ mode' = "up"
      /\ UNCHANGED <<db, aof, cmds, recorded, conn>>
  BY DEF ReplayEnds, disk, history
<1>2. Pending' = Pending /\ (Readable' <=> Readable)
  BY <1>1 DEF Pending, Busy, Readable
<1>3. Readable => \A k \in Key : Live(k)
  BY <1>1, ReplayEndsLive
<1>4. Readable' => \A k \in Key : Live(k)'
  BY <1>1, <1>2, <1>3, LiveShrinks
<1> QED BY <1>1, <1>4 DEF Values

LEMMA ValuesStep ==
  ASSUME TypeInv, AofInv, Origins, Values, Plain, [Next]_vars
  PROVE  Values'
<1>1. CASE \E c \in Conn : ConnStep(c)
  BY <1>1, ArrivesValues, ConnValues DEF ConnStep
<1>2. CASE \E s \in Saver : SaveStep(s)
  <2>1. UNCHANGED <<mode, db, aof, pos, cmds, recorded, conn>>
    BY <1>2, SaveMoves DEF SaverMoves
  <2> QED BY <2>1, ValuesSame
<1>3. CASE Kill \/ Shutdown \/ PowerFailure
  <2>1. mode' = "down"
    BY <1>3 DEF Kill, Shutdown, PowerFailure, ProcessEnds
  <2> QED BY <2>1 DEF Values
<1>4. CASE Tick \/ UNCHANGED vars
  <2>1. UNCHANGED <<mode, db, aof, pos, cmds, recorded, conn>>
    BY <1>4 DEF Tick, vars, server, disk, history
  <2> QED BY <2>1, ValuesSame
<1> QED BY <1>1, <1>2, <1>3, <1>4, BootValues, ReplayValues, ReplayEndsValues DEF Next

LEMMA ValueInit ==
  ASSUME Init PROVE ValueInv
<1>1. /\ cmds = <<>> /\ recorded = {} /\ mode = "up" /\ db = EmptyTable
      /\ conn = [c \in Conn |-> Idle]
      /\ saver = [s \in Saver |-> NotSaving] /\ file = NoFile
  BY DEF Init
<1>2. \A k \in Key : OriginIn(cmds, k, EmptyTable[k])
  BY OriginAbsent, EmptyTyped
<1>3. Origins
  BY <1>1, <1>2, NotSavingTyped, NoFileTyped DEF Origins, Origin
<1>4. Pending = {}
  BY <1>1, IdleTyped DEF Pending, Busy
<1>5. \A k \in Key : db[k].val = -1
  <2>1. Absent.val = -1
    BY DEF Absent
  <2>2. \A k \in Key : db[k] = Absent
    BY <1>1 DEF EmptyTable
  <2> QED BY <2>1, <2>2
<1>6. \A k \in Key : Live(k)
  BY <1>4, <1>5 DEF Live
<1> QED BY <1>1, <1>3, <1>6 DEF ValueInv, Values

LEMMA NothingUndoneIn ==
  ASSUME TypeInv, ValueInv PROVE NothingUndone
<1> SUFFICES ASSUME mode = "up", Readable, NEW k \in Key
             PROVE  \/ \E n \in MayBeLast(k) : Visible(k) = ValueOf(n)
                    \/ /\ Visible(k) = -1
                       /\ On(k) \cap recorded = {} \/ \E n \in On(k) : Timed(n)
  BY DEF NothingUndone
<1>1. Live(k) /\ OriginIn(cmds, k, db[k])
  BY DEF ValueInv, Values, Origins, Origin
<1>2. CASE Expired(db[k], now)
  <2>1. Visible(k) = -1
    BY <1>2 DEF Visible, Find, Absent
  <2>2. \E n \in On(k) : Timed(n)
    BY <1>1, <1>2 DEF Expired, OriginIn, On, Number, Timed
  <2> QED BY <2>1, <2>2
<1>3. CASE ~Expired(db[k], now)
  <2>1. Visible(k) = db[k].val
    BY <1>3 DEF Visible, Find
  <2>2. CASE db[k].val = -1 /\ On(k) \cap Pending = {}
    BY <2>1, <2>2 DEF Pending
  <2>3. CASE \E n \in On(k) :
               /\ cmds[n].command.op # "expire" /\ db[k].val = ValueOf(n)
               /\ \A m \in On(k) \cap Pending : n \notin cmds[m].prior
    BY <2>1, <2>3 DEF MayBeLast, Pending
  <2> QED BY <1>1, <2>2, <2>3 DEF Live
<1> QED BY <1>2, <1>3

\* Where every SET is a plain one, no recorded write is undone: through kills,
\* restarts, snapshots at any moment, failed writes and power failures, a key
\* shows the value of a write that may be its last (RecordCommand, Flush, Save,
\* LoadSnapshot, ReplayAof).
THEOREM RecordedWritesKept == Options \subseteq {"none"} => (Spec => []NothingUndone)
<1> SUFFICES ASSUME Options \subseteq {"none"} PROVE Spec => []NothingUndone
  OBVIOUS
<1>1. Plain
  BY DEF Plain
<1>2. Init => StandaloneInv
  BY TypeInit, AofInit, ValueInit DEF StandaloneInv
<1>3. StandaloneInv /\ [Next]_vars => StandaloneInv'
  BY <1>1, TypeStep, AofStep, OriginsStep, ValuesStep DEF StandaloneInv, ValueInv
<1>4. StandaloneInv => NothingUndone
  BY NothingUndoneIn DEF StandaloneInv
<1> QED BY <1>2, <1>3, <1>4, PTL DEF Spec

(***************************************************************************)
(* The replay as a whole.                                                  *)
(***************************************************************************)
Replays(i, u) ==
  IF \A j \in 1..i : Parses(j) THEN ApplyLogEntry(u, cmds[aof[i]].command, now) ELSE u

LEMMA ReplaysTyped ==
  ASSUME TypeInv, NEW i \in Nat \ {0}, NEW u \in [Key -> Entry]
  PROVE  Replays(i, u) \in [Key -> Entry]
<1>1. CASE \A j \in 1..i : Parses(j)
  <2>1. Parses(i)
    BY <1>1
  <2>2. i \in 1..Len(aof) /\ aof[i] # Torn
    BY <2>1, TypeFacts DEF Parses
  <2>3. ApplyLogEntry(u, cmds[aof[i]].command, now) \in [Key -> Entry]
    BY <2>2, TypeFacts, RecordIsCommand, ApplyIs
  <2> QED BY <1>1, <2>3 DEF Replays
<1>2. CASE ~\A j \in 1..i : Parses(j)
  BY <1>2 DEF Replays
<1> QED BY <1>1, <1>2

\* The tables a replay goes through.
Replay(t, f) ==
  /\ f \in [Nat -> [Key -> Entry]] /\ f[0] = t /\ Replayed(t) = f[Len(aof)]
  /\ \A i \in Nat : f[i + 1] = Replays(i + 1, f[i])

LEMMA ReplayExists ==
  ASSUME TypeInv, NEW t \in [Key -> Entry] PROVE \E f : Replay(t, f)
<1> DEFINE X == [Key -> Entry]
           body(h) == [i \in Nat |->
             IF i = 0 THEN t
             ELSE IF \A j \in 1..i : Parses(j)
                  THEN ApplyLogEntry(h[i - 1], cmds[aof[i]].command, now)
                  ELSE h[i - 1]]
           f == CHOOSE h : h = body(h)
<1>1. Replayed(t) = f[Len(aof)]
  BY DEF Replayed
<1>2. PICK step : step = [i \in Nat |-> [u \in X |-> IF i = 0 THEN u ELSE Replays(i, u)]]
  OBVIOUS
<1>3. step \in [Nat -> [X -> X]]
  <2> HIDE DEF X
  <2>1. \A i \in Nat : \A u \in X : (IF i = 0 THEN u ELSE Replays(i, u)) \in X
    BY ReplaysTyped DEF X
  <2> QED BY <1>2, <2>1
<1>4. PICK g : Iterated(g, X, t, step)
  <2>1. t \in X
    OBVIOUS
  <2> HIDE DEF X
  <2> QED BY <1>3, <2>1, Iterates
<1>5. g \in [Nat -> X] /\ \A i \in Nat : g[i] = IF i = 0 THEN t ELSE Replays(i, g[i - 1])
  <2> HIDE DEF X
  <2>1. g \in [Nat -> X]
    BY <1>4 DEF Iterated
  <2>2. ASSUME NEW i \in Nat PROVE g[i] = IF i = 0 THEN t ELSE Replays(i, g[i - 1])
    <3>1. CASE i = 0
      BY <1>4, <3>1 DEF Iterated
    <3>2. CASE i # 0
      <4>1. i - 1 \in Nat /\ g[i - 1] \in X
        BY <2>1, <3>2
      <4>2. step[i][g[i - 1]] = Replays(i, g[i - 1])
        BY <1>2, <3>2, <4>1
      <4> QED BY <1>4, <3>2, <4>2 DEF Iterated
    <3> QED BY <3>1, <3>2
  <2> QED BY <2>1, <2>2
<1>6. g = body(g)
  <2>1. g = [i \in Nat |-> IF i = 0 THEN t ELSE Replays(i, g[i - 1])]
    BY <1>5
  <2> QED BY <2>1 DEF Replays
<1>7. f = body(f)
  <2> HIDE DEF body
  <2> QED BY <1>6
<1>8. \A i \in Nat : f[i] = IF i = 0 THEN t ELSE Replays(i, f[i - 1])
  <2> HIDE DEF f
  <2> QED BY <1>7 DEF Replays
<1>9. f = [i \in Nat |-> f[i]]
  <2>1. \A h : body(h) = [i \in Nat |-> body(h)[i]]
    OBVIOUS
  <2> HIDE DEF f, body
  <2> QED BY <1>7, <2>1
<1> HIDE DEF f, body
<1>10. \A i \in Nat : f[i] \in X
  <2> DEFINE good == {i \in Nat : f[i] \in X}
  <2>1. 0 \in good
    BY <1>8
  <2>2. ASSUME NEW i \in Nat, i \in good PROVE i + 1 \in good
    <3>1. i + 1 - 1 = i /\ i + 1 \in Nat \ {0} /\ i + 1 # 0
      OBVIOUS
    <3>2. f[i + 1] = Replays(i + 1, f[i])
      BY <1>8, <3>1
    <3> QED BY <2>2, <3>1, <3>2, ReplaysTyped
  <2>3. \A i \in Nat : i \in good
    <3> HIDE DEF good
    <3> QED BY <2>1, <2>2, SetInduction
  <2> QED BY <2>3
<1>11. f \in [Nat -> X]
  <2> HIDE DEF X
  <2> QED BY <1>9, <1>10
<1>12. f[0] = t
  BY <1>8
<1>13. ASSUME NEW i \in Nat PROVE f[i + 1] = Replays(i + 1, f[i])
  <2>1. i + 1 - 1 = i /\ i + 1 \in Nat /\ i + 1 # 0
    OBVIOUS
  <2> QED BY <1>8, <2>1
<1> QED BY <1>1, <1>11, <1>12, <1>13 DEF Replay

\* What a record makes of its keys does not depend on what the table held.
LEMMA RecordDecides ==
  ASSUME TypeInv, AofInv, Plain, NEW i \in 1..Len(aof), aof[i] # Torn,
         NEW t \in [Key -> Entry], NEW u \in [Key -> Entry],
         NEW k \in Key, k \in cmds[aof[i]].command.keys
  PROVE  Find(ApplyLogEntry(t, cmds[aof[i]].command, now), k, now).val =
           Find(ApplyLogEntry(u, cmds[aof[i]].command, now), k, now).val
<1>1. PICK c : c = cmds[aof[i]].command
  OBVIOUS
<1>2. /\ c \in CommandType /\ aof[i] \in Number
      /\ c.op = "set" => c.opt = "none"
      /\ c.op \in {"set", "expire"} => \E x \in Key : c.keys = {x}
  BY <1>1, RecordIsCommand DEF Plain
<1>3. c.op # "expire"
  <2>1. i \in 1..Len(Records) /\ Records[i] = aof[i]
    BY TypeFacts, RecordsFacts
  <2> QED BY <1>1, <1>2, <2>1 DEF AofInv, RecordsOrdered
<1>4. now \in Nat \ {0} /\ c.ttl \in Nat \cup {NoTtl} /\ c.op \in {"set", "del", "expire"}
  BY <1>2, TypeFacts DEF CommandType
<1>5. CASE c.op = "del"
  <2>1. ApplyLogEntry(t, c, now)[k] = Absent /\ ApplyLogEntry(u, c, now)[k] = Absent
    BY <1>1, <1>5 DEF ApplyLogEntry, Del
  <2> QED BY <1>1, <2>1 DEF Find
<1>6. CASE c.op = "set"
  <2>1. TheKey(c) = k
    BY <1>1, <1>2, <1>6 DEF TheKey
  <2>2. PICK d : d = ExpireAt(c.ttl, now)
    OBVIOUS
  <2>3. d \in Nat /\ NoTtl = -1
    BY <1>4, <2>2 DEF ExpireAt, NoTtl
  <2>4. ASSUME NEW v \in [Key -> Entry]
        PROVE  Find(ApplyLogEntry(v, c, now), k, now).val =
                 IF d > 0 /\ d <= now THEN -1 ELSE c.id
    <3>1. PICK e : e = AddOrFind(v, k, now)
      OBVIOUS
    <3>2. e.exp \in Nat /\ ~(e.exp # 0 /\ e.exp <= now)
      <4>1. CASE Inserts(v, k, now)
        BY <3>1, <4>1 DEF AddOrFind, NewEntry
      <4>2. CASE ~Inserts(v, k, now)
        <5>1. e = v[k] /\ ~Expired(v[k], now)
          BY <3>1, <4>2 DEF AddOrFind, Inserts, Find
        <5> QED BY <5>1 DEF Expired, Entry
      <4> QED BY <4>1, <4>2
    <3>3. ApplyLogEntry(v, c, now) = [v EXCEPT ![k] = [val |-> c.id, exp |-> IF d > 0 THEN d ELSE e.exp]]
      <4>1. ~Refused(v, k, c, now)
        BY <1>2, <1>6 DEF Refused
      <4> QED BY <1>6, <2>1, <2>2, <3>1, <4>1 DEF ApplyLogEntry, ApplySet
    <3>4. ApplyLogEntry(v, c, now)[k] = [val |-> c.id, exp |-> IF d > 0 THEN d ELSE e.exp]
      BY <3>3
    <3>5. CASE d > 0
      BY <1>4, <2>3, <3>4, <3>5 DEF Find, Expired, Absent
    <3>6. CASE d = 0
      BY <2>3, <3>2, <3>4, <3>6 DEF Find, Expired, Absent
    <3> QED BY <2>3, <3>5, <3>6
  <2> QED BY <1>1, <2>4
<1> QED BY <1>3, <1>4, <1>5, <1>6

\* Two replays of one file agree on the keys they have met a record of.
LEMMA ReplaysAgree ==
  ASSUME TypeInv, AofInv, Plain, NEW t \in [Key -> Entry], NEW u \in [Key -> Entry],
         Readable, NEW k \in Key, \E n \in On(k) : n \in ToSet(aof)
  PROVE  Find(Replayed(t), k, now).val = Find(Replayed(u), k, now).val
<1>1. PICK f : Replay(t, f)
  BY ReplayExists
<1>2. PICK g : Replay(u, g)
  BY ReplayExists
<1>3. \A i \in Nat : /\ f[i] \in [Key -> Entry] /\ g[i] \in [Key -> Entry]
                     /\ f[i + 1] = Replays(i + 1, f[i]) /\ g[i + 1] = Replays(i + 1, g[i])
  BY <1>1, <1>2 DEF Replay
<1> DEFINE met(i) == \E j \in 1..i : j <= Len(aof) /\ aof[j] \in On(k)
           agree == {i \in Nat : i <= Len(aof) /\ met(i) => Find(f[i], k, now).val = Find(g[i], k, now).val}
<1>4. Len(aof) \in Nat /\ now \in Nat \ {0} /\ \A i \in 1..Len(aof) : aof[i] \in Nat
  BY TypeFacts, ElementOfSeq
<1>5. 0 \in agree
  OBVIOUS
<1>6. ASSUME NEW i \in Nat, i \in agree PROVE i + 1 \in agree
  <2> SUFFICES ASSUME i + 1 <= Len(aof), met(i + 1)
               PROVE  Find(f[i + 1], k, now).val = Find(g[i + 1], k, now).val
    OBVIOUS
  <2>1. i + 1 \in 1..Len(aof) /\ i <= Len(aof)
    BY <1>4
  <2>2. CASE aof[i + 1] = Torn
    <3>1. aof[i + 1] \notin On(k)
      BY <2>2 DEF On, Number, Torn
    <3>2. met(i)
      <4>1. PICK j \in 1..(i + 1) : j <= Len(aof) /\ aof[j] \in On(k)
        OBVIOUS
      <4>2. j \in 1..i
        BY <3>1, <4>1
      <4> QED BY <4>1, <4>2
    <3>3. f[i + 1] = f[i] /\ g[i + 1] = g[i]
      <4>1. ~Parses(i + 1) /\ i + 1 \in 1..(i + 1)
        BY <2>1, <2>2 DEF Parses
      <4> QED BY <1>3, <4>1 DEF Replays
    <3>4. Find(f[i], k, now).val = Find(g[i], k, now).val
      BY <1>6, <2>1, <3>2
    <3> QED BY <3>3, <3>4
  <2>3. CASE aof[i + 1] # Torn
    <3>1. \A j \in 1..(i + 1) : Parses(j)
      BY <1>4, <2>1, <2>3 DEF Parses, Readable
    <3>2. PICK c : c = cmds[aof[i + 1]].command
      OBVIOUS
    <3>3. f[i + 1] = ApplyLogEntry(f[i], c, now) /\ g[i + 1] = ApplyLogEntry(g[i], c, now)
      BY <1>3, <3>1, <3>2 DEF Replays
    <3>4. CASE k \in c.keys
      <4>1. f[i] \in [Key -> Entry] /\ g[i] \in [Key -> Entry]
        BY <1>3
      <4>2. Find(ApplyLogEntry(f[i], c, now), k, now).val = Find(ApplyLogEntry(g[i], c, now), k, now).val
        BY <2>1, <2>3, <3>2, <3>4, <4>1, RecordDecides
      <4> QED BY <3>3, <4>2
    <3>5. CASE k \notin c.keys
      <4>1. c \in CommandType /\ (c.op \in {"set", "expire"} => \E x \in Key : c.keys = {x})
        BY <2>1, <2>3, <3>2, RecordIsCommand
      <4>2. ApplyLogEntry(f[i], c, now)[k] = f[i][k] /\ ApplyLogEntry(g[i], c, now)[k] = g[i][k]
        <5>1. ASSUME NEW v \in [Key -> Entry] PROVE ApplyLogEntry(v, c, now)[k] = v[k]
          BY <1>4, <3>5, <4>1, ApplyIs
        <5> QED BY <1>3, <5>1
      <4>3. f[i + 1][k] = f[i][k] /\ g[i + 1][k] = g[i][k]
        BY <3>3, <4>2
      <4>4. met(i)
        <5>1. PICK j \in 1..(i + 1) : j <= Len(aof) /\ aof[j] \in On(k)
          OBVIOUS
        <5>2. aof[i + 1] \notin On(k)
          BY <3>2, <3>5 DEF On
        <5>3. j \in 1..i
          BY <5>1, <5>2
        <5> QED BY <5>1, <5>3
      <4>5. Find(f[i], k, now).val = Find(g[i], k, now).val
        BY <1>6, <2>1, <4>4
      <4>6. Find(f[i + 1], k, now) = Find(f[i], k, now) /\ Find(g[i + 1], k, now) = Find(g[i], k, now)
        BY <4>3 DEF Find
      <4> QED BY <4>5, <4>6
    <3> QED BY <3>4, <3>5
  <2> QED BY <2>2, <2>3
<1>7. \A i \in Nat : i \in agree
  <2> HIDE DEF agree
  <2> QED BY <1>5, <1>6, SetInduction
<1>8. met(Len(aof))
  BY <1>4, TypeFacts DEF ToSet
<1>9. Find(f[Len(aof)], k, now).val = Find(g[Len(aof)], k, now).val
  BY <1>4, <1>7, <1>8
<1> QED BY <1>1, <1>2, <1>9 DEF Replay

\* Where every SET is a plain one, snapshot.bin never changes what the AOF says:
\* whichever saver wrote it and whenever it was cut off, ReplayAof gives a key
\* the AOF mentions the value it would have without the file (Save, LoadSnapshot,
\* ReplayAof).
THEOREM SnapshotOverridden == Options \subseteq {"none"} => (Spec => []SnapshotAddsNothing)
<1> SUFFICES ASSUME Options \subseteq {"none"} PROVE Spec => []SnapshotAddsNothing
  OBVIOUS
<1>1. Plain
  BY DEF Plain
<1>2. Init => TypeInv /\ AofInv
  BY TypeInit, AofInit
<1>3. TypeInv /\ AofInv /\ [Next]_vars => (TypeInv /\ AofInv)'
  BY TypeStep, AofStep
<1>4. TypeInv /\ AofInv => SnapshotAddsNothing
  <2> SUFFICES ASSUME TypeInv, AofInv, Readable,
                      NEW k \in Key, \E n \in On(k) : n \in ToSet(aof)
               PROVE  Find(Replayed(IF file.ok THEN file.data ELSE EmptyTable), k, now).val =
                        Find(Replayed(EmptyTable), k, now).val
    BY DEF SnapshotAddsNothing
  <2>1. PICK t : t = IF file.ok THEN file.data ELSE EmptyTable
    OBVIOUS
  <2>2. t \in [Key -> Entry] /\ EmptyTable \in [Key -> Entry]
    BY <2>1, TypeFacts, EmptyTyped DEF TableTyped
  <2> QED BY <1>1, <2>1, <2>2, ReplaysAgree
<1> QED BY <1>2, <1>3, <1>4, PTL DEF Spec

=============================================================================
