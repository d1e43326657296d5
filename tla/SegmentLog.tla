----------------------------- MODULE SegmentLog -----------------------------
(***************************************************************************)
(* The durable log under RaftNode: class SegmentLogStorage with its        *)
(* WalWriter and WalIndex (server/raft/segment_log_storage.cc,             *)
(* wal_writer.cc, wal_index.h), the compaction RaftSnapshotManager drives, *)
(* and the ways a process or a machine can die under it.                   *)
(*                                                                         *)
(* A segment file is a sequence of records.  All records have one size, so *)
(* an offset is a position and kMaxSegmentBytes a number of records.  A    *)
(* record cut short is Torn: whatever follows it in its file is read as    *)
(* its payload and fails the CRC.  An fdatasync makes the whole file safe; *)
(* creating, truncating and unlinking files is taken to be durable.        *)
(*                                                                         *)
(* Killing the process and opening the log again is one step: Open writes  *)
(* no segment.  manifest.json is left out: nothing is decided by what it   *)
(* holds, the segment to append to is the last one in the directory.       *)
(*                                                                         *)
(* A definition marked FAULT is a wrong variant of the one after it.       *)
(***************************************************************************)
EXTENDS Integers, Sequences, FiniteSets, SequencesExt

CONSTANTS
  Term,            \* the terms of entries: a set of positive numbers
  FsyncPerAppend,  \* fsync_per_append_
  SegmentSize,     \* kMaxSegmentBytes, in records
  MaxIndex,        \* bound: no append beyond this index
  MaxSegment,      \* bound: no roll beyond this segment
  MaxFailures      \* bound: failures other than plain kills, and cuts
                   \* back to a snapshot

ASSUME TermAssumption == Term \subseteq Nat \ {0}
ASSUME FsyncAssumption == FsyncPerAppend \in BOOLEAN
ASSUME LogBoundAssumption ==
  /\ SegmentSize \in Nat \ {0}
  /\ {MaxIndex, MaxSegment, MaxFailures} \subseteq Nat

VARIABLES
  disk,      \* the segment files: a function from segment ids to records
  synced,    \* how many records of each file a power failure cannot take
  meta,      \* snapshot.meta: the index and term of the last snapshot
  mem        \* the fields of the SegmentLogStorage object

\* History.  health: "buried" once a record was written behind a torn one;
\* before that, "failed" once a failure lost bytes or hit the middle of an
\* operation, or a truncation went back to a snapshot; "clean" until then.
\* want: while clean, the term of every entry the callers asked the log to
\* hold.  flushed: the entries a synchronous Append returned for.  persisted:
\* the last index when Persist last returned.  failures counts up to the bound.
VARIABLES health, want, flushed, persisted, failures

history == <<health, want, flushed, persisted, failures>>
logVars == <<disk, synced, meta, mem, history>>

Torn   == [index |-> 0, term |-> 0]
Prefix(s, n) == SubSeq(s, 1, n)
UpTo(S, n)  == {e \in S : e.index <= n}
Beyond(S, n) == {e \in S : e.index > n}

\* f where it is defined and g elsewhere; f with x mapped to v.
Over(f, g) == [i \in DOMAIN f \cup DOMAIN g |-> IF i \in DOMAIN f THEN f[i] ELSE g[i]]
Put(f, x, v) == Over([i \in {x} |-> v], f)

\* A fresh object: no entries, no writer.
Empty ==
  [base |-> 0, entries |-> <<>>, lastIndex |-> 0, lastTerm |-> 0,
   anchor |-> Torn, loc |-> <<>>, seg |-> 0, open |-> FALSE, buf |-> <<>>]

(***************************************************************************)
(* Reading.                                                                *)
(***************************************************************************)
FirstIndex(m) ==
  IF m.entries # <<>> /\ m.base + 1 <= m.lastIndex THEN m.base + 1 ELSE 0

\* GetRange without a limit: start is turned into a position by base_index_.
GetRange(m, start) ==
  IF start < FirstIndex(m) \/ start > m.lastIndex THEN <<>>
  ELSE SubSeq(m.entries, start - m.base, Len(m.entries))

Has(m, i) == m.base <= i /\ i <= m.lastIndex /\ \E e \in Range(m.entries) : e.index = i

\* The anchor stands in for the compacted entry it names; 0 for no entry.
GetTerm(m, i) ==
  IF i = m.anchor.index /\ i > 0 THEN m.anchor.term
  ELSE IF Has(m, i) THEN (CHOOSE e \in Range(m.entries) : e.index = i).term
  ELSE 0

(***************************************************************************)
(* Opening.                                                                *)
(***************************************************************************)

\* How many records of segment s the scan reads: it ends at one that is
\* partial or corrupt, or whose index is not above the last; a gap does not
\* end it.
Scanned(d, m, s) ==
  LET last(o) == IF o = 1 THEN m.lastIndex ELSE d[s][o - 1].index
      reads(n) == \A o \in 1..n : d[s][o] # Torn /\ d[s][o].index > last(o)
  IN CHOOSE n \in 0..Len(d[s]) : reads(n) /\ (n = Len(d[s]) \/ ~reads(n + 1))

\* RebuildIndex: where the records r, read from segment s, are.
Located(r, s) ==
  [i \in {e.index : e \in Range(r)} |->
     [seg |-> s, off |-> CHOOSE o \in 1..Len(r) : r[o].index = i]]

ScanSegment(d, m, s) ==
  LET n == Scanned(d, m, s)
      r == Prefix(d[s], n)
  IN [m EXCEPT !.entries = @ \o r, !.loc = Over(Located(r, s), @),
               !.lastIndex = IF n = 0 THEN @ ELSE r[n].index,
               !.lastTerm = IF n = 0 THEN @ ELSE r[n].term]

\* The segments are scanned in the order of their ids; before[s] is the object
\* when s comes.
LastSegment(d) == Max(DOMAIN d)

LoadSegments(d) ==
  LET before[s \in Nat] ==
        IF s = 0 THEN Empty
        ELSE IF s - 1 \in DOMAIN d THEN ScanSegment(d, before[s - 1], s - 1)
        ELSE before[s - 1]
  IN IF DOMAIN d = {} THEN Empty ELSE before[LastSegment(d) + 1]

\* Open: scan, find the base, append to the last segment there is.
Open(d) ==
  LET m == LoadSegments(d)
  IN [m EXCEPT !.base = IF m.entries = <<>> THEN 0 ELSE m.entries[1].index - 1,
               !.seg = IF DOMAIN d = {} THEN 0 ELSE LastSegment(d),
               !.open = DOMAIN d # {}]

\* PruneCompacted: drop the entries in front that the snapshot covers.
Covered(m) ==
  CHOOSE n \in 0..Len(m.entries) :
    /\ \A j \in 1..n : m.entries[j].index <= m.anchor.index
    /\ n = Len(m.entries) \/ m.entries[n + 1].index > m.anchor.index

PruneCompacted(m) ==
  IF m.anchor.index = 0 \/ Covered(m) = 0 THEN m
  ELSE [m EXCEPT !.entries = SubSeq(@, Covered(m) + 1, Len(@)), !.base = m.anchor.index]

\* What a restarted process holds: a snapshot whose meta is usable sets the
\* anchor and prunes.
Recovered(d, snap) ==
  IF snap.index > 0 /\ snap.term > 0
  THEN PruneCompacted([Open(d) EXCEPT !.anchor = snap]) ELSE Open(d)

(***************************************************************************)
(* Appending.                                                              *)
(***************************************************************************)

\* WalWriter: the buffered records go to the end of the current file, created
\* if need be.
WriteOut(d, m) ==
  Put(d, m.seg, (IF m.seg \in DOMAIN d THEN d[m.seg] ELSE <<>>) \o m.buf)

\* The roll to a new, empty segment when the current one is full.
RollSegment(d, m) ==
  IF Len(d[m.seg]) >= SegmentSize THEN Put(d, m.seg + 1, <<>>) ELSE d

\* FAULT: the bytes are written, fdatasync is not called.
NeverSafe(d, m, sync) ==
  [s \in DOMAIN d |-> IF s \in DOMAIN synced THEN synced[s] ELSE 0]

\* How much of each file d is safe: fdatasync makes the current one so.
Safe(d, m, sync) ==
  [s \in DOMAIN d |-> IF s = m.seg /\ sync THEN Len(d[s])
                      ELSE IF s \in DOMAIN synced THEN synced[s] ELSE 0]

\* FAULT: the location is taken after the write.
AppendedLate(m, d, r) ==
  [m EXCEPT !.entries = Append(@, r), !.lastIndex = r.index, !.lastTerm = r.term,
            !.loc = Put(@, r.index, [seg |-> m.seg, off |-> Len(d[m.seg]) + 1]),
            !.seg = LastSegment(d), !.open = TRUE, !.buf = <<>>]

\* The object after the write that left the files d; the buffer is empty.
Appended(m, d, r) ==
  [m EXCEPT !.entries = Append(@, r), !.lastIndex = r.index, !.lastTerm = r.term,
            !.loc = Put(@, r.index, [seg |-> m.seg, off |-> Len(d[m.seg])]),
            !.seg = LastSegment(d), !.open = TRUE, !.buf = <<>>]

TornSegments == {s \in DOMAIN disk : Torn \in Range(disk[s])}

NewRecord(t) == [index |-> mem.lastIndex + 1, term |-> t]

\* Bound: one record behind a torn one is enough, no more are appended.
Buried == health = "buried"

\* Append(entry, flush): followers flush, the leader's write path does not.  The
\* terms a node appends never decrease.
AppendEntry(t, flush) ==
  LET r == NewRecord(t)
      m == [mem EXCEPT !.buf = Append(@, r)]
      d == RollSegment(WriteOut(disk, m), m)
      sync == flush /\ FsyncPerAppend
  IN /\ mem.lastIndex < MaxIndex /\ mem.seg < MaxSegment /\ ~Buried
     /\ t >= mem.lastTerm
     /\ disk' = d
     /\ synced' = Safe(d, m, sync)
     /\ mem' = Appended(m, d, r)
     /\ health' = IF mem.seg \in TornSegments THEN "buried" ELSE health
     /\ want' = IF health = "clean" THEN Append(want, t) ELSE <<>>
     /\ flushed' = IF sync THEN flushed \cup {r} ELSE flushed
     /\ UNCHANGED <<meta, persisted, failures>>

\* Persist, the group fsync of the leader's batch; the periodic Flush and the
\* one at shutdown do the same.  WalWriter::Flush returns at once when it has
\* nothing buffered, before it comes to the fdatasync.
Persist ==
  /\ FsyncPerAppend
  /\ synced' = Safe(disk, mem, mem.open /\ mem.buf # <<>>)
  /\ persisted' = mem.lastIndex
  /\ UNCHANGED <<disk, meta, mem, health, want, flushed, failures>>

(***************************************************************************)
(* Truncation.                                                             *)
(***************************************************************************)
\* FAULT: the last index outlives the entries and the writer.
ClearKeepingIndex(m) == [Empty EXCEPT !.seg = m.seg, !.lastIndex = m.lastIndex]

Clear(m) == [Empty EXCEPT !.seg = m.seg]

\* FAULT: the segments after the one kept are left behind.
CutFilesKeepingLater(m, k) ==
  [disk EXCEPT ![m.loc[k].seg] = Prefix(@, m.loc[k].off)]

\* The segment with record k is cut behind it, later ones are deleted.
CutFiles(m, k) ==
  LET s == m.loc[k].seg
  IN [Restrict(disk, {i \in DOMAIN disk : i <= s}) EXCEPT ![s] = Prefix(@, m.loc[k].off)]

Cut(m, k) ==
  [m EXCEPT !.entries = Prefix(@, k - m.base), !.lastIndex = k,
            !.lastTerm = m.entries[k - m.base].term,
            !.loc = Restrict(@, {i \in DOMAIN @ : i <= k}),
            !.seg = m.loc[k].seg, !.open = TRUE]

Shrunk(d) == [s \in DOMAIN d |-> IF synced[s] < Len(d[s]) THEN synced[s] ELSE Len(d[s])]

\* Where the log ends after TruncateFrom(k): at or below the base the code
\* clears it altogether.
Left(k) == IF k <= mem.base THEN 0 ELSE k

\* Behind a gap in the log the code would take a neighbour for entry k; calls
\* that do are left out.
InPlace(k) ==
  k > mem.base => /\ k - mem.base <= Len(mem.entries)
                  /\ mem.entries[k - mem.base].index = k

CanTruncate(k) == k < mem.lastIndex /\ InPlace(k)

\* The promises for entries beyond the cut are off.
Forget(k) ==
  /\ flushed' = UpTo(flushed, k)
  /\ persisted' = IF persisted < k THEN persisted ELSE k

\* From here on the log may differ from what its callers asked for.
Fails ==
  /\ failures < MaxFailures /\ failures' = failures + 1
  /\ health' = IF health = "buried" THEN "buried" ELSE "failed"
  /\ want' = <<>>

\* TruncateFrom(k): drop everything beyond k.  Clearing takes the snapshot
\* anchor too.
TruncateFrom(k) ==
  /\ CanTruncate(k)
  /\ disk' = IF Left(k) = 0 THEN <<>> ELSE CutFiles(mem, k)
  /\ mem' = IF Left(k) = 0 THEN Clear(mem) ELSE Cut(mem, k)
  /\ synced' = Shrunk(disk')
  /\ IF mem.base > 0 /\ Left(k) = 0 THEN Fails
     ELSE /\ want' = IF health = "clean" THEN Prefix(want, Left(k)) ELSE <<>>
          /\ UNCHANGED <<health, failures>>
  /\ Forget(Left(k))
  /\ UNCHANGED meta

(***************************************************************************)
(* Compaction, after RaftSnapshotManager::CreateSnapshot saved its meta.   *)
(***************************************************************************)

\* The snapshot covers what is applied: an index up to the last one.
SnapshotAt(i) ==
  [index |-> i, term |-> IF i = mem.lastIndex THEN mem.lastTerm ELSE GetTerm(mem, i)]

CanSnapshot(i) ==
  /\ i > 0 /\ meta.index <= i /\ i <= mem.lastIndex
  /\ mem.lastIndex > meta.index
  /\ InPlace(i)

\* The segments CompactSegments deletes: all before the one that holds i.
Obsolete(i) ==
  IF i \in DOMAIN mem.loc THEN {s \in DOMAIN disk : s < mem.loc[i].seg} ELSE {}

\* gone: those of the obsolete segments already unlinked.
CompactSegments(i, gone) == Restrict(disk, DOMAIN disk \ gone)

\* FAULT: the base moves, the entries stay where they are.
CompactUpToKeepingEntries(m, i) == [m EXCEPT !.base = i]

CompactUpTo(m, i) ==
  IF i <= m.base THEN m
  ELSE IF i >= m.lastIndex
       THEN [m EXCEPT !.base = i, !.loc = <<>>, !.lastIndex = i, !.lastTerm = 0,
                      !.entries = <<>>]
       ELSE [m EXCEPT !.base = i,
                      !.entries = SubSeq(@, i - m.base + 1, Len(@)),
                      !.loc = Restrict(@, {j \in DOMAIN @ : j > i})]

CompactLogs(i) ==
  /\ CanSnapshot(i)
  /\ meta' = SnapshotAt(i)
  /\ disk' = CompactSegments(i, Obsolete(i))
  /\ synced' = Shrunk(disk')
  /\ mem' = CompactUpTo([mem EXCEPT !.anchor = meta'], i)
  /\ flushed' = Beyond(flushed, i)
  /\ UNCHANGED <<health, want, persisted, failures>>

(***************************************************************************)
(* Failures.  Every one of them ends in a new process that opens the log.  *)
(***************************************************************************)
Reopen == mem' = Recovered(disk', meta')

\* The process dies between two operations; written bytes are in the page
\* cache and survive.
Kill ==
  /\ UNCHANGED <<disk, synced, meta, history>>
  /\ Reopen

\* The process dies while a record is written: part of it is in the file.
KillInAppend ==
  LET m == [mem EXCEPT !.buf = <<Torn>>]
  IN /\ mem.seg < MaxSegment
     /\ Fails
     /\ disk' = WriteOut(disk, m)
     /\ synced' = Safe(disk', m, FALSE)
     /\ UNCHANGED <<meta, flushed, persisted>>
     /\ Reopen

\* The process dies in TruncateFrom, some of the later segments not deleted
\* yet: they go in the order of their ids.
KillInTruncate(k) ==
  /\ CanTruncate(k)
  /\ \E s \in DOMAIN disk :
       LET later == Restrict(disk, {i \in DOMAIN disk : i >= s})
       IN IF Left(k) = 0 THEN disk' = later
          ELSE s > mem.loc[k].seg /\ disk' = Over(CutFiles(mem, k), later)
  /\ synced' = Shrunk(disk')
  /\ Fails
  /\ Forget(Left(k))
  /\ UNCHANGED meta
  /\ Reopen

\* The process dies in CompactLogs: the meta is saved, the obsolete segments
\* up to some id are deleted.
KillInCompact(i) ==
  /\ CanSnapshot(i)
  /\ meta' = SnapshotAt(i)
  /\ \E s \in DOMAIN disk :
       disk' = CompactSegments(i, {o \in Obsolete(i) : o < s})
  /\ synced' = Shrunk(disk')
  /\ flushed' = Beyond(flushed, i)
  /\ UNCHANGED <<health, want, persisted, failures>>
  /\ Reopen

\* The machine dies: of the records not synced each file keeps some, and may
\* keep a part of the next one.
PowerFail ==
  \E kept \in [DOMAIN disk -> 0..(SegmentSize + 1)], torn \in BOOLEAN :
    /\ \A s \in DOMAIN disk : kept[s] \in synced[s]..Len(disk[s])
    /\ disk' = [s \in DOMAIN disk |->
                  IF torn /\ kept[s] < Len(disk[s]) THEN Append(Prefix(disk[s], kept[s]), Torn)
                  ELSE Prefix(disk[s], kept[s])]
    /\ synced' = [s \in DOMAIN disk' |-> Len(disk'[s])]
    /\ disk' # disk
    /\ Fails
    /\ UNCHANGED <<meta, flushed, persisted>>
    /\ Reopen

(***************************************************************************)
(* The specification: an empty directory, freshly opened.                  *)
(***************************************************************************)
Init ==
  /\ disk = <<>> /\ synced = <<>>
  /\ meta = Torn
  /\ mem = Empty
  /\ health = "clean" /\ want = <<>> /\ flushed = {}
  /\ persisted = 0 /\ failures = 0

Next ==
  \/ \E t \in Term, flush \in BOOLEAN : AppendEntry(t, flush)
  \/ Persist
  \/ \E k \in 0..MaxIndex : TruncateFrom(k) \/ KillInTruncate(k)
  \/ \E i \in 1..MaxIndex : CompactLogs(i) \/ KillInCompact(i)
  \/ Kill \/ KillInAppend \/ PowerFail

Spec == Init /\ [][Next]_logVars

(***************************************************************************)
(* Properties.                                                             *)
(***************************************************************************)

\* Nothing but a power failure, a torn write, or a kill in the middle of a
\* truncation makes the log differ from what its callers asked for: it ends at
\* the same index and holds the same terms beyond the snapshot, through any
\* number of kills, truncations, rolls and compactions (Open, TruncateFrom,
\* CompactLogs and PruneCompacted on the same files).
LogAsAsked ==
  health = "clean" => /\ mem.lastIndex = Len(want)
                      /\ \A i \in (meta.index + 1)..Len(want) : GetTerm(mem, i) = want[i]

\* GetRange turns an index into a position through base_index_: the entries it
\* returns start with the one asked for and leave none out, so that what
\* ReplicateLog sends and ApplyCommittedLogsLocked applies is what the log
\* holds at these indexes.
RangesContiguous ==
  health = "clean" => \A i \in (meta.index + 1)..mem.lastIndex :
             LET r == GetRange(mem, i)
             IN /\ Len(r) = mem.lastIndex - i + 1
                /\ \A j \in 1..Len(r) : r[j].index = i + j - 1

\* Every entry beyond the base has its location in the WalIndex and its record is there,
\* after any failure: the cut of a later TruncateFrom hits a record boundary,
\* and the right one.
LocationsExact ==
  \A e \in Beyond(Range(mem.entries), mem.base) :
    /\ e.index \in DOMAIN mem.loc
    /\ LET l == mem.loc[e.index]
       IN /\ l.seg \in DOMAIN disk /\ l.off \in DOMAIN disk[l.seg]
          /\ disk[l.seg][l.off] = e

\* Append never meets a missing writer, except where it creates the first
\* segment itself.
WriterReady == mem.lastIndex > 0 => mem.open

\* Append(flush) is durable: once it has returned, neither a kill nor a power
\* failure takes the entry, as long as no record was written behind a torn one.
FlushedUnlessTorn ==
  health # "buried" => Beyond(flushed, meta.index) \subseteq Range(mem.entries)

\* The same without the condition, as the class comment has it: a torn tail is
\* ignored and costs nothing but itself.
FlushedKept == Beyond(flushed, meta.index) \subseteq Range(mem.entries)

\* What Persist returned for survives, power failure included.
PersistedKept == persisted <= mem.lastIndex

=============================================================================
