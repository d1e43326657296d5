-------------------------- MODULE SegmentLogProofs --------------------------
(***************************************************************************)
(* SegmentLog for every number of entries, segments, kills and failures:   *)
(* what a scan of the directory finds, and that what it finds is what the  *)
(* callers were promised.                                                  *)
(***************************************************************************)
EXTENDS SegmentLog, Iteration, SequenceTheorems, TLAPS

(***************************************************************************)
(* Shapes.  A place is a record's position in a segment; places are in the *)
(* order in which records are written.                                     *)
(***************************************************************************)
Record == [index : Nat, term : Nat]
Place  == [seg : Nat, off : Nat \ {0}]
Places == UNION {[D -> Place] : D \in SUBSET Nat}

Mem ==
  [base : Nat, entries : Seq(Record), lastIndex : Nat, lastTerm : Nat,
   anchor : Record, loc : Places, seg : Nat, open : BOOLEAN, buf : {<<>>}]

Before(p, q) == p.seg < q.seg \/ (p.seg = q.seg /\ p.off < q.off)

In(d, p) == p \in Place /\ p.seg \in DOMAIN d /\ p.off <= Len(d[p.seg])
At(d, p) == d[p.seg][p.off]

DiskOK(d) ==
  /\ d \in [DOMAIN d -> Seq(Record)] /\ DOMAIN d \subseteq 0..MaxSegment
  /\ \A p \in Place : In(d, p) /\ At(d, p) # Torn => At(d, p).index > 0 /\ At(d, p).term > 0

(***************************************************************************)
(* What the object says of the files, whatever happened to them: entries   *)
(* in order, each where the WalIndex has it, the WalIndex in order too and *)
(* within what is written.                                                 *)
(***************************************************************************)
Increasing(l) == \A i, j \in 1..Len(l) : i < j => l[i].index < l[j].index

Exact(d, m, e) ==
  e.index \in DOMAIN m.loc /\ In(d, m.loc[e.index]) /\ At(d, m.loc[e.index]) = e

EntriesOK(d, m) ==
  /\ Increasing(m.entries)
  /\ \A j \in 1..Len(m.entries) :
       /\ m.entries[j].index \in 1..m.lastIndex /\ m.entries[j].term > 0
       /\ m.entries[j].index > m.base => Exact(d, m, m.entries[j])

LocOK(m) ==
  /\ DOMAIN m.loc \subseteq 1..m.lastIndex
  /\ \A i, j \in DOMAIN m.loc : i < j => Before(m.loc[i], m.loc[j])

WriterOK(d, m) ==
  /\ \A s \in DOMAIN d : s <= m.seg
  /\ \A i \in DOMAIN m.loc :
       m.loc[i].seg <= m.seg /\ (m.loc[i].seg = m.seg => In(d, m.loc[i]))
  /\ m.lastIndex > 0 => m.open

MemOK(d, m) ==
  m \in Mem /\ m.seg <= MaxSegment /\ EntriesOK(d, m) /\ LocOK(m) /\ WriterOK(d, m)

StoreInv ==
  /\ DiskOK(disk) /\ MemOK(disk, mem) /\ meta \in Record
  /\ synced \in [DOMAIN disk -> Nat] /\ \A s \in DOMAIN disk : synced[s] <= Len(disk[s])
  /\ health \in {"clean", "failed", "buried"} /\ want \in Seq(Nat)
  /\ flushed \subseteq Record /\ \A r \in flushed : r.index > 0

(***************************************************************************)
(* As long as nothing was written behind a torn record: the files are in   *)
(* order and hold nothing beyond the last index, the WalIndex separates    *)
(* lower indexes from higher ones, the object has every record beyond the  *)
(* snapshot, and what was flushed is in the safe part of its file.         *)
(***************************************************************************)
Ordered(d) ==
  \A p, q \in Place : In(d, p) /\ In(d, q) /\ Before(p, q) /\ At(d, q) # Torn =>
    IF At(d, p) = Torn THEN p.seg # q.seg ELSE At(d, p).index < At(d, q).index

Complete(d, m, i) ==
  \A p \in Place : In(d, p) /\ At(d, p) # Torn =>
    /\ At(d, p).index <= m.lastIndex
    /\ At(d, p).index > i => \E j \in 1..Len(m.entries) : m.entries[j] = At(d, p)

Separates(d, m) ==
  \A i \in DOMAIN m.loc : \A p \in Place :
    In(d, p) /\ At(d, p) # Torn /\ Before(p, m.loc[i]) => At(d, p).index < i

Safely(d, safe, r) == \E p \in Place : In(d, p) /\ p.off <= safe[p.seg] /\ At(d, p) = r

DurableInv ==
  health # "buried" =>
    /\ Ordered(disk) /\ Complete(disk, mem, meta.index) /\ Separates(disk, mem)
    /\ \A r \in flushed : r.index > meta.index => Safely(disk, synced, r)

(***************************************************************************)
(* While clean: the files hold what was asked for, all of it beyond the    *)
(* snapshot and the last entry in any case; the base is the snapshot's.    *)
(***************************************************************************)
AsAsked(d, w) ==
  \A p \in Place : In(d, p) =>
    At(d, p) # Torn /\ At(d, p).index <= Len(w) /\ At(d, p).term = w[At(d, p).index]

Present(d, i) == \E p \in Place : In(d, p) /\ At(d, p).index = i

Based(m, snap) ==
  /\ m.base = snap.index /\ m.anchor = snap
  /\ IF snap.index = 0 THEN snap = Torn ELSE snap.term > 0

Contiguous(m) ==
  /\ Len(m.entries) = m.lastIndex - m.base
  /\ \A j \in 1..Len(m.entries) : m.entries[j].index = m.base + j
  /\ m.lastIndex > m.base => m.lastTerm > 0

CleanInv ==
  health = "clean" =>
    /\ AsAsked(disk, want) /\ mem.lastIndex = Len(want)
    /\ \A i \in 1..Len(want) : i > meta.index \/ i = Len(want) => Present(disk, i)
    /\ Based(mem, meta) /\ Contiguous(mem)

(***************************************************************************)
(* The scan.  m is the object before segment s.                            *)
(***************************************************************************)
Reads(d, m, s, n) ==
  \A o \in 1..n : /\ d[s][o] # Torn
                  /\ d[s][o].index > (IF o = 1 THEN m.lastIndex ELSE d[s][o - 1].index)

ScanOK(d, m, s) ==
  /\ m \in Mem /\ EntriesOK(d, m) /\ LocOK(m)
  /\ m.base = 0 /\ m.anchor = Torn /\ m.seg = 0 /\ m.open = FALSE
  /\ \A i \in DOMAIN m.loc : m.loc[i].seg < s /\ In(d, m.loc[i]) /\ At(d, m.loc[i]).index = i
  /\ m.entries = <<>> => m.lastIndex = 0
  /\ m.entries # <<>> => /\ m.lastIndex = m.entries[Len(m.entries)].index
                         /\ m.lastTerm = m.entries[Len(m.entries)].term

LEMMA MemTypes ==
  ASSUME NEW m \in Mem
  PROVE  /\ m.base \in Nat /\ m.entries \in Seq(Record) /\ m.lastIndex \in Nat
         /\ m.lastTerm \in Nat /\ m.anchor \in Record /\ m.loc \in Places
         /\ m.seg \in Nat /\ m.open \in BOOLEAN /\ m.buf = <<>>
         /\ Len(m.entries) \in Nat
  BY DEF Mem

LEMMA LocTypes ==
  ASSUME NEW l \in Places
  PROVE  DOMAIN l \subseteq Nat /\ l \in [DOMAIN l -> Place]
  BY DEF Places

LEMMA PlacesAre ==
  ASSUME NEW D \in SUBSET Nat, NEW l \in [D -> Place]
  PROVE  l \in Places
  BY DEF Places

LEMMA RecordTypes ==
  ASSUME NEW l \in Seq(Record)
  PROVE  /\ Len(l) \in Nat /\ DOMAIN l = 1..Len(l)
         /\ \A i \in 1..Len(l) : l[i] \in Record /\ l[i].index \in Nat /\ l[i].term \in Nat
<1>1. Len(l) \in Nat /\ DOMAIN l = 1..Len(l) /\ \A i \in 1..Len(l) : l[i] \in Record
  BY LenProperties, ElementOfSeq
<1>2. \A r \in Record : r.index \in Nat /\ r.term \in Nat
  BY DEF Record
<1> QED BY <1>1, <1>2

\* The scan of a segment stops at the first record it cannot read, or at the end.
LEMMA ScannedIs ==
  ASSUME NEW d, DiskOK(d), NEW s \in DOMAIN d, NEW m \in Mem
  PROVE  /\ Scanned(d, m, s) \in 0..Len(d[s])
         /\ Reads(d, m, s, Scanned(d, m, s))
         /\ \/ Scanned(d, m, s) = Len(d[s])
            \/ ~Reads(d, m, s, Scanned(d, m, s) + 1)
<1> DEFINE L == Len(d[s])
           good(n) == Reads(d, m, s, n) /\ (n = L \/ ~Reads(d, m, s, n + 1))
<1>1. L \in Nat
  BY DEF DiskOK
<1>2. \E n \in 0..L : good(n)
  <2>1. CASE Reads(d, m, s, L)
    BY <1>1, <2>1
  <2>2. CASE ~Reads(d, m, s, L)
    <3> DEFINE B == {n \in 0..L : ~Reads(d, m, s, n)}
    <3>1. PICK b \in B : \A x \in B : b <= x
      <4>1. B \in SUBSET Nat /\ B # {}
        BY <1>1, <2>2
      <4> HIDE DEF B
      <4> QED BY <4>1, LeastNumber
    <3>2. Reads(d, m, s, 0)
      BY DEF Reads
    <3>3. b \in 1..L /\ b - 1 \in 0..L /\ b - 1 + 1 = b
      BY <1>1, <3>2
    <3>4. Reads(d, m, s, b - 1)
      BY <1>1, <3>1, <3>3
    <3> QED BY <3>1, <3>3, <3>4
  <2> QED BY <2>1, <2>2
<1>3. Scanned(d, m, s) = CHOOSE n \in 0..L : good(n)
  BY DEF Scanned, Reads
<1> HIDE DEF good
<1>4. Scanned(d, m, s) \in 0..L /\ good(Scanned(d, m, s))
  BY <1>2, <1>3
<1> QED BY <1>4 DEF good

\* The records read are above what was there and in order.
LEMMA ReadsIncrease ==
  ASSUME NEW d, DiskOK(d), NEW s \in DOMAIN d, NEW m \in Mem,
         NEW n \in 0..Len(d[s]), Reads(d, m, s, n)
  PROVE  /\ \A o \in 1..n : d[s][o] # Torn /\ d[s][o].index > m.lastIndex
         /\ \A o, p \in 1..n : o < p => d[s][o].index < d[s][p].index
<1>1. Len(d[s]) \in Nat /\ m.lastIndex \in Nat /\ \A o \in 1..Len(d[s]) : d[s][o].index \in Nat
  <2>1. d[s] \in Seq(Record)
    BY DEF DiskOK
  <2> QED BY <2>1, MemTypes, RecordTypes
<1> DEFINE S == {p \in Nat : p \in 1..n =>
                   /\ d[s][p].index > m.lastIndex
                   /\ \A o \in 1..(p - 1) : d[s][o].index < d[s][p].index}
<1>2. 0 \in S
  OBVIOUS
<1>3. ASSUME NEW p \in Nat, p \in S PROVE p + 1 \in S
  <2> SUFFICES ASSUME p + 1 \in 1..n
               PROVE  /\ d[s][p + 1].index > m.lastIndex
                      /\ \A o \in 1..(p + 1 - 1) : d[s][o].index < d[s][p + 1].index
    OBVIOUS
  <2>1. d[s][p + 1].index > (IF p + 1 = 1 THEN m.lastIndex ELSE d[s][p + 1 - 1].index)
    BY DEF Reads
  <2>2. CASE p = 0
    BY <1>1, <2>1, <2>2
  <2>3. CASE p # 0
    <3>1. p \in 1..n /\ p + 1 - 1 = p /\ p + 1 # 1
      BY <1>1, <2>3
    <3>2. d[s][p + 1].index > d[s][p].index
      BY <2>1, <3>1
    <3>3. d[s][p].index > m.lastIndex /\ \A o \in 1..(p - 1) : d[s][o].index < d[s][p].index
      BY <1>3, <3>1
    <3>4. p \in 1..Len(d[s]) /\ p + 1 \in 1..Len(d[s])
      BY <1>1, <3>1
    <3>5. ASSUME NEW o \in 1..(p + 1 - 1) PROVE d[s][o].index < d[s][p + 1].index
      <4>1. o \in 1..(p - 1) \/ o = p
        BY <3>1
      <4>2. o \in 1..Len(d[s])
        BY <1>1, <3>1
      <4> QED BY <1>1, <3>2, <3>3, <3>4, <4>1, <4>2
    <3>6. d[s][p + 1].index > m.lastIndex
      BY <1>1, <3>2, <3>3, <3>4
    <3> QED BY <3>5, <3>6
  <2> QED BY <2>2, <2>3
<1>4. \A p \in Nat : p \in S
  <2> HIDE DEF S
  <2> QED BY <1>2, <1>3, SetInduction
<1>5. \A p \in 1..n : /\ d[s][p].index > m.lastIndex
                      /\ \A o \in 1..(p - 1) : d[s][o].index < d[s][p].index
  BY <1>4
<1>6. \A o \in 1..n : d[s][o] # Torn
  BY DEF Reads
<1>7. ASSUME NEW o \in 1..n, NEW p \in 1..n, o < p PROVE d[s][o].index < d[s][p].index
  <2>1. o \in 1..(p - 1)
    BY <1>7
  <2> QED BY <1>5, <2>1
<1> QED BY <1>5, <1>6, <1>7

LEMMA PrefixIs ==
  ASSUME NEW l \in Seq(Record), NEW n \in 0..Len(l)
  PROVE  /\ Prefix(l, n) \in Seq(Record) /\ Len(Prefix(l, n)) = n
         /\ \A i \in 1..n : Prefix(l, n)[i] = l[i]
<1>1. Len(l) \in Nat
  BY RecordTypes
<1> QED BY <1>1, SubSeqProperties DEF Prefix

\* The index of a segment gives each record that was read its own place.
LEMMA LocatedIs ==
  ASSUME NEW r \in Seq(Record), Increasing(r), NEW s \in Nat
  PROVE  /\ Located(r, s) \in Places
         /\ DOMAIN Located(r, s) = {r[o].index : o \in 1..Len(r)}
         /\ \A o \in 1..Len(r) : Located(r, s)[r[o].index] = [seg |-> s, off |-> o]
<1> DEFINE D == {r[o].index : o \in 1..Len(r)}
           off(i) == CHOOSE o \in 1..Len(r) : r[o].index = i
<1>1. Len(r) \in Nat /\ DOMAIN r = 1..Len(r) /\ \A o \in 1..Len(r) : r[o].index \in Nat
  BY RecordTypes
<1>2. {e.index : e \in Range(r)} = D
  BY <1>1 DEF Range
<1>3. Located(r, s) = [i \in D |-> [seg |-> s, off |-> off(i)]]
  BY <1>2 DEF Located
<1>4. \A o \in 1..Len(r) : off(r[o].index) = o
  <2> TAKE o \in 1..Len(r)
  <2>1. off(r[o].index) \in 1..Len(r) /\ r[off(r[o].index)].index = r[o].index
    OBVIOUS
  <2>2. PICK p : p = off(r[o].index)
    OBVIOUS
  <2>3. p \in 1..Len(r) /\ r[p].index = r[o].index
    BY <2>1, <2>2
  <2>4. ~(p < o) /\ ~(o < p)
    BY <1>1, <2>3 DEF Increasing
  <2>5. p = o
    BY <1>1, <2>3, <2>4
  <2> QED BY <2>2, <2>5
<1>5. \A i \in D : off(i) \in 1..Len(r)
  OBVIOUS
<1> HIDE DEF off
<1>6. D \in SUBSET Nat
  BY <1>1
<1>7. \A i \in D : [seg |-> s, off |-> off(i)] \in Place
  BY <1>1, <1>5 DEF Place
<1> HIDE DEF D
<1>8. Located(r, s) \in [D -> Place]
  BY <1>3, <1>7
<1>9. Located(r, s) \in Places
  BY <1>6, <1>8, PlacesAre
<1>10. ASSUME NEW o \in 1..Len(r) PROVE Located(r, s)[r[o].index] = [seg |-> s, off |-> o]
  <2>1. r[o].index \in D
    BY DEF D
  <2> QED BY <1>3, <1>4, <2>1
<1>11. DOMAIN Located(r, s) = D
  BY <1>3
<1> QED BY <1>9, <1>10, <1>11 DEF D

\* Later segments override the places of earlier ones.
LEMMA Overlay ==
  ASSUME NEW f \in Places, NEW g \in Places
  PROVE  /\ Over(f, g) \in Places /\ DOMAIN Over(f, g) = DOMAIN f \cup DOMAIN g
         /\ \A i \in DOMAIN f : Over(f, g)[i] = f[i]
         /\ \A i \in DOMAIN g : i \notin DOMAIN f => Over(f, g)[i] = g[i]
<1> DEFINE D == DOMAIN f \cup DOMAIN g
<1>1. Over(f, g) = [i \in D |-> IF i \in DOMAIN f THEN f[i] ELSE g[i]]
  BY DEF Over
<1>2. D \in SUBSET Nat /\ f \in [DOMAIN f -> Place] /\ g \in [DOMAIN g -> Place]
  BY LocTypes
<1>3. Over(f, g) \in [D -> Place]
  BY <1>1, <1>2
<1>4. Over(f, g) \in Places
  BY <1>2, <1>3, PlacesAre
<1> QED BY <1>1, <1>4

\* The object with other entries and locations.
With(m, e, l, i, t) == [m EXCEPT !.entries = e, !.loc = l, !.lastIndex = i, !.lastTerm = t]

LEMMA MemWith ==
  ASSUME NEW m \in Mem, NEW e \in Seq(Record), NEW l \in Places, NEW i \in Nat, NEW t \in Nat,
         NEW x, x = With(m, e, l, i, t)
  PROVE  /\ x \in Mem /\ x.entries = e /\ x.loc = l /\ x.lastIndex = i /\ x.lastTerm = t
         /\ x.base = m.base /\ x.anchor = m.anchor /\ x.seg = m.seg /\ x.open = m.open
  BY DEF Mem, With

LEMMA ConcatIs ==
  ASSUME NEW e \in Seq(Record), NEW r \in Seq(Record)
  PROVE  /\ e \o r \in Seq(Record) /\ Len(e \o r) = Len(e) + Len(r)
         /\ \A j \in 1..Len(e) : (e \o r)[j] = e[j]
         /\ \A j \in 1..Len(r) : (e \o r)[Len(e) + j] = r[j]
         /\ \A j \in 1..(Len(e) + Len(r)) : j \in 1..Len(e) \/ (j - Len(e) \in 1..Len(r) /\ Len(e) + (j - Len(e)) = j)
<1>1. Len(e) \in Nat /\ Len(r) \in Nat
  BY RecordTypes
<1> QED BY <1>1, ConcatProperties

\* One segment.
LEMMA ScanStep ==
  ASSUME NEW d, DiskOK(d), NEW s \in DOMAIN d, NEW m, ScanOK(d, m, s)
  PROVE  /\ ScanOK(d, ScanSegment(d, m, s), s + 1)
         /\ Len(ScanSegment(d, m, s).entries) = Len(m.entries) + Scanned(d, m, s)
         /\ \A j \in 1..Len(m.entries) : ScanSegment(d, m, s).entries[j] = m.entries[j]
         /\ \A o \in 1..Scanned(d, m, s) :
              ScanSegment(d, m, s).entries[Len(m.entries) + o] = d[s][o]
<1>1. m \in Mem /\ EntriesOK(d, m) /\ LocOK(m)
  BY DEF ScanOK
<1>2. /\ m.entries \in Seq(Record) /\ m.lastIndex \in Nat /\ m.lastTerm \in Nat /\ m.loc \in Places
      /\ Len(m.entries) \in Nat /\ m.base = 0
      /\ \A j \in 1..Len(m.entries) : m.entries[j] \in Record /\ m.entries[j].index \in Nat
  BY <1>1, MemTypes, RecordTypes DEF ScanOK
<1>3. s \in Nat /\ d[s] \in Seq(Record) /\ Len(d[s]) \in Nat
  BY RecordTypes DEF DiskOK
<1>4. PICK n : n = Scanned(d, m, s)
  OBVIOUS
<1>5. n \in 0..Len(d[s]) /\ Reads(d, m, s, n)
  BY <1>1, <1>4, ScannedIs
<1>6. PICK r : r = Prefix(d[s], n)
  OBVIOUS
<1>7. r \in Seq(Record) /\ Len(r) = n /\ n \in Nat /\ \A o \in 1..n : r[o] = d[s][o]
  <2>1. PICK z : z = d[s]
    OBVIOUS
  <2>2. z \in Seq(Record) /\ n \in 0..Len(z) /\ r = Prefix(z, n)
    BY <1>3, <1>5, <1>6, <2>1
  <2>3. r \in Seq(Record) /\ Len(r) = n /\ \A o \in 1..n : r[o] = z[o]
    BY <2>2, PrefixIs
  <2>4. n \in Nat
    BY <1>3, <1>5
  <2> QED BY <2>1, <2>3, <2>4
<1>8. \A o \in 1..n : /\ r[o] \in Record /\ r[o].index \in Nat /\ r[o].term \in Nat
                      /\ r[o].index > m.lastIndex
                      /\ r[o].index > 0 /\ r[o].term > 0
  <2> TAKE o \in 1..n
  <2>1. r[o] \in Record /\ r[o].index \in Nat /\ r[o].term \in Nat
    BY <1>7, RecordTypes
  <2>2. r[o] # Torn /\ r[o].index > m.lastIndex
    BY <1>1, <1>5, <1>7, ReadsIncrease
  <2>3. [seg |-> s, off |-> o] \in Place /\ In(d, [seg |-> s, off |-> o]) /\ At(d, [seg |-> s, off |-> o]) = r[o]
    BY <1>3, <1>5, <1>7 DEF Place, In, At
  <2>4. r[o].index > 0 /\ r[o].term > 0
    BY <2>2, <2>3 DEF DiskOK
  <2> QED BY <2>1, <2>2, <2>4
<1>9. \A o, p \in 1..n : o < p => r[o].index < r[p].index
  BY <1>1, <1>5, <1>7, ReadsIncrease
<1>10. Increasing(r)
  BY <1>7, <1>9 DEF Increasing
<1>11. PICK f : f = Located(r, s)
  OBVIOUS
<1>12. /\ f \in Places /\ DOMAIN f = {r[o].index : o \in 1..n}
       /\ \A o \in 1..n : f[r[o].index] = [seg |-> s, off |-> o]
  <2>1. r \in Seq(Record) /\ s \in Nat /\ Increasing(r)
    BY <1>3, <1>7, <1>10
  <2>2. /\ f \in Places /\ DOMAIN f = {r[o].index : o \in 1..Len(r)}
        /\ \A o \in 1..Len(r) : f[r[o].index] = [seg |-> s, off |-> o]
    BY <1>11, <2>1, LocatedIs
  <2> QED BY <1>7, <2>2
<1>13. PICK l : l = Over(f, m.loc)
  OBVIOUS
<1>14. /\ l \in Places /\ DOMAIN l = DOMAIN f \cup DOMAIN m.loc
       /\ \A o \in 1..n : r[o].index \in DOMAIN l /\ l[r[o].index] = [seg |-> s, off |-> o]
       /\ \A i \in DOMAIN m.loc : l[i] = m.loc[i] /\ i \in 1..m.lastIndex
  <2>1. /\ l \in Places /\ DOMAIN l = DOMAIN f \cup DOMAIN m.loc
        /\ \A i \in DOMAIN f : l[i] = f[i]
        /\ \A i \in DOMAIN m.loc : i \notin DOMAIN f => l[i] = m.loc[i]
    <3>1. PICK g : g = m.loc
      OBVIOUS
    <3>2. f \in Places /\ g \in Places /\ l = Over(f, g)
      BY <1>2, <1>12, <1>13, <3>1
    <3>3. /\ l \in Places /\ DOMAIN l = DOMAIN f \cup DOMAIN g
          /\ \A i \in DOMAIN f : l[i] = f[i]
          /\ \A i \in DOMAIN g : i \notin DOMAIN f => l[i] = g[i]
      BY <3>2, Overlay
    <3> QED BY <3>1, <3>3
  <2>2. \A i \in DOMAIN m.loc : i \in 1..m.lastIndex /\ i \notin DOMAIN f
    BY <1>1, <1>2, <1>8, <1>12 DEF LocOK
  <2> QED BY <1>12, <2>1, <2>2
<1>15. PICK e : e = m.entries \o r
  OBVIOUS
<1>16. /\ e \in Seq(Record) /\ Len(e) = Len(m.entries) + n
       /\ \A j \in 1..Len(m.entries) : e[j] = m.entries[j]
       /\ \A j \in 1..n : e[Len(m.entries) + j] = r[j]
       /\ \A j \in 1..Len(e) : j \in 1..Len(m.entries) \/ (j - Len(m.entries) \in 1..n /\ Len(m.entries) + (j - Len(m.entries)) = j)
  <2>1. PICK g : g = m.entries
    OBVIOUS
  <2>2. g \in Seq(Record) /\ r \in Seq(Record) /\ e = g \o r
    BY <1>2, <1>7, <1>15, <2>1
  <2>3. /\ e \in Seq(Record) /\ Len(e) = Len(g) + Len(r)
        /\ \A j \in 1..Len(g) : e[j] = g[j]
        /\ \A j \in 1..Len(r) : e[Len(g) + j] = r[j]
        /\ \A j \in 1..(Len(g) + Len(r)) : j \in 1..Len(g) \/ (j - Len(g) \in 1..Len(r) /\ Len(g) + (j - Len(g)) = j)
    BY <2>2, ConcatIs
  <2> QED BY <1>7, <2>1, <2>3
<1>17. PICK i : i = IF n = 0 THEN m.lastIndex ELSE r[n].index
  OBVIOUS
<1>18. PICK t : t = IF n = 0 THEN m.lastTerm ELSE r[n].term
  OBVIOUS
<1>19. /\ i \in Nat /\ t \in Nat /\ i >= m.lastIndex
       /\ \A o \in 1..n : r[o].index <= i
  <2>1. CASE n = 0
    BY <1>2, <1>17, <1>18, <2>1
  <2>2. CASE n # 0
    <3>1. n \in 1..n
      BY <1>7, <2>2
    <3>2. \A o \in 1..n : o = n \/ o < n
      BY <1>7
    <3> QED BY <1>2, <1>8, <1>9, <1>17, <1>18, <2>2, <3>1, <3>2
  <2> QED BY <2>1, <2>2
<1>20. PICK x : x = ScanSegment(d, m, s)
  OBVIOUS
<1>21. x = With(m, e, l, i, t)
  BY <1>4, <1>6, <1>11, <1>13, <1>15, <1>17, <1>18, <1>20 DEF ScanSegment, With
<1>22. /\ x \in Mem /\ x.entries = e /\ x.loc = l /\ x.lastIndex = i /\ x.lastTerm = t
       /\ x.base = m.base /\ x.anchor = m.anchor /\ x.seg = m.seg /\ x.open = m.open
  <2>1. m \in Mem /\ e \in Seq(Record) /\ l \in Places /\ i \in Nat /\ t \in Nat
    BY <1>1, <1>14, <1>16, <1>19
  <2> QED BY <1>21, <2>1, MemWith
<1>23. Increasing(e)
  <2> SUFFICES ASSUME NEW j \in 1..Len(e), NEW k \in 1..Len(e), j < k
               PROVE  e[j].index < e[k].index
    BY DEF Increasing
  <2>1. CASE k \in 1..Len(m.entries)
    <3>1. j \in 1..Len(m.entries)
      BY <1>2, <2>1
    <3> QED BY <1>1, <1>16, <2>1, <3>1 DEF EntriesOK, Increasing
  <2>2. CASE j \in 1..Len(m.entries) /\ k \notin 1..Len(m.entries)
    <3>1. PICK o \in 1..n : e[k] = r[o]
      BY <1>16, <2>2
    <3>2. e[j].index <= m.lastIndex /\ e[j].index \in Nat
      <4>1. m.entries[j].index \in 1..m.lastIndex
        BY <1>1, <2>2 DEF EntriesOK
      <4>2. e[j] = m.entries[j]
        BY <1>16, <2>2
      <4> QED BY <1>2, <4>1, <4>2
    <3> QED BY <1>2, <1>8, <3>1, <3>2
  <2>3. CASE j \notin 1..Len(m.entries)
    <3>1. PICK o \in 1..n : o = j - Len(m.entries) /\ e[j] = r[o]
      BY <1>16, <2>3
    <3>2. k \notin 1..Len(m.entries)
      BY <1>2, <1>16, <2>3
    <3>3. PICK p \in 1..n : p = k - Len(m.entries) /\ e[k] = r[p]
      BY <1>16, <3>2
    <3>4. o < p
      BY <1>2, <1>7, <3>1, <3>3
    <3> QED BY <1>9, <3>1, <3>3, <3>4
  <2> QED BY <2>1, <2>2, <2>3
<1>24. ASSUME NEW j \in 1..Len(e)
       PROVE  e[j].index \in 1..i /\ e[j].term > 0 /\ Exact(d, x, e[j])
  <2>1. CASE j \in 1..Len(m.entries)
    <3>1. e[j] = m.entries[j]
      BY <1>16, <2>1
    <3>2. m.entries[j].index \in 1..m.lastIndex /\ m.entries[j].term > 0 /\ Exact(d, m, m.entries[j])
      BY <1>1, <1>2, <2>1 DEF EntriesOK
    <3>3. Exact(d, x, e[j])
      BY <1>14, <1>22, <3>1, <3>2 DEF Exact
    <3> QED BY <1>2, <1>19, <3>1, <3>2, <3>3
  <2>2. CASE j \notin 1..Len(m.entries)
    <3>1. PICK o \in 1..n : e[j] = r[o]
      BY <1>16, <2>2
    <3>2. [seg |-> s, off |-> o] \in Place /\ In(d, [seg |-> s, off |-> o]) /\ At(d, [seg |-> s, off |-> o]) = r[o]
      BY <1>3, <1>5, <1>7 DEF Place, In, At
    <3>3. Exact(d, x, e[j])
      BY <1>14, <1>22, <3>1, <3>2 DEF Exact
    <3> QED BY <1>8, <1>19, <3>1, <3>3
  <2> QED BY <2>1, <2>2
<1>25. EntriesOK(d, x)
  BY <1>22, <1>23, <1>24 DEF EntriesOK
<1>26. ASSUME NEW j \in DOMAIN l
       PROVE  /\ j \in 1..i /\ l[j].seg < s + 1 /\ In(d, l[j]) /\ At(d, l[j]).index = j
              /\ (j \in DOMAIN m.loc /\ l[j] = m.loc[j] /\ j <= m.lastIndex /\ l[j].seg < s)
                   \/ \E o \in 1..n : j = r[o].index /\ l[j] = [seg |-> s, off |-> o]
  <2>1. CASE j \in DOMAIN m.loc
    <3>1. /\ m.loc[j].seg < s /\ In(d, m.loc[j]) /\ m.loc[j].seg \in Nat
          /\ At(d, m.loc[j]).index = j
      <4>1. m.loc[j] \in Place
        BY <1>2, <2>1, LocTypes
      <4> QED BY <2>1, <4>1 DEF ScanOK, Place
    <3> QED BY <1>2, <1>3, <1>14, <1>19, <2>1, <3>1
  <2>2. CASE j \notin DOMAIN m.loc
    <3>1. PICK o \in 1..n : j = r[o].index
      BY <1>12, <1>14, <2>2
    <3>2. l[j] = [seg |-> s, off |-> o]
      BY <1>14, <3>1
    <3>3. [seg |-> s, off |-> o] \in Place /\ In(d, [seg |-> s, off |-> o]) /\ At(d, [seg |-> s, off |-> o]) = r[o]
      BY <1>3, <1>5, <1>7 DEF Place, In, At
    <3> QED BY <1>3, <1>8, <1>19, <3>1, <3>2, <3>3
  <2> QED BY <2>1, <2>2
<1>27. LocOK(x)
  <2>1. ASSUME NEW j \in DOMAIN l, NEW k \in DOMAIN l, j < k
        PROVE  Before(l[j], l[k])
    <3>1. CASE k \in DOMAIN m.loc
      <4>1. k <= m.lastIndex /\ j \in Nat /\ k \in Nat
        BY <1>2, <1>14, <1>26, <3>1
      <4>2. j \in DOMAIN m.loc
        <5>1. \A o \in 1..n : j # r[o].index
          BY <1>2, <1>8, <2>1, <4>1
        <5> QED BY <1>26, <5>1
      <4> QED BY <1>1, <1>14, <2>1, <3>1, <4>2 DEF LocOK
    <3>2. CASE k \notin DOMAIN m.loc /\ j \in DOMAIN m.loc
      <4>1. l[k].seg = s
        BY <1>26, <3>2
      <4>2. l[j].seg < s
        BY <1>14, <3>2 DEF ScanOK
      <4> QED BY <4>1, <4>2 DEF Before
    <3>3. CASE k \notin DOMAIN m.loc /\ j \notin DOMAIN m.loc
      <4>1. PICK o \in 1..n : j = r[o].index /\ l[j] = [seg |-> s, off |-> o]
        BY <1>26, <3>3
      <4>2. PICK p \in 1..n : k = r[p].index /\ l[k] = [seg |-> s, off |-> p]
        BY <1>26, <3>3
      <4>3. o < p
        <5>1. ~(p < o) /\ p # o
          BY <1>8, <1>9, <2>1, <4>1, <4>2
        <5> QED BY <1>7, <5>1
      <4> QED BY <4>1, <4>2, <4>3 DEF Before
    <3> QED BY <3>1, <3>2, <3>3
  <2> QED BY <1>22, <1>26, <2>1 DEF LocOK
<1>28. /\ e = <<>> => i = 0
       /\ e # <<>> => i = e[Len(e)].index /\ t = e[Len(e)].term
  <2>1. CASE n = 0
    <3>1. Len(e) = Len(m.entries) /\ \A j \in 1..Len(e) : e[j] = m.entries[j]
      BY <1>2, <1>16, <2>1
    <3>2. e = m.entries
      BY <1>2, <1>16, <3>1, SeqEqual
    <3> QED BY <1>17, <1>18, <2>1, <3>2 DEF ScanOK
  <2>2. CASE n # 0
    <3>1. n \in 1..n /\ e[Len(e)] = r[n] /\ Len(e) # 0
      BY <1>2, <1>7, <1>16, <2>2
    <3>2. e # <<>>
      BY <3>1
    <3> QED BY <1>17, <1>18, <2>2, <3>1, <3>2
  <2> QED BY <2>1, <2>2
<1>29. \A j \in DOMAIN x.loc : x.loc[j].seg < s + 1 /\ In(d, x.loc[j]) /\ At(d, x.loc[j]).index = j
  BY <1>22, <1>26
<1>30. m.base = 0 /\ m.anchor = Torn /\ m.seg = 0 /\ m.open = FALSE
  BY DEF ScanOK
<1>31. ScanOK(d, x, s + 1)
  BY <1>22, <1>25, <1>27, <1>28, <1>29, <1>30 DEF ScanOK
<1>32. /\ Len(x.entries) = Len(m.entries) + n
       /\ \A j \in 1..Len(m.entries) : x.entries[j] = m.entries[j]
       /\ \A o \in 1..n : x.entries[Len(m.entries) + o] = d[s][o]
  BY <1>7, <1>16, <1>22
<1> QED BY <1>4, <1>20, <1>31, <1>32

\* Every record in the segments before s is among the entries.
Found(d, m, s) ==
  \A p \in Place : In(d, p) /\ p.seg < s /\ At(d, p) # Torn =>
    \E j \in 1..Len(m.entries) : m.entries[j] = At(d, p)

\* Files in order are read to the last record.
LEMMA ScanFinds ==
  ASSUME NEW d, DiskOK(d), Ordered(d), NEW s \in DOMAIN d, NEW m, ScanOK(d, m, s), Found(d, m, s)
  PROVE  Found(d, ScanSegment(d, m, s), s + 1)
<1>1. m \in Mem /\ EntriesOK(d, m) /\ m.base = 0
  BY DEF ScanOK
<1>2. m.lastIndex \in Nat /\ Len(m.entries) \in Nat
  BY <1>1, MemTypes
<1>3. s \in Nat /\ d[s] \in Seq(Record) /\ Len(d[s]) \in Nat
      /\ \A o \in 1..Len(d[s]) : d[s][o].index \in Nat
  BY RecordTypes DEF DiskOK
<1>4. PICK n : n = Scanned(d, m, s)
  OBVIOUS
<1>5. n \in 0..Len(d[s]) /\ (n = Len(d[s]) \/ ~Reads(d, m, s, n + 1))
  BY <1>1, <1>4, ScannedIs
<1>6. PICK x : x = ScanSegment(d, m, s)
  OBVIOUS
<1>7. /\ Len(x.entries) = Len(m.entries) + n
      /\ \A j \in 1..Len(m.entries) : x.entries[j] = m.entries[j]
      /\ \A o \in 1..n : x.entries[Len(m.entries) + o] = d[s][o]
  BY <1>4, <1>6, ScanStep
<1>8. ASSUME NEW p \in Place, In(d, p), p.seg = s, At(d, p) # Torn
      PROVE  p.off \in 1..n
  <2>1. PICK o : o = p.off
    OBVIOUS
  <2>2. o \in 1..Len(d[s]) /\ d[s][o] # Torn
    BY <1>3, <1>8, <2>1 DEF In, At, Place
  <2>3. ASSUME NEW q \in 1..o PROVE d[s][q] # Torn /\ d[s][q].index > 0
    <3>1. PICK z : z = [seg |-> s, off |-> q]
      OBVIOUS
    <3>2. z \in Place /\ In(d, z) /\ At(d, z) = d[s][q] /\ z.seg = s /\ z.off = q
      BY <1>3, <2>2, <3>1 DEF In, At, Place
    <3>3. CASE q = o
      BY <2>1, <2>2, <3>2, <3>3 DEF DiskOK
    <3>4. CASE q # o
      <4>1. Before(z, p)
        BY <1>8, <2>1, <2>2, <3>2, <3>4 DEF Before
      <4>2. At(d, z) # Torn
        BY <1>8, <3>2, <4>1 DEF Ordered
      <4> QED BY <3>2, <4>2 DEF DiskOK
    <3> QED BY <3>3, <3>4
  <2>4. ASSUME NEW q \in 1..o, q # 1 PROVE d[s][q].index > d[s][q - 1].index
    <3>1. PICK z : z = [seg |-> s, off |-> q]
      OBVIOUS
    <3>2. PICK y : y = [seg |-> s, off |-> q - 1]
      OBVIOUS
    <3>3. q - 1 \in 1..o
      BY <2>2, <2>4
    <3>4. /\ z \in Place /\ In(d, z) /\ At(d, z) = d[s][q] /\ z.seg = s /\ z.off = q
          /\ y \in Place /\ In(d, y) /\ At(d, y) = d[s][q - 1] /\ y.seg = s /\ y.off = q - 1
      BY <1>3, <2>2, <3>1, <3>2, <3>3 DEF In, At, Place
    <3>5. Before(y, z)
      BY <2>2, <3>4 DEF Before
    <3>6. At(d, y) # Torn /\ At(d, z) # Torn
      BY <2>3, <3>3, <3>4
    <3>7. At(d, y).index < At(d, z).index
      BY <3>4, <3>5, <3>6 DEF Ordered
    <3>8. q \in 1..Len(d[s]) /\ q - 1 \in 1..Len(d[s])
      BY <1>3, <2>2, <3>3
    <3> QED BY <1>3, <3>4, <3>7, <3>8
  <2>5. d[s][1].index > m.lastIndex
    <3>1. 1 \in 1..o /\ 1 \in 1..Len(d[s])
      BY <1>3, <2>2
    <3>2. CASE m.entries = <<>>
      BY <2>3, <3>1, <3>2 DEF ScanOK
    <3>3. CASE m.entries # <<>>
      <4>1. PICK e : e = m.entries[Len(m.entries)]
        OBVIOUS
      <4>2. Len(m.entries) \in 1..Len(m.entries)
        <5>1. m.entries \in Seq(Record)
          BY <1>1, MemTypes
        <5> QED BY <1>2, <3>3, <5>1, EmptySeq
      <4>3. m.lastIndex = e.index
        BY <3>3, <4>1 DEF ScanOK
      <4>4. e.index \in 1..m.lastIndex /\ Exact(d, m, e)
        BY <1>1, <4>1, <4>2 DEF EntriesOK
      <4>5. PICK y : y = m.loc[e.index]
        OBVIOUS
      <4>6. In(d, y) /\ At(d, y) = e /\ y.seg < s /\ y \in Place
        BY <4>4, <4>5 DEF Exact, ScanOK, In
      <4>7. PICK z : z = [seg |-> s, off |-> 1]
        OBVIOUS
      <4>8. z \in Place /\ In(d, z) /\ At(d, z) = d[s][1] /\ z.seg = s
        BY <1>3, <3>1, <4>7 DEF In, At, Place
      <4>9. Before(y, z)
        BY <4>6, <4>8 DEF Before
      <4>10. At(d, y) # Torn /\ At(d, z) # Torn
        <5>1. e.index # 0
          BY <1>2, <4>4
        <5> QED BY <2>3, <3>1, <4>6, <4>8, <5>1 DEF Torn
      <4>11. At(d, y).index < At(d, z).index
        BY <4>6, <4>8, <4>9, <4>10 DEF Ordered
      <4> QED BY <1>2, <1>3, <3>1, <4>3, <4>6, <4>8, <4>11
    <3> QED BY <3>2, <3>3
  <2>6. Reads(d, m, s, o)
    BY <2>3, <2>4, <2>5 DEF Reads
  <2>7. n + 1 \in 1..o => Reads(d, m, s, n + 1)
    BY <2>2, <2>6 DEF Reads
  <2>8. o <= n
    BY <1>3, <1>5, <2>2, <2>7
  <2> QED BY <1>3, <1>5, <2>1, <2>2, <2>8
<1>9. ASSUME NEW p \in Place, In(d, p), p.seg < s + 1, At(d, p) # Torn
      PROVE  \E j \in 1..Len(x.entries) : x.entries[j] = At(d, p)
  <2>1. CASE p.seg < s
    <3>1. PICK j \in 1..Len(m.entries) : m.entries[j] = At(d, p)
      BY <1>9, <2>1 DEF Found
    <3>2. j \in 1..Len(x.entries)
      BY <1>2, <1>5, <1>7
    <3> QED BY <1>7, <3>1, <3>2
  <2>2. CASE p.seg = s
    <3>1. p.off \in 1..n
      BY <1>8, <1>9, <2>2
    <3>2. Len(m.entries) + p.off \in 1..Len(x.entries)
      BY <1>2, <1>5, <1>7, <3>1
    <3>3. x.entries[Len(m.entries) + p.off] = At(d, p)
      BY <1>7, <2>2, <3>1 DEF At
    <3> QED BY <3>2, <3>3
  <2>3. p.seg < s \/ p.seg = s
    BY <1>3, <1>9 DEF Place
  <2> QED BY <2>1, <2>2, <2>3
<1> QED BY <1>6, <1>9 DEF Found

\* h is what LoadSegments computes: the object before every segment.
Scans(d, h) ==
  h = [s \in Nat |-> IF s = 0 THEN Empty
                     ELSE IF s - 1 \in DOMAIN d THEN ScanSegment(d, h[s - 1], s - 1)
                     ELSE h[s - 1]]

LEMMA EmptyScanned ==
  ASSUME NEW d, DiskOK(d)
  PROVE  Empty \in Mem /\ ScanOK(d, Empty, 0) /\ Found(d, Empty, 0)
<1>1. <<>> \in Seq(Record) /\ Torn \in Record
  BY DEF Record, Torn
<1>2. <<>> \in Places /\ DOMAIN <<>> = {}
  <2>1. DOMAIN <<>> = {} /\ <<>> \in [{} -> Place]
    OBVIOUS
  <2> QED BY <2>1, PlacesAre
<1>3. PICK m : m = Empty
  OBVIOUS
<1>4. /\ m.base = 0 /\ m.entries = <<>> /\ m.lastIndex = 0 /\ m.lastTerm = 0 /\ m.anchor = Torn
      /\ m.loc = <<>> /\ m.seg = 0 /\ m.open = FALSE /\ m.buf = <<>>
  BY <1>3 DEF Empty
<1>5. m \in Mem
  <2> HIDE DEF Torn
  <2> QED BY <1>1, <1>2, <1>3 DEF Empty, Mem
<1>6. EntriesOK(d, m) /\ LocOK(m)
  BY <1>2, <1>4 DEF EntriesOK, LocOK, Increasing
<1>7. ScanOK(d, m, 0)
  BY <1>2, <1>4, <1>5, <1>6 DEF ScanOK
<1>8. Found(d, m, 0)
  BY DEF Found, Place
<1> QED BY <1>3, <1>5, <1>7, <1>8

\* By induction on the segment ids: what the scan has found before segment i
\* is on disk, and all of it when the files are in order.
LEMMA ScansOK ==
  ASSUME NEW d, DiskOK(d), NEW h, Scans(d, h), NEW i \in Nat
  PROVE  ScanOK(d, h[i], i) /\ (Ordered(d) => Found(d, h[i], i))
<1> DEFINE S == {s \in Nat : ScanOK(d, h[s], s) /\ (Ordered(d) => Found(d, h[s], s))}
<1>1. 0 \in S
  <2>1. h[0] = Empty
    BY DEF Scans
  <2> QED BY <2>1, EmptyScanned
<1>2. ASSUME NEW s \in Nat, s \in S PROVE s + 1 \in S
  <2>1. ScanOK(d, h[s], s) /\ (Ordered(d) => Found(d, h[s], s))
    BY <1>2
  <2>2. h[s + 1] = IF s \in DOMAIN d THEN ScanSegment(d, h[s], s) ELSE h[s]
    <3>1. s + 1 \in Nat /\ s + 1 # 0 /\ s + 1 - 1 = s
      OBVIOUS
    <3> QED BY <3>1 DEF Scans
  <2>3. PICK m : m = h[s]
    OBVIOUS
  <2>4. CASE s \in DOMAIN d
    <3>1. ScanOK(d, ScanSegment(d, m, s), s + 1)
      BY <2>1, <2>3, <2>4, ScanStep
    <3>2. Ordered(d) => Found(d, ScanSegment(d, m, s), s + 1)
      BY <2>1, <2>3, <2>4, ScanFinds
    <3> QED BY <2>2, <2>3, <2>4, <3>1, <3>2
  <2>5. CASE s \notin DOMAIN d
    <3>1. ScanOK(d, m, s + 1)
      <4>1. m.loc \in Places
        BY <2>1, <2>3, MemTypes DEF ScanOK
      <4>2. \A j \in DOMAIN m.loc : m.loc[j].seg \in Nat
        BY <4>1, LocTypes DEF Place
      <4>3. \A j \in DOMAIN m.loc : m.loc[j].seg < s + 1
        BY <2>1, <2>3, <4>2 DEF ScanOK
      <4> QED BY <2>1, <2>3, <4>3 DEF ScanOK
    <3>2. \A p \in Place : In(d, p) /\ p.seg < s + 1 => p.seg < s
      BY <2>5 DEF In, Place
    <3>3. Ordered(d) => Found(d, m, s + 1)
      BY <2>1, <2>3, <3>2 DEF Found
    <3> QED BY <2>2, <2>3, <2>5, <3>1, <3>3
  <2> QED BY <2>4, <2>5
<1>3. \A s \in Nat : s \in S
  <2> HIDE DEF S
  <2> QED BY <1>1, <1>2, SetInduction
<1> QED BY <1>3

\* The recursive function that LoadSegments is defined by exists.
LEMMA ScansExist ==
  ASSUME NEW d, DiskOK(d)
  PROVE  \E h : Scans(d, h)
<1> DEFINE go(i, m) == IF i \in Nat \ {0} /\ i - 1 \in DOMAIN d /\ ScanOK(d, m, i - 1)
                       THEN ScanSegment(d, m, i - 1) ELSE m
           step == [i \in Nat |-> [m \in Mem |-> go(i, m)]]
<1>1. \A i \in Nat, m \in Mem : go(i, m) \in Mem
  <2> TAKE i \in Nat, m \in Mem
  <2>1. CASE i \in Nat \ {0} /\ i - 1 \in DOMAIN d /\ ScanOK(d, m, i - 1)
    <3>1. ScanOK(d, ScanSegment(d, m, i - 1), i - 1 + 1)
      BY <2>1, ScanStep
    <3> QED BY <2>1, <3>1 DEF ScanOK
  <2> QED BY <2>1
<1>2. step \in [Nat -> [Mem -> Mem]]
  <2> HIDE DEF go
  <2> QED BY <1>1
<1>3. PICK f : Iterated(f, Mem, Empty, step)
  <2> HIDE DEF step
  <2> QED BY <1>2, EmptyScanned, Iterates
<1>4. f \in [Nat -> Mem] /\ f[0] = Empty /\ \A i \in Nat \ {0} : f[i] = go(i, f[i - 1])
  <2>1. f \in [Nat -> Mem] /\ f[0] = Empty /\ \A i \in Nat \ {0} : f[i] = step[i][f[i - 1]]
    <3> HIDE DEF step
    <3> QED BY <1>3 DEF Iterated
  <2>2. \A i \in Nat \ {0} : step[i][f[i - 1]] = go(i, f[i - 1])
    <3> HIDE DEF go
    <3> QED BY <2>1
  <2> HIDE DEF step, go
  <2> QED BY <2>1, <2>2
<1> DEFINE S == {i \in Nat : ScanOK(d, f[i], i)}
<1>5. \A i \in Nat : i \in S
  <2>1. 0 \in S
    BY <1>4, EmptyScanned
  <2>2. ASSUME NEW i \in Nat, i \in S PROVE i + 1 \in S
    <3>1. ScanOK(d, f[i], i) /\ i + 1 - 1 = i /\ i + 1 \in Nat \ {0}
      BY <2>2
    <3>2. f[i + 1] = IF i \in DOMAIN d THEN ScanSegment(d, f[i], i) ELSE f[i]
      BY <1>4, <3>1
    <3>3. CASE i \in DOMAIN d
      <4>1. ScanOK(d, ScanSegment(d, f[i], i), i + 1)
        BY <3>1, <3>3, ScanStep
      <4> QED BY <3>2, <3>3, <4>1
    <3>4. CASE i \notin DOMAIN d
      <4>1. PICK m : m = f[i]
        OBVIOUS
      <4>2. m.loc \in Places
        BY <3>1, <4>1, MemTypes DEF ScanOK
      <4>3. \A j \in DOMAIN m.loc : m.loc[j].seg \in Nat
        BY <4>2, LocTypes DEF Place
      <4>4. \A j \in DOMAIN m.loc : m.loc[j].seg < i + 1
        BY <3>1, <4>1, <4>3 DEF ScanOK
      <4>5. ScanOK(d, m, i + 1)
        BY <3>1, <4>1, <4>4 DEF ScanOK
      <4> QED BY <3>2, <3>4, <4>1, <4>5
    <3> QED BY <3>3, <3>4
  <2> HIDE DEF S
  <2> QED BY <2>1, <2>2, SetInduction
<1>6. \A i \in Nat \ {0} : f[i] = IF i - 1 \in DOMAIN d THEN ScanSegment(d, f[i - 1], i - 1) ELSE f[i - 1]
  <2> TAKE i \in Nat \ {0}
  <2>1. i - 1 \in Nat /\ ScanOK(d, f[i - 1], i - 1)
    BY <1>5
  <2> QED BY <1>4, <2>1
<1>7. f = [s \in Nat |-> IF s = 0 THEN Empty
                         ELSE IF s - 1 \in DOMAIN d THEN ScanSegment(d, f[s - 1], s - 1)
                         ELSE f[s - 1]]
  <2>1. \A s \in Nat : f[s] = IF s = 0 THEN Empty
                              ELSE IF s - 1 \in DOMAIN d THEN ScanSegment(d, f[s - 1], s - 1)
                              ELSE f[s - 1]
    BY <1>4, <1>6
  <2> QED BY <1>4, <2>1
<1> QED BY <1>7 DEF Scans

\* The largest of finitely many numbers.
LEMMA MaxIs ==
  ASSUME NEW n \in Nat, NEW S \in SUBSET (0..n), S # {}
  PROVE  Max(S) \in S /\ \A x \in S : x <= Max(S)
<1> DEFINE T == {n - x : x \in S}
<1>1. T \in SUBSET Nat /\ T # {}
  <2>1. \A x \in S : x \in 0..n /\ n - x \in Nat
    OBVIOUS
  <2>2. PICK x : x \in S
    OBVIOUS
  <2>3. n - x \in T
    BY <2>2
  <2> QED BY <2>1, <2>3
<1>2. PICK a \in T : \A b \in T : a <= b
  <2> HIDE DEF T
  <2> QED BY <1>1, LeastNumber
<1>3. PICK x \in S : a = n - x
  OBVIOUS
<1>4. \A y \in S : n - y \in T
  OBVIOUS
<1>5. \A y \in S : x >= y
  BY <1>2, <1>3, <1>4
<1>6. Max(S) \in S /\ \A y \in S : Max(S) >= y
  BY <1>5 DEF Max
<1> QED BY <1>6

LEMMA LastIs ==
  ASSUME NEW d, DiskOK(d), DOMAIN d # {}
  PROVE  /\ LastSegment(d) \in DOMAIN d /\ LastSegment(d) \in Nat /\ LastSegment(d) <= MaxSegment
         /\ \A s \in DOMAIN d : s <= LastSegment(d)
<1>1. MaxSegment \in Nat /\ DOMAIN d \in SUBSET (0..MaxSegment)
  BY LogBoundAssumption DEF DiskOK
<1>2. Max(DOMAIN d) \in DOMAIN d /\ \A s \in DOMAIN d : s <= Max(DOMAIN d)
  BY <1>1, MaxIs
<1> QED BY <1>1, <1>2 DEF LastSegment

\* What Open scans, all segments behind it.
LEMMA Loaded ==
  ASSUME NEW d, DiskOK(d)
  PROVE  /\ ScanOK(d, LoadSegments(d), MaxSegment + 1)
         /\ Ordered(d) => Found(d, LoadSegments(d), MaxSegment + 1)
<1>1. MaxSegment \in Nat /\ DOMAIN d \subseteq 0..MaxSegment
  BY LogBoundAssumption DEF DiskOK
<1> DEFINE body(h) == [s \in Nat |-> IF s = 0 THEN Empty
                         ELSE IF s - 1 \in DOMAIN d THEN ScanSegment(d, h[s - 1], s - 1)
                         ELSE h[s - 1]]
           b == CHOOSE h : h = body(h)
<1>2. LoadSegments(d) = IF DOMAIN d = {} THEN Empty ELSE b[LastSegment(d) + 1]
  BY DEF LoadSegments
<1>3. Scans(d, b)
  <2>1. \E h : h = body(h)
    BY ScansExist DEF Scans
  <2>2. b = body(b)
    <3> HIDE DEF body
    <3> QED BY <2>1
  <2> HIDE DEF b
  <2> QED BY <2>2 DEF Scans
<1> HIDE DEF b, body
<1>4. PICK m : m = LoadSegments(d)
  OBVIOUS
<1>5. \E n \in 0..(MaxSegment + 1) : /\ ScanOK(d, m, n) /\ (Ordered(d) => Found(d, m, n))
                                     /\ \A s \in DOMAIN d : s < n
  <2>1. CASE DOMAIN d = {}
    BY <1>1, <1>2, <1>4, <2>1, EmptyScanned
  <2>2. CASE DOMAIN d # {}
    <3>1. LastSegment(d) \in 0..MaxSegment /\ \A s \in DOMAIN d : s <= LastSegment(d)
      BY <1>1, <2>2, LastIs
    <3>2. LastSegment(d) + 1 \in 0..(MaxSegment + 1) /\ \A s \in DOMAIN d : s < LastSegment(d) + 1
      BY <1>1, <3>1
    <3>3. LastSegment(d) + 1 \in Nat
      BY <3>1
    <3>4. m = b[LastSegment(d) + 1]
      BY <1>2, <1>4, <2>2
    <3>5. ScanOK(d, m, LastSegment(d) + 1) /\ (Ordered(d) => Found(d, m, LastSegment(d) + 1))
      BY <1>3, <3>3, <3>4, ScansOK
    <3> QED BY <3>2, <3>5
  <2> QED BY <2>1, <2>2
<1>6. PICK n \in 0..(MaxSegment + 1) : /\ ScanOK(d, m, n) /\ (Ordered(d) => Found(d, m, n))
                                       /\ \A s \in DOMAIN d : s < n
  BY <1>5
<1>7. \A s \in DOMAIN d : s < MaxSegment + 1
  BY <1>1
<1>8. \A p \in Place : In(d, p) => p.seg < n /\ p.seg < MaxSegment + 1
  BY <1>6, <1>7 DEF In
<1>9. Ordered(d) => Found(d, m, MaxSegment + 1)
  BY <1>6, <1>8 DEF Found
<1>10. \A j \in DOMAIN m.loc : m.loc[j].seg < MaxSegment + 1
  BY <1>6, <1>7 DEF ScanOK, In
<1>11. ScanOK(d, m, MaxSegment + 1)
  BY <1>6, <1>10 DEF ScanOK
<1> QED BY <1>4, <1>9, <1>11

(***************************************************************************)
(* Opening the log.  x is the object with the entries of m from n + 1 on.  *)
(***************************************************************************)
Usable(snap) == snap.index > 0 /\ snap.term > 0

First(m) == IF m.entries = <<>> THEN 0 ELSE m.entries[1].index - 1

Pruned(d, m, x, snap, n) ==
  /\ x.lastIndex = m.lastIndex /\ x.lastTerm = m.lastTerm /\ x.loc = m.loc
  /\ x.seg = (IF DOMAIN d = {} THEN 0 ELSE LastSegment(d)) /\ x.open = (DOMAIN d # {})
  /\ x.anchor = IF Usable(snap) THEN snap ELSE Torn
  /\ n \in 0..Len(m.entries) /\ Len(x.entries) = Len(m.entries) - n
  /\ \A j \in 1..Len(x.entries) : x.entries[j] = m.entries[n + j]
  /\ \A j \in 1..n : m.entries[j].index <= snap.index
  /\ Usable(snap) => \A j \in 1..Len(m.entries) : j > n => m.entries[j].index > snap.index
  /\ IF n = 0 THEN x.base = First(m) ELSE Usable(snap) /\ x.base = snap.index

\* The object with a base, entries, an anchor and a writer.
Opened(m, b, e, a, s, o) ==
  [m EXCEPT !.base = b, !.entries = e, !.anchor = a, !.seg = s, !.open = o]

LEMMA MemOpened ==
  ASSUME NEW m \in Mem, NEW b \in Nat, NEW e \in Seq(Record), NEW a \in Record, NEW s \in Nat,
         NEW o \in BOOLEAN, NEW x, x = Opened(m, b, e, a, s, o)
  PROVE  /\ x \in Mem /\ x.base = b /\ x.entries = e /\ x.anchor = a /\ x.seg = s /\ x.open = o
         /\ x.loc = m.loc /\ x.lastIndex = m.lastIndex /\ x.lastTerm = m.lastTerm
  BY DEF Mem, Opened

\* PruneCompacted drops exactly the entries the snapshot covers.
LEMMA CoveredIs ==
  ASSUME NEW m, m.entries \in Seq(Record), Increasing(m.entries), m.anchor.index \in Nat
  PROVE  /\ Covered(m) \in 0..Len(m.entries)
         /\ \A j \in 1..Covered(m) : m.entries[j].index <= m.anchor.index
         /\ \A j \in 1..Len(m.entries) : j > Covered(m) => m.entries[j].index > m.anchor.index
<1>1. PICK e : e = m.entries
  OBVIOUS
<1>2. PICK a : a = m.anchor.index
  OBVIOUS
<1>3. /\ Len(e) \in Nat /\ a \in Nat /\ \A j \in 1..Len(e) : e[j].index \in Nat
      /\ \A i, j \in 1..Len(e) : i < j => e[i].index < e[j].index
  BY <1>1, <1>2, RecordTypes DEF Increasing
<1> DEFINE good(n) == /\ \A j \in 1..n : e[j].index <= a
                      /\ n = Len(e) \/ e[n + 1].index > a
<1>4. Covered(m) = CHOOSE n \in 0..Len(e) : good(n)
  BY <1>1, <1>2 DEF Covered
<1>5. \E n \in 0..Len(e) : good(n)
  <2> DEFINE B == {j \in 1..Len(e) : e[j].index > a}
  <2>1. CASE B = {}
    <3>1. \A j \in 1..Len(e) : e[j].index <= a
      BY <1>3, <2>1
    <3> QED BY <1>3, <3>1
  <2>2. CASE B # {}
    <3>1. PICK j \in B : \A k \in B : j <= k
      <4>1. B \in SUBSET Nat
        OBVIOUS
      <4> HIDE DEF B
      <4> QED BY <2>2, <4>1, LeastNumber
    <3>2. j - 1 \in 0..Len(e) /\ j - 1 + 1 = j
      BY <1>3
    <3>3. \A k \in 1..(j - 1) : k \in 1..Len(e) /\ k \notin B
      BY <1>3, <3>1
    <3>4. \A k \in 1..(j - 1) : e[k].index <= a
      BY <1>3, <3>3
    <3>5. good(j - 1)
      BY <3>2, <3>4
    <3> HIDE DEF good
    <3> QED BY <3>2, <3>5
  <2> QED BY <2>1, <2>2
<1>6. PICK n : n = Covered(m)
  OBVIOUS
<1>7. n \in 0..Len(e) /\ good(n)
  <2> HIDE DEF good
  <2> QED BY <1>4, <1>5, <1>6
<1>8. ASSUME NEW j \in 1..Len(e), j > n PROVE e[j].index > a
  <2>1. n + 1 \in 1..Len(e) /\ e[n + 1].index > a /\ (j = n + 1 \/ n + 1 < j)
    BY <1>3, <1>7, <1>8
  <2> QED BY <1>3, <2>1
<1> QED BY <1>1, <1>2, <1>6, <1>7, <1>8

\* The entries of a sequence from n + 1 on.
LEMMA SuffixIs ==
  ASSUME NEW l \in Seq(Record), NEW n \in 0..Len(l)
  PROVE  /\ SubSeq(l, n + 1, Len(l)) \in Seq(Record)
         /\ Len(SubSeq(l, n + 1, Len(l))) = Len(l) - n
         /\ \A j \in 1..(Len(l) - n) : SubSeq(l, n + 1, Len(l))[j] = l[n + j]
<1>1. Len(l) \in Nat
  BY RecordTypes
<1> QED BY <1>1, SubSeqProperties

\* Whatever the files hold, a recovered log is one that was scanned and pruned.
LEMMA RecoveredIs ==
  ASSUME NEW d, DiskOK(d), NEW snap \in Record, NEW x, x = Recovered(d, snap)
  PROVE  x \in Mem /\ x.seg <= MaxSegment /\ \E n : Pruned(d, LoadSegments(d), x, snap, n)
<1>1. PICK m : m = LoadSegments(d)
  OBVIOUS
<1>2. ScanOK(d, m, MaxSegment + 1) /\ m \in Mem /\ EntriesOK(d, m) /\ m.base = 0 /\ m.anchor = Torn
  BY <1>1, Loaded DEF ScanOK
<1>3. PICK e : e = m.entries
  OBVIOUS
<1>4. /\ e \in Seq(Record) /\ Len(e) \in Nat /\ Increasing(e)
      /\ \A j \in 1..Len(e) : e[j].index \in Nat /\ e[j].index > 0
  <2>1. e \in Seq(Record) /\ Increasing(e) /\ \A j \in 1..Len(e) : e[j].index \in 1..m.lastIndex
    BY <1>2, <1>3, MemTypes DEF EntriesOK
  <2> QED BY <1>2, <2>1, MemTypes, RecordTypes
<1>5. First(m) \in Nat
  <2>1. CASE e = <<>>
    BY <1>3, <2>1 DEF First
  <2>2. CASE e # <<>>
    <3>1. 1 \in 1..Len(e)
      BY <1>4, <2>2, EmptySeq
    <3> QED BY <1>3, <1>4, <2>2, <3>1 DEF First
  <2> QED BY <2>1, <2>2
<1>6. PICK s : s = IF DOMAIN d = {} THEN 0 ELSE LastSegment(d)
  OBVIOUS
<1>7. s \in Nat /\ s <= MaxSegment
  BY <1>6, LastIs, LogBoundAssumption
<1>8. PICK o \in BOOLEAN : o = (DOMAIN d # {})
  OBVIOUS
<1>9. Torn \in Record /\ snap.index \in Nat
  BY DEF Torn, Record
<1>10. PICK y : y = Open(d)
  OBVIOUS
<1>11. y = Opened(m, First(m), e, Torn, s, o)
  <2>1. y = [m EXCEPT !.base = First(m), !.seg = s, !.open = o]
    BY <1>1, <1>6, <1>8, <1>10 DEF Open, First
  <2>2. Opened(m, First(m), m.entries, m.anchor, s, o) = [m EXCEPT !.base = First(m), !.seg = s, !.open = o]
    <3> HIDE DEF First
    <3> QED BY <1>2 DEF Opened, Mem
  <2> QED BY <1>2, <1>3, <2>1, <2>2
<1>12. /\ y \in Mem /\ y.base = First(m) /\ y.entries = e /\ y.anchor = Torn /\ y.seg = s /\ y.open = o
       /\ y.loc = m.loc /\ y.lastIndex = m.lastIndex /\ y.lastTerm = m.lastTerm
  BY <1>2, <1>4, <1>5, <1>7, <1>9, <1>11, MemOpened
<1>13. CASE ~Usable(snap)
  <2>1. x = y
    BY <1>10, <1>13 DEF Recovered, Usable
  <2>2. Pruned(d, m, x, snap, 0)
    BY <1>3, <1>4, <1>6, <1>8, <1>12, <1>13, <2>1 DEF Pruned
  <2> QED BY <1>1, <1>7, <1>12, <2>1, <2>2
<1>14. CASE Usable(snap)
  <2>1. PICK z : z = [y EXCEPT !.anchor = snap]
    OBVIOUS
  <2>2. z = Opened(m, First(m), e, snap, s, o)
    <3>1. z = Opened(y, First(m), e, snap, s, o)
      <4> HIDE DEF First
      <4> QED BY <1>12, <2>1 DEF Opened, Mem
    <3>2. Opened(Opened(m, First(m), e, Torn, s, o), First(m), e, snap, s, o) = Opened(m, First(m), e, snap, s, o)
      <4> HIDE DEF First, Torn
      <4> QED BY <1>2 DEF Opened, Mem
    <3> QED BY <1>11, <3>1, <3>2
  <2>3. /\ z \in Mem /\ z.base = First(m) /\ z.entries = e /\ z.anchor = snap /\ z.seg = s /\ z.open = o
        /\ z.loc = m.loc /\ z.lastIndex = m.lastIndex /\ z.lastTerm = m.lastTerm
    BY <1>2, <1>4, <1>5, <1>7, <2>2, MemOpened
  <2>4. x = PruneCompacted(z)
    BY <1>10, <1>14, <2>1 DEF Recovered, Usable
  <2>5. PICK n : n = Covered(z)
    OBVIOUS
  <2>6. /\ n \in 0..Len(e) /\ \A j \in 1..n : e[j].index <= snap.index
        /\ \A j \in 1..Len(e) : j > n => e[j].index > snap.index
    <3>1. z.entries \in Seq(Record) /\ Increasing(z.entries) /\ z.anchor.index \in Nat
      BY <1>4, <1>9, <2>3
    <3> QED BY <2>3, <2>5, <3>1, CoveredIs
  <2>7. CASE n = 0
    <3>1. x = z
      BY <2>4, <2>5, <2>7 DEF PruneCompacted
    <3>2. Pruned(d, m, x, snap, 0)
      BY <1>3, <1>4, <1>6, <1>8, <1>14, <2>3, <2>6, <2>7, <3>1 DEF Pruned
    <3> QED BY <1>1, <1>7, <2>3, <3>1, <3>2
  <2>8. CASE n # 0
    <3>1. PICK f : f = SubSeq(e, n + 1, Len(e))
      OBVIOUS
    <3>2. f \in Seq(Record) /\ Len(f) = Len(e) - n /\ \A j \in 1..Len(f) : f[j] = e[n + j]
      BY <1>4, <2>6, <3>1, SuffixIs
    <3>3. x = [z EXCEPT !.entries = f, !.base = snap.index]
      <4>1. snap.index # 0
        BY <1>14 DEF Usable
      <4> QED BY <2>3, <2>4, <2>5, <2>8, <3>1, <4>1 DEF PruneCompacted
    <3>4. x = Opened(z, snap.index, f, snap, s, o)
      BY <2>3, <3>3 DEF Opened, Mem
    <3>5. /\ x \in Mem /\ x.base = snap.index /\ x.entries = f /\ x.anchor = snap /\ x.seg = s /\ x.open = o
          /\ x.loc = m.loc /\ x.lastIndex = m.lastIndex /\ x.lastTerm = m.lastTerm
      BY <1>7, <1>9, <2>3, <3>2, <3>4, MemOpened
    <3>6. Pruned(d, m, x, snap, n)
      BY <1>3, <1>4, <1>6, <1>8, <1>14, <2>6, <2>8, <3>2, <3>5 DEF Pruned
    <3> QED BY <1>1, <1>7, <3>5, <3>6
  <2> QED BY <2>7, <2>8
<1> QED BY <1>13, <1>14

\* A restarted process fits the files, whatever they are.
LEMMA RecoveredOK ==
  ASSUME NEW d, DiskOK(d), NEW snap \in Record
  PROVE  MemOK(d, Recovered(d, snap))
<1>1. PICK x : x = Recovered(d, snap)
  OBVIOUS
<1>2. PICK m : m = LoadSegments(d)
  OBVIOUS
<1>3. x \in Mem /\ x.seg <= MaxSegment /\ \E k : Pruned(d, m, x, snap, k)
  BY <1>1, <1>2, RecoveredIs
<1>4. PICK n : Pruned(d, m, x, snap, n)
  BY <1>3
<1>5. ScanOK(d, m, MaxSegment + 1) /\ m \in Mem /\ EntriesOK(d, m) /\ LocOK(m) /\ m.base = 0
  <2>1. ScanOK(d, LoadSegments(d), MaxSegment + 1)
    BY Loaded
  <2>2. ScanOK(d, m, MaxSegment + 1)
    BY <1>2, <2>1
  <2> QED BY <2>2 DEF ScanOK
<1>6. /\ n \in 0..Len(m.entries) /\ Len(m.entries) \in Nat /\ Len(x.entries) = Len(m.entries) - n
      /\ m.lastIndex \in Nat
      /\ x.lastIndex = m.lastIndex /\ x.loc = m.loc
      /\ \A j \in 1..Len(x.entries) : n + j \in 1..Len(m.entries) /\ x.entries[j] = m.entries[n + j]
  BY <1>4, <1>5, MemTypes DEF Pruned
<1>7. Increasing(x.entries)
  <2> SUFFICES ASSUME NEW i \in 1..Len(x.entries), NEW j \in 1..Len(x.entries), i < j
               PROVE  x.entries[i].index < x.entries[j].index
    BY DEF Increasing
  <2>1. n + i < n + j /\ n + i \in 1..Len(m.entries) /\ n + j \in 1..Len(m.entries)
    BY <1>6
  <2>2. m.entries[n + i].index < m.entries[n + j].index
    BY <1>5, <2>1 DEF EntriesOK, Increasing
  <2> QED BY <1>6, <2>2
<1>8. EntriesOK(d, x)
  <2>1. ASSUME NEW j \in 1..Len(x.entries)
        PROVE  /\ x.entries[j].index \in 1..x.lastIndex /\ x.entries[j].term > 0
               /\ Exact(d, x, x.entries[j])
    <3>1. PICK k : k = n + j
      OBVIOUS
    <3>2. k \in 1..Len(m.entries) /\ x.entries[j] = m.entries[k]
      BY <1>6, <3>1
    <3>3. m.entries[k].index \in 1..m.lastIndex /\ m.entries[k].term > 0
      BY <1>5, <3>2 DEF EntriesOK
    <3>4. m.entries[k].index > m.base
      BY <1>5, <1>6, <3>3
    <3>5. Exact(d, m, m.entries[k])
      BY <1>5, <3>2, <3>4 DEF EntriesOK
    <3>6. Exact(d, x, m.entries[k])
      BY <1>6, <3>5 DEF Exact
    <3> QED BY <1>6, <3>2, <3>3, <3>6
  <2> QED BY <1>7, <2>1 DEF EntriesOK
<1>9. LocOK(x)
  BY <1>5, <1>6 DEF LocOK
<1>10. WriterOK(d, x)
  <2>1. \A i \in DOMAIN x.loc : In(d, x.loc[i])
    BY <1>5, <1>6 DEF ScanOK
  <2>2. \A s \in DOMAIN d : DOMAIN d # {} /\ s <= LastSegment(d) /\ x.seg = LastSegment(d)
    BY <1>4, LastIs DEF Pruned
  <2>3. \A i \in DOMAIN x.loc : x.loc[i].seg <= x.seg
    BY <2>1, <2>2 DEF In
  <2>4. x.lastIndex > 0 => x.open
    <3> SUFFICES ASSUME x.lastIndex > 0 PROVE x.open
      OBVIOUS
    <3>1. m.entries # <<>>
      BY <1>5, <1>6 DEF ScanOK
    <3>2. 1 \in 1..Len(m.entries)
      <4>1. m.entries \in Seq(Record)
        BY <1>5, MemTypes
      <4> QED BY <1>6, <3>1, <4>1, EmptySeq
    <3>3. m.entries[1].index \in 1..m.lastIndex
      BY <1>5, <3>2 DEF EntriesOK
    <3>4. m.entries[1].index > m.base
      BY <1>5, <1>6, <3>3
    <3>5. Exact(d, m, m.entries[1])
      BY <1>5, <3>2, <3>4 DEF EntriesOK
    <3>6. DOMAIN d # {}
      BY <3>5 DEF Exact, In
    <3> QED BY <1>4, <3>6 DEF Pruned
  <2> QED BY <2>1, <2>2, <2>3, <2>4 DEF WriterOK
<1> QED BY <1>1, <1>3, <1>8, <1>9, <1>10 DEF MemOK

\* Files in order are read completely.
LEMMA RecoveredAll ==
  ASSUME NEW d, DiskOK(d), Ordered(d), NEW snap \in Record
  PROVE  Complete(d, Recovered(d, snap), snap.index) /\ Separates(d, Recovered(d, snap))
<1>1. PICK x : x = Recovered(d, snap)
  OBVIOUS
<1>2. PICK m : m = LoadSegments(d)
  OBVIOUS
<1>3. PICK n : Pruned(d, m, x, snap, n)
  BY <1>1, <1>2, RecoveredIs
<1>4. /\ ScanOK(d, m, MaxSegment + 1) /\ m \in Mem /\ EntriesOK(d, m) /\ LocOK(m)
      /\ Found(d, m, MaxSegment + 1)
  <2>1. ScanOK(d, LoadSegments(d), MaxSegment + 1) /\ Found(d, LoadSegments(d), MaxSegment + 1)
    BY Loaded
  <2>2. ScanOK(d, m, MaxSegment + 1) /\ Found(d, m, MaxSegment + 1)
    BY <1>2, <2>1
  <2> QED BY <2>2 DEF ScanOK
<1>5. /\ n \in 0..Len(m.entries) /\ Len(m.entries) \in Nat /\ Len(x.entries) = Len(m.entries) - n
      /\ m.lastIndex \in Nat /\ snap.index \in Nat
      /\ x.lastIndex = m.lastIndex /\ x.loc = m.loc
      /\ \A j \in 1..Len(x.entries) : x.entries[j] = m.entries[n + j]
      /\ \A j \in 1..n : m.entries[j].index <= snap.index
  BY <1>3, <1>4, MemTypes DEF Pruned, Record
<1>6. ASSUME NEW p \in Place, In(d, p), At(d, p) # Torn
      PROVE  /\ At(d, p).index <= x.lastIndex
             /\ At(d, p).index > snap.index => \E j \in 1..Len(x.entries) : x.entries[j] = At(d, p)
  <2>1. p.seg < MaxSegment + 1
    BY <1>6, LogBoundAssumption DEF In, DiskOK
  <2>2. PICK k \in 1..Len(m.entries) : m.entries[k] = At(d, p)
    BY <1>4, <1>6, <2>1 DEF Found
  <2>3. m.entries[k].index \in 1..m.lastIndex
    BY <1>4, <2>2 DEF EntriesOK
  <2>4. At(d, p).index <= x.lastIndex
    BY <1>5, <2>2, <2>3
  <2>5. ASSUME At(d, p).index > snap.index
        PROVE  \E j \in 1..Len(x.entries) : x.entries[j] = At(d, p)
    <3>1. k \notin 1..n
      BY <1>5, <2>2, <2>3, <2>5
    <3>2. k - n \in 1..Len(x.entries) /\ n + (k - n) = k
      BY <1>5, <3>1
    <3>3. x.entries[k - n] = m.entries[k]
      BY <1>5, <3>2
    <3> QED BY <2>2, <3>2, <3>3
  <2> QED BY <2>4, <2>5
<1>7. ASSUME NEW i \in DOMAIN x.loc, NEW p \in Place, In(d, p), At(d, p) # Torn, Before(p, x.loc[i])
      PROVE  At(d, p).index < i
  <2>1. /\ In(d, x.loc[i]) /\ At(d, x.loc[i]).index = i /\ i \in 1..m.lastIndex
    BY <1>4, <1>5 DEF ScanOK, LocOK
  <2>2. At(d, x.loc[i]) # Torn /\ x.loc[i] \in Place
    BY <1>5, <2>1 DEF Torn, In
  <2>3. At(d, p).index < At(d, x.loc[i]).index
    BY <1>7, <2>1, <2>2 DEF Ordered
  <2> QED BY <2>1, <2>3
<1>8. Complete(d, x, snap.index)
  BY <1>6 DEF Complete
<1>9. Separates(d, x)
  BY <1>7 DEF Separates
<1> QED BY <1>1, <1>8, <1>9

\* Increasing numbers that leave none out.
LEMMA NoneLeftOut ==
  ASSUME NEW e \in Seq(Record), Increasing(e), NEW b \in Nat, NEW l \in Nat, b <= l,
         \A j \in 1..Len(e) : e[j].index > b /\ e[j].index <= l,
         \A i \in (b + 1)..l : \E j \in 1..Len(e) : e[j].index = i
  PROVE  Len(e) = l - b /\ \A j \in 1..Len(e) : e[j].index = b + j
<1>1. /\ Len(e) \in Nat /\ \A j \in 1..Len(e) : e[j].index \in Nat
      /\ \A i, j \in 1..Len(e) : i < j => e[i].index < e[j].index
  BY RecordTypes DEF Increasing
<1> DEFINE B == {j \in 1..Len(e) : e[j].index # b + j}
<1>2. B = {}
  <2> SUFFICES ASSUME B # {} PROVE FALSE
    OBVIOUS
  <2>1. PICK j \in B : \A k \in B : j <= k
    <3>1. B \in SUBSET Nat
      OBVIOUS
    <3> HIDE DEF B
    <3> QED BY <3>1, LeastNumber
  <2>2. j \in 1..Len(e) /\ e[j].index # b + j /\ j \in Nat /\ e[j].index \in Nat
    BY <1>1
  <2>3. \A k \in 1..(j - 1) : k \in 1..Len(e) /\ e[k].index = b + k
    <3> TAKE k \in 1..(j - 1)
    <3>1. k \in 1..Len(e) /\ k < j
      BY <1>1, <2>2
    <3>2. k \notin B
      <4>1. k \in Nat /\ ~(j <= k)
        BY <2>2, <3>1
      <4> HIDE DEF B
      <4> QED BY <2>1, <4>1
    <3> QED BY <3>1, <3>2
  <2>4. e[j].index > b + j
    <3>1. CASE j = 1
      BY <2>2, <3>1
    <3>2. CASE j # 1
      <4>1. j - 1 \in 1..(j - 1) /\ j - 1 < j
        BY <2>2, <3>2
      <4>2. e[j - 1].index = b + (j - 1) /\ j - 1 \in 1..Len(e)
        BY <2>3, <4>1
      <4>3. e[j - 1].index < e[j].index
        BY <1>1, <2>2, <4>1, <4>2
      <4>4. b + (j - 1) < e[j].index
        BY <4>2, <4>3
      <4>5. \A v, a, c \in Nat : a + (c - 1) < v /\ v # a + c => v > a + c
        OBVIOUS
      <4>6. e[j].index \in Nat /\ j \in Nat /\ b \in Nat /\ e[j].index # b + j
        BY <2>2
      <4> HIDE DEF B
      <4> QED BY <4>4, <4>5, <4>6
    <3> QED BY <3>1, <3>2
  <2>5. e[j].index <= l
    BY <2>2
  <2>6. b + j \in (b + 1)..l
    BY <2>2, <2>4, <2>5
  <2>7. PICK k \in 1..Len(e) : e[k].index = b + j
    BY <2>6
  <2>8. CASE k < j
    <3>1. k \in 1..(j - 1)
      BY <2>2, <2>8
    <3> QED BY <2>2, <2>3, <2>7, <2>8, <3>1
  <2>9. CASE k = j
    BY <2>2, <2>7, <2>9
  <2>10. CASE j < k
    <3>1. e[j].index < e[k].index
      BY <1>1, <2>2, <2>10
    <3> QED BY <2>2, <2>4, <2>7, <3>1
  <2> QED BY <2>2, <2>8, <2>9, <2>10
<1>3. \A j \in 1..Len(e) : e[j].index = b + j
  BY <1>2
<1>4. Len(e) <= l - b
  <2>1. CASE Len(e) = 0
    BY <2>1
  <2>2. CASE Len(e) # 0
    <3>1. Len(e) \in 1..Len(e)
      BY <1>1, <2>2
    <3>2. e[Len(e)].index = b + Len(e) /\ e[Len(e)].index <= l
      BY <1>3, <3>1
    <3> QED BY <1>1, <3>2
  <2> QED BY <2>1, <2>2
<1>5. l - b <= Len(e)
  <2>1. CASE l = b
    BY <1>1, <2>1
  <2>2. CASE l # b
    <3>1. l \in (b + 1)..l
      BY <2>2
    <3>2. PICK k \in 1..Len(e) : e[k].index = l
      BY <3>1
    <3>3. b + k = l
      BY <1>3, <3>2
    <3> QED BY <1>1, <3>3
  <2> QED BY <2>1, <2>2
<1> QED BY <1>1, <1>3, <1>4, <1>5

\* From files in order that hold what was asked for, recovery finds all of it.
LEMMA RecoveredClean ==
  ASSUME NEW d, DiskOK(d), Ordered(d), NEW snap \in Record, NEW w \in Seq(Nat), AsAsked(d, w),
         snap.index <= Len(w), IF snap.index = 0 THEN snap = Torn ELSE snap.term > 0,
         \A i \in 1..Len(w) : i > snap.index \/ i = Len(w) => Present(d, i)
  PROVE  /\ Recovered(d, snap).lastIndex = Len(w)
         /\ Based(Recovered(d, snap), snap) /\ Contiguous(Recovered(d, snap))
<1>1. PICK x : x = Recovered(d, snap)
  OBVIOUS
<1>2. PICK m : m = LoadSegments(d)
  OBVIOUS
<1>3. PICK n : Pruned(d, m, x, snap, n)
  BY <1>1, <1>2, RecoveredIs
<1>4. /\ ScanOK(d, m, MaxSegment + 1) /\ m \in Mem /\ EntriesOK(d, m) /\ LocOK(m)
      /\ m.base = 0 /\ Found(d, m, MaxSegment + 1)
  <2>1. ScanOK(d, LoadSegments(d), MaxSegment + 1) /\ Found(d, LoadSegments(d), MaxSegment + 1)
    BY Loaded
  <2>2. ScanOK(d, m, MaxSegment + 1) /\ Found(d, m, MaxSegment + 1)
    BY <1>2, <2>1
  <2> QED BY <2>2 DEF ScanOK
<1>5. /\ n \in 0..Len(m.entries) /\ Len(m.entries) \in Nat /\ Len(x.entries) = Len(m.entries) - n
      /\ m.lastIndex \in Nat /\ snap.index \in Nat /\ snap.term \in Nat /\ Len(w) \in Nat
      /\ x.lastIndex = m.lastIndex /\ x.lastTerm = m.lastTerm
      /\ \A j \in 1..Len(x.entries) : x.entries[j] = m.entries[n + j] /\ n + j \in 1..Len(m.entries)
      /\ \A j \in 1..n : m.entries[j].index <= snap.index
  <2>1. Len(w) \in Nat /\ snap.index \in Nat /\ snap.term \in Nat
    BY DEF Record
  <2>2. Len(m.entries) \in Nat /\ m.lastIndex \in Nat
    BY <1>4, MemTypes
  <2> QED BY <1>3, <2>1, <2>2 DEF Pruned
<1>6. PICK e : e = m.entries
  OBVIOUS
<1>7. /\ e \in Seq(Record) /\ Increasing(e)
      /\ \A j \in 1..Len(e) : e[j].index \in Nat
      /\ \A i, j \in 1..Len(e) : i < j => e[i].index < e[j].index
  <2>1. e \in Seq(Record) /\ Increasing(e)
    BY <1>4, <1>6, MemTypes DEF EntriesOK
  <2> QED BY <2>1, RecordTypes DEF Increasing
<1>8. \A j \in 1..Len(e) : e[j].index \in 1..Len(w) /\ e[j].term > 0
  <2> TAKE j \in 1..Len(e)
  <2>1. e[j].index \in 1..m.lastIndex /\ e[j].term > 0
    BY <1>4, <1>6 DEF EntriesOK
  <2>2. e[j].index > m.base
    BY <1>4, <1>5, <2>1
  <2>3. Exact(d, m, e[j])
    BY <1>4, <1>6, <2>2 DEF EntriesOK
  <2>4. e[j].index <= Len(w)
    BY <2>3 DEF Exact, AsAsked, In
  <2> QED BY <1>5, <1>7, <2>1, <2>4
<1>9. ASSUME NEW i \in 1..Len(w), i > snap.index \/ i = Len(w)
      PROVE  \E j \in 1..Len(e) : e[j].index = i
  <2>1. PICK p \in Place : In(d, p) /\ At(d, p).index = i
    BY <1>9 DEF Present
  <2>2. At(d, p) # Torn
    BY <2>1 DEF AsAsked
  <2>3. p.seg < MaxSegment + 1
    BY <2>1, LogBoundAssumption DEF In, DiskOK
  <2> QED BY <1>4, <1>6, <2>1, <2>2, <2>3 DEF Found
<1>10. m.lastIndex = Len(w) /\ (Len(w) > 0 => m.lastTerm > 0 /\ e # <<>> /\ 1 \in 1..Len(e))
  <2>1. CASE Len(w) = 0
    <3>1. Len(e) = 0
      <4> SUFFICES ASSUME Len(e) # 0 PROVE FALSE
        OBVIOUS
      <4>1. 1 \in 1..Len(e)
        BY <1>5, <1>6
      <4> QED BY <1>7, <1>8, <2>1, <4>1
    <3>2. e = <<>>
      BY <1>7, <3>1, EmptySeq
    <3> QED BY <1>4, <1>5, <1>6, <2>1, <3>2 DEF ScanOK
  <2>2. CASE Len(w) # 0
    <3>1. Len(w) \in 1..Len(w)
      BY <1>5, <2>2
    <3>2. PICK j \in 1..Len(e) : e[j].index = Len(w)
      BY <1>9, <3>1
    <3>3. Len(e) \in Nat /\ Len(e) \in 1..Len(e) /\ 1 \in 1..Len(e)
      BY <1>5, <1>6
    <3>4. e # <<>>
      BY <3>3
    <3>5. m.lastIndex = e[Len(e)].index /\ m.lastTerm = e[Len(e)].term
      BY <1>4, <1>6, <3>4 DEF ScanOK
    <3>6. ~(j < Len(e))
      <4> SUFFICES ASSUME j < Len(e) PROVE FALSE
        OBVIOUS
      <4>1. e[j].index < e[Len(e)].index
        BY <1>7, <3>3
      <4>2. e[Len(e)].index \in 1..Len(w)
        BY <1>8, <3>3
      <4> QED BY <1>5, <3>2, <4>1, <4>2
    <3>7. j = Len(e)
      BY <3>3, <3>6
    <3> QED BY <1>8, <3>2, <3>3, <3>4, <3>5, <3>7
  <2> QED BY <2>1, <2>2
<1>11. x.anchor = snap /\ (snap.index = 0 => ~Usable(snap)) /\ (snap.index # 0 => Usable(snap))
  BY <1>3, <1>5 DEF Pruned, Usable
<1>12. \A j \in 1..Len(e) : j > n => e[j].index > snap.index
  <2>1. CASE snap.index = 0
    BY <1>5, <1>7, <1>8, <2>1
  <2>2. CASE snap.index # 0
    BY <1>3, <1>6, <1>11, <2>2 DEF Pruned
  <2> QED BY <2>1, <2>2
<1>13. x.base = snap.index
  <2>1. CASE n # 0
    BY <1>3, <2>1 DEF Pruned
  <2>2. CASE n = 0 /\ Len(w) = 0
    <3>1. snap.index = 0
      BY <1>5, <2>2
    <3>2. e = <<>>
      <4>1. Len(e) = 0
        <5> SUFFICES ASSUME Len(e) # 0 PROVE FALSE
          OBVIOUS
        <5>1. 1 \in 1..Len(e)
          BY <1>5, <1>6
        <5> QED BY <1>7, <1>8, <2>2, <5>1
      <4> QED BY <1>7, <4>1, EmptySeq
    <3> QED BY <1>3, <1>6, <2>2, <3>1, <3>2 DEF Pruned, First
  <2>3. CASE n = 0 /\ Len(w) # 0
    <3>1. e # <<>> /\ 1 \in 1..Len(e)
      BY <1>5, <1>10, <2>3
    <3>2. x.base = e[1].index - 1
      BY <1>3, <1>6, <2>3, <3>1 DEF Pruned, First
    <3>3. e[1].index > snap.index /\ e[1].index \in Nat /\ e[1].index <= Len(w)
      BY <1>5, <1>7, <1>8, <1>12, <2>3, <3>1
    <3>4. snap.index + 1 \in 1..Len(w) /\ snap.index + 1 > snap.index
      <4>1. \A a, b, c \in Nat : a > b /\ a <= c => b + 1 \in 1..c /\ b + 1 > b
        OBVIOUS
      <4>2. snap.index \in Nat /\ Len(w) \in Nat
        BY <1>5
      <4> QED BY <3>3, <4>1, <4>2
    <3>5. PICK j \in 1..Len(e) : e[j].index = snap.index + 1
      BY <1>9, <3>4
    <3>6. j = 1 \/ 1 < j
      BY <1>5, <1>6
    <3>7. e[1].index <= e[j].index
      BY <1>7, <3>1, <3>5, <3>6
    <3>8. e[1].index = snap.index + 1
      <4>1. \A a, c \in Nat : a > c /\ a <= c + 1 => a = c + 1
        OBVIOUS
      <4> QED BY <1>5, <3>3, <3>5, <3>7, <4>1
    <3> QED BY <1>5, <3>2, <3>8
  <2> QED BY <2>1, <2>2, <2>3
<1>14. PICK f : f = x.entries
  OBVIOUS
<1>15. f \in Seq(Record) /\ Increasing(f)
  <2>1. MemOK(d, x)
    BY <1>1, RecoveredOK
  <2> QED BY <1>14, <2>1, MemTypes DEF MemOK, EntriesOK
<1>16. \A j \in 1..Len(f) : f[j].index > snap.index /\ f[j].index <= Len(w)
  <2> TAKE j \in 1..Len(f)
  <2>1. PICK k : k = n + j
    OBVIOUS
  <2>2. k \in 1..Len(e) /\ f[j] = e[k] /\ k > n
    BY <1>5, <1>6, <1>14, <2>1
  <2>3. e[k].index > snap.index /\ e[k].index \in 1..Len(w)
    BY <1>8, <1>12, <2>2
  <2> QED BY <1>5, <2>2, <2>3
<1>17. \A i \in (snap.index + 1)..Len(w) : \E j \in 1..Len(f) : f[j].index = i
  <2> TAKE i \in (snap.index + 1)..Len(w)
  <2>1. i \in 1..Len(w) /\ i > snap.index
    BY <1>5
  <2>2. PICK k \in 1..Len(e) : e[k].index = i
    BY <1>9, <2>1
  <2>3. k \notin 1..n
    BY <1>5, <1>6, <2>1, <2>2
  <2>4. k - n \in 1..Len(f) /\ n + (k - n) = k
    BY <1>5, <1>6, <1>14, <2>3
  <2>5. f[k - n] = e[k]
    BY <1>5, <1>6, <1>14, <2>4
  <2> QED BY <2>2, <2>4, <2>5
<1>18. Len(f) = Len(w) - snap.index /\ \A j \in 1..Len(f) : f[j].index = snap.index + j
  BY <1>5, <1>15, <1>16, <1>17, NoneLeftOut
<1>19. Contiguous(x)
  BY <1>5, <1>10, <1>13, <1>14, <1>18 DEF Contiguous
<1>20. Based(x, snap)
  BY <1>11, <1>13 DEF Based
<1> QED BY <1>1, <1>5, <1>10, <1>19, <1>20

(***************************************************************************)
(* Files that lose records, and a file that gains one at the end.          *)
(***************************************************************************)
SubDisk(e, d) == \A p \in Place : In(e, p) => In(d, p) /\ At(e, p) = At(d, p)

Typed(e) == e \in [DOMAIN e -> Seq(Record)] /\ DOMAIN e \subseteq 0..MaxSegment

\* Files that lose records stay well formed, in order and as asked for.
LEMMA SubDiskKeeps ==
  ASSUME NEW d, DiskOK(d), NEW e, Typed(e), SubDisk(e, d)
  PROVE  DiskOK(e) /\ (Ordered(d) => Ordered(e)) /\ \A w : AsAsked(d, w) => AsAsked(e, w)
<1>1. DiskOK(e)
  BY DEF DiskOK, Typed, SubDisk
<1>2. Ordered(d) => Ordered(e)
  <2> SUFFICES ASSUME Ordered(d), NEW p \in Place, NEW q \in Place,
                      In(e, p), In(e, q), Before(p, q), At(e, q) # Torn
               PROVE  IF At(e, p) = Torn THEN p.seg # q.seg ELSE At(e, p).index < At(e, q).index
    BY DEF Ordered
  <2>1. In(d, p) /\ In(d, q) /\ At(e, p) = At(d, p) /\ At(e, q) = At(d, q)
    BY DEF SubDisk
  <2> QED BY <2>1 DEF Ordered
<1>3. ASSUME NEW w, AsAsked(d, w) PROVE AsAsked(e, w)
  BY <1>3 DEF AsAsked, SubDisk
<1> QED BY <1>1, <1>2, <1>3

\* e is d with r at the new place np behind everything, and perhaps a new,
\* empty segment after it.
Grown(d, e, s, r, np) ==
  /\ Typed(e) /\ DOMAIN d \subseteq DOMAIN e /\ s \in DOMAIN e
  /\ np = [seg |-> s, off |-> Len(e[s])] /\ In(e, np) /\ At(e, np) = r
  /\ \A p \in Place : In(e, p) => p = np \/ In(d, p)
  /\ \A p \in Place : In(d, p) => In(e, p) /\ At(e, p) = At(d, p) /\ Before(p, np) /\ p # np
  /\ \A x \in DOMAIN d : Len(d[x]) <= Len(e[x])

LEMMA AppendIs ==
  ASSUME NEW l \in Seq(Record), NEW r \in Record
  PROVE  /\ l \o <<r>> \in Seq(Record) /\ Len(l \o <<r>>) = Len(l) + 1
         /\ \A j \in 1..Len(l) : (l \o <<r>>)[j] = l[j]
         /\ (l \o <<r>>)[Len(l) + 1] = r
<1>1. <<r>> \in Seq(Record) /\ Len(<<r>>) = 1 /\ <<r>>[1] = r
  OBVIOUS
<1>2. Len(l) \in Nat
  BY RecordTypes
<1> QED BY <1>1, <1>2, ConcatProperties

\* WriteNoSync adds the buffered record at the end of the open segment.
LEMMA WriteOutIs ==
  ASSUME NEW d, DiskOK(d), NEW m, NEW s \in 0..MaxSegment, NEW r \in Record,
         m.seg = s, m.buf = <<r>>, \A x \in DOMAIN d : x <= s
  PROVE  Grown(d, WriteOut(d, m), s, r, [seg |-> s, off |-> Len(WriteOut(d, m)[s])])
<1>1. PICK l : l = IF s \in DOMAIN d THEN d[s] ELSE <<>>
  OBVIOUS
<1>2. /\ d \in [DOMAIN d -> Seq(Record)] /\ DOMAIN d \subseteq 0..MaxSegment /\ MaxSegment \in Nat
      /\ s \in Nat
  BY LogBoundAssumption DEF DiskOK
<1>3. l \in Seq(Record) /\ Len(l) \in Nat
  <2>1. l \in Seq(Record)
    BY <1>1, <1>2
  <2> QED BY <2>1, RecordTypes
<1>4. PICK k : k = l \o <<r>>
  OBVIOUS
<1>5. /\ k \in Seq(Record) /\ Len(k) = Len(l) + 1 /\ \A j \in 1..Len(l) : k[j] = l[j]
      /\ k[Len(l) + 1] = r
  BY <1>3, <1>4, AppendIs
<1>6. PICK e : e = WriteOut(d, m)
  OBVIOUS
<1>7. e = [x \in DOMAIN d \cup {s} |-> IF x = s THEN k ELSE d[x]]
  <2>1. e = Put(d, s, k)
    BY <1>1, <1>4, <1>6 DEF WriteOut
  <2>2. Put(d, s, k) = [x \in {s} \cup DOMAIN d |-> IF x \in {s} THEN [i \in {s} |-> k][x] ELSE d[x]]
    BY DEF Put, Over
  <2> QED BY <2>1, <2>2
<1>8. DOMAIN e = DOMAIN d \cup {s} /\ e[s] = k /\ \A x \in DOMAIN d : x # s => e[x] = d[x]
  BY <1>7
<1>9. Typed(e)
  BY <1>2, <1>5, <1>7 DEF Typed
<1>10. PICK np : np = [seg |-> s, off |-> Len(e[s])]
  OBVIOUS
<1>11. np \in Place /\ np.seg = s /\ np.off = Len(l) + 1 /\ In(e, np) /\ At(e, np) = r
  BY <1>2, <1>3, <1>5, <1>8, <1>10 DEF Place, In, At
<1>12. ASSUME NEW p \in Place, In(e, p) PROVE p = np \/ In(d, p)
  <2>1. p.seg \in Nat /\ p.off \in Nat \ {0} /\ p = [seg |-> p.seg, off |-> p.off]
    BY DEF Place
  <2>2. CASE p.seg # s
    BY <1>8, <1>12, <2>2 DEF In
  <2>3. CASE p.seg = s /\ p.off = Len(l) + 1
    BY <1>5, <1>8, <1>10, <2>1, <2>3
  <2>4. CASE p.seg = s /\ p.off # Len(l) + 1
    <3>1. p.off <= Len(l)
      BY <1>3, <1>5, <1>8, <1>12, <2>1, <2>4 DEF In
    <3>2. s \in DOMAIN d
      <4> SUFFICES ASSUME s \notin DOMAIN d PROVE FALSE
        OBVIOUS
      <4>1. Len(l) = 0
        BY <1>1
      <4> QED BY <2>1, <3>1, <4>1
    <3> QED BY <1>1, <2>4, <3>1, <3>2 DEF In
  <2> QED BY <2>2, <2>3, <2>4
<1>13. ASSUME NEW p \in Place, In(d, p)
       PROVE  In(e, p) /\ At(e, p) = At(d, p) /\ Before(p, np) /\ p # np
  <2>1. p.seg \in Nat /\ p.off \in Nat \ {0} /\ p.seg <= s /\ p.seg \in DOMAIN d
    BY <1>13 DEF Place, In
  <2>2. CASE p.seg # s
    BY <1>2, <1>8, <1>11, <1>13, <2>1, <2>2 DEF In, At, Before
  <2>3. CASE p.seg = s
    <3>1. l = d[s] /\ p.off \in 1..Len(l)
      BY <1>1, <1>13, <2>1, <2>3 DEF In
    <3> QED BY <1>3, <1>5, <1>8, <1>11, <1>13, <2>1, <2>3, <3>1 DEF In, At, Before
  <2> QED BY <2>2, <2>3
<1>14. \A x \in DOMAIN d : Len(d[x]) <= Len(e[x])
  <2> TAKE x \in DOMAIN d
  <2>1. Len(d[x]) \in Nat
    BY <1>2, RecordTypes
  <2> QED BY <1>1, <1>3, <1>5, <1>8, <2>1
<1>15. Grown(d, e, s, r, np)
  BY <1>8, <1>9, <1>10, <1>11, <1>12, <1>13, <1>14 DEF Grown
<1> QED BY <1>6, <1>10, <1>15

\* A new segment leaves the records where they are.
LEMMA RollIs ==
  ASSUME NEW d, NEW c, NEW m, NEW s \in Nat, s < MaxSegment, NEW r \in Record, m.seg = s,
         \A x \in DOMAIN c : x <= s, Grown(d, c, s, r, [seg |-> s, off |-> Len(c[s])])
  PROVE  Grown(d, RollSegment(c, m), s, r, [seg |-> s, off |-> Len(RollSegment(c, m)[s])])
<1>1. CASE Len(c[s]) < SegmentSize
  <2>1. RollSegment(c, m) = c
    <3>1. Len(c[s]) \in Nat
      BY RecordTypes DEF Grown, Typed
    <3> QED BY <1>1, <3>1, LogBoundAssumption DEF RollSegment
  <2> QED BY <2>1
<1>2. CASE ~(Len(c[s]) < SegmentSize)
  <2>1. /\ c \in [DOMAIN c -> Seq(Record)] /\ DOMAIN c \subseteq 0..MaxSegment /\ MaxSegment \in Nat
        /\ s \in DOMAIN c /\ s + 1 \in 0..MaxSegment /\ s + 1 # s
    BY LogBoundAssumption DEF Grown, Typed
  <2>2. Len(c[s]) \in Nat
    BY <2>1, RecordTypes
  <2>3. PICK e : e = RollSegment(c, m)
    OBVIOUS
  <2>4. e = [x \in DOMAIN c \cup {s + 1} |-> IF x = s + 1 THEN <<>> ELSE c[x]]
    <3>1. e = Put(c, s + 1, <<>>)
      BY <1>2, <2>2, <2>3, LogBoundAssumption DEF RollSegment
    <3>2. Put(c, s + 1, <<>>) = [x \in {s + 1} \cup DOMAIN c |-> IF x \in {s + 1} THEN [i \in {s + 1} |-> <<>>][x] ELSE c[x]]
      BY DEF Put, Over
    <3> QED BY <3>1, <3>2
  <2>5. s + 1 \notin DOMAIN c
    <3> SUFFICES ASSUME s + 1 \in DOMAIN c PROVE FALSE
      OBVIOUS
    <3>1. s + 1 <= s
      OBVIOUS
    <3> QED BY <3>1
  <2>6. /\ DOMAIN e = DOMAIN c \cup {s + 1} /\ \A x \in DOMAIN c : e[x] = c[x]
        /\ e[s + 1] = <<>>
    BY <2>4, <2>5
  <2>7. Typed(e)
    <3>1. ASSUME NEW x \in DOMAIN e PROVE e[x] \in Seq(Record)
      <4>1. CASE x = s + 1
        <5>1. <<>> \in Seq(Record)
          OBVIOUS
        <5> QED BY <2>6, <4>1, <5>1
      <4>2. CASE x # s + 1
        <5>1. x \in DOMAIN c /\ e[x] = c[x]
          BY <2>6, <4>2
        <5> QED BY <2>1, <5>1
      <4> QED BY <4>1, <4>2
    <3>2. e \in [DOMAIN e -> Seq(Record)]
      BY <2>4, <3>1
    <3> QED BY <2>1, <2>6, <3>2 DEF Typed
  <2>8. \A p \in Place : (In(e, p) <=> In(c, p)) /\ (In(c, p) => At(e, p) = At(c, p))
    <3> TAKE p \in Place
    <3>1. p.off \in Nat \ {0}
      BY DEF Place
    <3>2. CASE p.seg = s + 1
      BY <2>5, <2>6, <3>1, <3>2 DEF In
    <3>3. CASE p.seg # s + 1
      BY <2>6, <3>3 DEF In, At
    <3> QED BY <3>2, <3>3
  <2>9. PICK np : np = [seg |-> s, off |-> Len(c[s])]
    OBVIOUS
  <2>10. Grown(d, c, s, r, np) /\ np \in Place /\ np = [seg |-> s, off |-> Len(e[s])]
    BY <2>1, <2>6, <2>9 DEF Grown, In
  <2>11. Grown(d, e, s, r, np)
    BY <2>6, <2>7, <2>8, <2>10 DEF Grown
  <2> QED BY <2>3, <2>10, <2>11
<1> QED BY <1>1, <1>2

\* A record added behind all others, with a higher index, keeps the order.
LEMMA GrownKeeps ==
  ASSUME NEW d, DiskOK(d), NEW e, NEW s \in Nat, NEW r \in Record, NEW np, Grown(d, e, s, r, np),
         r = Torn \/ (r.index > 0 /\ r.term > 0)
  PROVE  /\ DiskOK(e)
         /\ Ordered(d) /\ (r # Torn => \A p \in Place : In(d, p) =>
                                         IF At(d, p) = Torn THEN p.seg # s ELSE At(d, p).index < r.index)
              => Ordered(e)
<1>1. ASSUME NEW p \in Place, In(e, p), At(e, p) # Torn PROVE At(e, p).index > 0 /\ At(e, p).term > 0
  <2>1. CASE p = np
    BY <1>1, <2>1 DEF Grown
  <2>2. CASE In(d, p)
    BY <1>1, <2>2 DEF Grown, DiskOK
  <2> QED BY <1>1, <2>1, <2>2 DEF Grown
<1>2. DiskOK(e)
  BY <1>1 DEF Grown, Typed, DiskOK
<1>3. ASSUME Ordered(d),
             r # Torn => \A p \in Place : In(d, p) =>
                           IF At(d, p) = Torn THEN p.seg # s ELSE At(d, p).index < r.index,
             NEW p \in Place, NEW q \in Place, In(e, p), In(e, q), Before(p, q), At(e, q) # Torn
      PROVE  IF At(e, p) = Torn THEN p.seg # q.seg ELSE At(e, p).index < At(e, q).index
  <2>1. np.seg = s /\ At(e, np) = r
    BY DEF Grown
  <2>2. In(d, p)
    <3> SUFFICES ASSUME p = np PROVE FALSE
      BY <1>3 DEF Grown
    <3>1. CASE q = np
      BY <1>3, <3>1 DEF Before, Place
    <3>2. CASE In(d, q)
      <4>1. Before(q, np)
        BY <3>2 DEF Grown
      <4> QED BY <1>3, <4>1 DEF Before, Place
    <3> QED BY <1>3, <3>1, <3>2 DEF Grown
  <2>3. At(e, p) = At(d, p)
    BY <2>2 DEF Grown
  <2>4. CASE q = np
    BY <1>3, <2>1, <2>2, <2>3, <2>4
  <2>5. CASE In(d, q)
    <3>1. At(e, q) = At(d, q)
      BY <2>5 DEF Grown
    <3> QED BY <1>3, <2>2, <2>3, <2>5, <3>1 DEF Ordered
  <2> QED BY <1>3, <2>4, <2>5 DEF Grown
<1>4. Ordered(d) /\ (r # Torn => \A p \in Place : In(d, p) =>
                                   IF At(d, p) = Torn THEN p.seg # s ELSE At(d, p).index < r.index)
        => Ordered(e)
  BY <1>3 DEF Ordered
<1> QED BY <1>2, <1>4

(***************************************************************************)
(* Append.                                                                 *)
(***************************************************************************)

\* What an append does, its definitions unfolded.
LEMMA AppendWrites ==
  ASSUME StoreInv, NEW t \in Term, NEW flush \in BOOLEAN, AppendEntry(t, flush)
  PROVE  \E np \in Place, r \in Record : \E m :
           /\ r = [index |-> mem.lastIndex + 1, term |-> t] /\ t \in Nat /\ t > 0
           /\ Grown(disk, disk', mem.seg, r, np) /\ np.seg = mem.seg
           /\ mem' = [mem EXCEPT !.entries = mem.entries \o <<r>>, !.loc = Put(mem.loc, r.index, np),
                                 !.lastIndex = r.index, !.lastTerm = t,
                                 !.seg = LastSegment(disk'), !.open = TRUE]
           /\ m.seg = mem.seg /\ synced' = Safe(disk', m, flush /\ FsyncPerAppend)
<1>1. mem \in Mem /\ DiskOK(disk) /\ WriterOK(disk, mem) /\ mem.seg < MaxSegment
  BY DEF StoreInv, MemOK, AppendEntry
<1>2. /\ mem.lastIndex \in Nat /\ mem.seg \in Nat /\ mem.buf = <<>> /\ mem.entries \in Seq(Record)
      /\ MaxSegment \in Nat /\ t \in Nat /\ t > 0
  BY <1>1, MemTypes, TermAssumption, LogBoundAssumption
<1>3. PICK r : r = NewRecord(t)
  OBVIOUS
<1>4. r \in Record /\ r.index = mem.lastIndex + 1 /\ r.term = t /\ r = [index |-> mem.lastIndex + 1, term |-> t]
  BY <1>2, <1>3 DEF NewRecord, Record
<1>5. PICK m : m = [mem EXCEPT !.buf = Append(mem.buf, r)]
  OBVIOUS
<1>6. m.seg = mem.seg /\ m.buf = <<r>> /\ m = [mem EXCEPT !.buf = <<r>>]
  <2>1. Append(<<>>, r) = <<r>>
    OBVIOUS
  <2> QED BY <1>1, <1>2, <1>5, <2>1 DEF Mem
<1>7. PICK c : c = WriteOut(disk, m)
  OBVIOUS
<1>8. PICK e : e = RollSegment(c, m)
  OBVIOUS
<1>9. PICK s : s = mem.seg
  OBVIOUS
<1>10. s \in Nat /\ s \in 0..MaxSegment /\ s < MaxSegment /\ m.seg = s /\ \A x \in DOMAIN disk : x <= s
  BY <1>1, <1>2, <1>6, <1>9 DEF WriterOK
<1>11. Grown(disk, c, s, r, [seg |-> s, off |-> Len(c[s])])
  BY <1>1, <1>4, <1>6, <1>7, <1>10, WriteOutIs
<1>12. \A x \in DOMAIN c : x <= s
  <2>1. DOMAIN c = {s} \cup DOMAIN disk
    <3>1. c = Put(disk, s, (IF s \in DOMAIN disk THEN disk[s] ELSE <<>>) \o m.buf)
      BY <1>7, <1>10 DEF WriteOut
    <3> QED BY <3>1 DEF Put, Over
  <2> QED BY <1>10, <2>1
<1>13. Grown(disk, e, s, r, [seg |-> s, off |-> Len(e[s])])
  BY <1>4, <1>8, <1>10, <1>11, <1>12, RollIs
<1>14. PICK np : np = [seg |-> s, off |-> Len(e[s])]
  OBVIOUS
<1>15. np \in Place /\ np.seg = s
  BY <1>13, <1>14 DEF Grown, In
<1>16. disk' = e /\ synced' = Safe(e, m, flush /\ FsyncPerAppend) /\ mem' = Appended(m, e, r)
  BY <1>3, <1>5, <1>7, <1>8 DEF AppendEntry
<1>17. Append(mem.entries, r) = mem.entries \o <<r>>
  BY <1>2, <1>4, AppendIsConcat
<1>18. mem' = [mem EXCEPT !.entries = mem.entries \o <<r>>, !.loc = Put(mem.loc, r.index, np),
                          !.lastIndex = r.index, !.lastTerm = t,
                          !.seg = LastSegment(disk'), !.open = TRUE]
  <2>1. PICK lc : lc = Put(mem.loc, r.index, np)
    OBVIOUS
  <2>2. PICK es : es = Append(mem.entries, r)
    OBVIOUS
  <2>3. PICK g : g = LastSegment(e)
    OBVIOUS
  <2>4. mem' = [m EXCEPT !.entries = es, !.lastIndex = r.index, !.lastTerm = r.term, !.loc = lc,
                         !.seg = g, !.open = TRUE, !.buf = <<>>]
    <3>1. m.entries = mem.entries /\ m.loc = mem.loc
      BY <1>1, <1>6 DEF Mem
    <3> QED BY <1>10, <1>14, <1>16, <2>1, <2>2, <2>3, <3>1 DEF Appended
  <2>5. mem' = [mem EXCEPT !.entries = es, !.loc = lc, !.lastIndex = r.index, !.lastTerm = r.term,
                           !.seg = g, !.open = TRUE]
    BY <1>1, <1>2, <1>6, <2>4 DEF Mem
  <2> QED BY <1>4, <1>16, <1>17, <2>1, <2>2, <2>3, <2>5
<1> QED BY <1>2, <1>4, <1>6, <1>9, <1>13, <1>14, <1>15, <1>16, <1>18

\* The object after an append.
After(m, e, l, i, t, s) ==
  [m EXCEPT !.entries = e, !.loc = l, !.lastIndex = i, !.lastTerm = t, !.seg = s, !.open = TRUE]

IsAfter(x, m, e, l, i, t, s) ==
  /\ x \in Mem /\ x.entries = e /\ x.loc = l /\ x.lastIndex = i /\ x.lastTerm = t
  /\ x.seg = s /\ x.open /\ x.base = m.base /\ x.anchor = m.anchor

LEMMA MemAfter ==
  ASSUME NEW m \in Mem, NEW e \in Seq(Record), NEW l \in Places, NEW i \in Nat, NEW t \in Nat,
         NEW s \in Nat, NEW x, x = After(m, e, l, i, t, s)
  PROVE  IsAfter(x, m, e, l, i, t, s)
  BY DEF Mem, After, IsAfter

LEMMA PutIs ==
  ASSUME NEW l \in Places, NEW i \in Nat, NEW p \in Place
  PROVE  /\ Put(l, i, p) \in Places /\ DOMAIN Put(l, i, p) = DOMAIN l \cup {i}
         /\ Put(l, i, p)[i] = p /\ \A j \in DOMAIN l : j # i => Put(l, i, p)[j] = l[j]
<1>1. PICK g : g = [j \in {i} |-> p]
  OBVIOUS
<1>2. g \in Places /\ DOMAIN g = {i} /\ g[i] = p
  <2>1. g \in [{i} -> Place] /\ {i} \in SUBSET Nat
    BY <1>1
  <2> QED BY <1>1, <2>1, PlacesAre
<1>3. Put(l, i, p) = Over(g, l)
  BY <1>1 DEF Put
<1> QED BY <1>2, <1>3, Overlay

\* Append, with the flush of the write path or without.
LEMMA AppendPreserves ==
  ASSUME StoreInv, DurableInv, CleanInv, NEW t \in Term, NEW flush \in BOOLEAN, AppendEntry(t, flush)
  PROVE  StoreInv' /\ DurableInv' /\ CleanInv'
<1>0. PICK np \in Place, r \in Record : \E m :
           /\ r = [index |-> mem.lastIndex + 1, term |-> t] /\ t \in Nat /\ t > 0
           /\ Grown(disk, disk', mem.seg, r, np) /\ np.seg = mem.seg
           /\ mem' = [mem EXCEPT !.entries = mem.entries \o <<r>>, !.loc = Put(mem.loc, r.index, np),
                                 !.lastIndex = r.index, !.lastTerm = t,
                                 !.seg = LastSegment(disk'), !.open = TRUE]
           /\ m.seg = mem.seg /\ synced' = Safe(disk', m, flush /\ FsyncPerAppend)
  BY AppendWrites
<1>1. PICK m :
           /\ r = [index |-> mem.lastIndex + 1, term |-> t] /\ t \in Nat /\ t > 0
           /\ Grown(disk, disk', mem.seg, r, np) /\ np.seg = mem.seg
           /\ mem' = [mem EXCEPT !.entries = mem.entries \o <<r>>, !.loc = Put(mem.loc, r.index, np),
                                 !.lastIndex = r.index, !.lastTerm = t,
                                 !.seg = LastSegment(disk'), !.open = TRUE]
           /\ m.seg = mem.seg /\ synced' = Safe(disk', m, flush /\ FsyncPerAppend)
  BY <1>0
<1>2. /\ DiskOK(disk) /\ mem \in Mem /\ EntriesOK(disk, mem) /\ LocOK(mem) /\ WriterOK(disk, mem)
      /\ synced \in [DOMAIN disk -> Nat] /\ \A s \in DOMAIN disk : synced[s] <= Len(disk[s])
  BY DEF StoreInv, MemOK
<1>3. /\ mem.lastIndex \in Nat /\ mem.seg \in Nat /\ mem.entries \in Seq(Record) /\ mem.loc \in Places
      /\ Len(mem.entries) \in Nat /\ mem.base \in Nat
  BY <1>2, MemTypes
<1>4. PICK v : v = mem.lastIndex + 1
  OBVIOUS
<1>5. v \in Nat /\ v > mem.lastIndex /\ v > 0 /\ r.index = v /\ r.term = t /\ r # Torn
  BY <1>1, <1>3, <1>4 DEF Torn
<1>6. DiskOK(disk')
  BY <1>1, <1>2, <1>3, <1>5, GrownKeeps
<1>7. /\ np.seg \in DOMAIN disk' /\ In(disk', np) /\ At(disk', np) = r
      /\ \A p \in Place : In(disk', p) => p = np \/ In(disk, p)
      /\ \A p \in Place : In(disk, p) => In(disk', p) /\ At(disk', p) = At(disk, p) /\ Before(p, np) /\ p # np
  BY <1>1 DEF Grown
<1>8. /\ LastSegment(disk') \in Nat /\ LastSegment(disk') <= MaxSegment /\ mem.seg <= LastSegment(disk')
      /\ \A s \in DOMAIN disk' : s <= LastSegment(disk')
  BY <1>1, <1>6, <1>7, LastIs
<1>9. PICK e : e = mem.entries \o <<r>>
  OBVIOUS
<1>10. /\ e \in Seq(Record) /\ Len(e) = Len(mem.entries) + 1 /\ e[Len(mem.entries) + 1] = r
       /\ \A j \in 1..Len(mem.entries) : e[j] = mem.entries[j]
       /\ \A j \in 1..Len(e) : j \in 1..Len(mem.entries) \/ j = Len(mem.entries) + 1
  <2>1. PICK l : l = mem.entries
    OBVIOUS
  <2>2. /\ e \in Seq(Record) /\ Len(e) = Len(l) + 1 /\ e[Len(l) + 1] = r
        /\ \A j \in 1..Len(l) : e[j] = l[j]
    <3>1. l \in Seq(Record)
      BY <1>3, <2>1
    <3> QED BY <1>9, <2>1, <3>1, AppendIs
  <2> QED BY <1>3, <2>1, <2>2
<1>11. PICK lc : lc = Put(mem.loc, v, np)
  OBVIOUS
<1>12. /\ lc \in Places /\ DOMAIN lc = DOMAIN mem.loc \cup {v} /\ lc[v] = np
       /\ \A j \in DOMAIN mem.loc : lc[j] = mem.loc[j] /\ j \in 1..mem.lastIndex /\ j < v
  <2>1. PICK l : l = mem.loc
    OBVIOUS
  <2>2. l \in Places /\ v \in Nat /\ np \in Place /\ lc = Put(l, v, np)
    BY <1>3, <1>5, <1>11, <2>1
  <2>3. /\ lc \in Places /\ DOMAIN lc = DOMAIN l \cup {v} /\ lc[v] = np
        /\ \A j \in DOMAIN l : j # v => lc[j] = l[j]
    BY <2>2, PutIs
  <2>4. \A j \in DOMAIN l : j \in 1..mem.lastIndex /\ j < v /\ j # v
    BY <1>2, <1>3, <1>4, <2>1 DEF LocOK
  <2> QED BY <2>1, <2>3, <2>4
<1>13. PICK x : x = mem'
  OBVIOUS
<1>14. /\ x \in Mem /\ x.entries = e /\ x.loc = lc /\ x.lastIndex = v /\ x.lastTerm = t
       /\ x.seg = LastSegment(disk') /\ x.open /\ x.base = mem.base /\ x.anchor = mem.anchor
  <2>1. x = After(mem, e, lc, v, t, LastSegment(disk'))
    BY <1>1, <1>5, <1>9, <1>11, <1>13 DEF After
  <2>2. PICK g : g = LastSegment(disk')
    OBVIOUS
  <2>3. mem \in Mem /\ e \in Seq(Record) /\ lc \in Places /\ v \in Nat /\ t \in Nat /\ g \in Nat
    BY <1>1, <1>2, <1>5, <1>8, <1>10, <1>12, <2>2
  <2>4. x = After(mem, e, lc, v, t, g)
    BY <2>1, <2>2
  <2>5. IsAfter(x, mem, e, lc, v, t, g)
    BY <2>3, <2>4, MemAfter
  <2> QED BY <2>2, <2>5 DEF IsAfter
<1>15. EntriesOK(disk', x)
  <2>1. ASSUME NEW j \in 1..Len(mem.entries)
        PROVE  /\ mem.entries[j].index \in Nat /\ mem.entries[j].index \in 1..mem.lastIndex
               /\ mem.entries[j].term > 0
               /\ mem.entries[j].index > mem.base => Exact(disk', x, mem.entries[j])
    <3>1. /\ mem.entries[j].index \in 1..mem.lastIndex /\ mem.entries[j].term > 0
          /\ mem.entries[j].index > mem.base => Exact(disk, mem, mem.entries[j])
      BY <1>2 DEF EntriesOK
    <3>2. mem.entries[j].index > mem.base => Exact(disk', x, mem.entries[j])
      BY <1>7, <1>12, <1>14, <3>1 DEF Exact, In
    <3> QED BY <1>3, <3>1, <3>2
  <2>2. Increasing(e)
    <3> SUFFICES ASSUME NEW i \in 1..Len(e), NEW j \in 1..Len(e), i < j PROVE e[i].index < e[j].index
      BY DEF Increasing
    <3>1. i \in 1..Len(mem.entries)
      BY <1>3, <1>10
    <3>2. CASE j \in 1..Len(mem.entries)
      BY <1>2, <1>10, <3>1, <3>2 DEF EntriesOK, Increasing
    <3>3. CASE j = Len(mem.entries) + 1
      <4>1. e[j].index = v /\ e[i] = mem.entries[i]
        BY <1>5, <1>10, <3>1, <3>3
      <4>2. mem.entries[i].index \in 1..mem.lastIndex
        BY <2>1, <3>1
      <4> QED BY <1>3, <1>5, <4>1, <4>2
    <3> QED BY <1>10, <3>2, <3>3
  <2>3. Exact(disk', x, r)
    BY <1>5, <1>7, <1>12, <1>14 DEF Exact
  <2>4. ASSUME NEW j \in 1..Len(e)
        PROVE  /\ e[j].index \in 1..v /\ e[j].term > 0
               /\ e[j].index > mem.base => Exact(disk', x, e[j])
    <3>1. CASE j \in 1..Len(mem.entries)
      <4>1. e[j] = mem.entries[j] /\ mem.entries[j].index \in 1..mem.lastIndex
        BY <1>10, <2>1, <3>1
      <4>2. e[j].index \in 1..v
        BY <1>3, <1>5, <4>1
      <4> QED BY <2>1, <3>1, <4>1, <4>2
    <3>2. CASE j = Len(mem.entries) + 1
      BY <1>1, <1>5, <1>10, <2>3, <3>2
    <3> QED BY <1>10, <3>1, <3>2
  <2> QED BY <1>14, <2>2, <2>4 DEF EntriesOK
<1>16. \A j \in DOMAIN mem.loc : Before(mem.loc[j], np)
  <2> TAKE j \in DOMAIN mem.loc
  <2>1. mem.loc[j] \in Place /\ mem.loc[j].seg \in Nat
    BY <1>3, LocTypes DEF Place
  <2>2. mem.loc[j].seg <= mem.seg /\ (mem.loc[j].seg = mem.seg => In(disk, mem.loc[j]))
    BY <1>2 DEF WriterOK
  <2>3. CASE mem.loc[j].seg = mem.seg
    BY <1>7, <2>1, <2>2, <2>3
  <2>4. CASE mem.loc[j].seg # mem.seg
    BY <1>1, <1>3, <2>1, <2>2, <2>4 DEF Before
  <2> QED BY <2>3, <2>4
<1>17. LocOK(x)
  <2>1. \A j \in DOMAIN lc : j \in 1..v
    BY <1>3, <1>5, <1>12
  <2>2. ASSUME NEW i \in DOMAIN lc, NEW j \in DOMAIN lc, i < j PROVE Before(lc[i], lc[j])
    <3>1. i \in DOMAIN mem.loc
      BY <1>5, <1>12, <2>1, <2>2
    <3>2. CASE j \in DOMAIN mem.loc
      BY <1>2, <1>12, <2>2, <3>1, <3>2 DEF LocOK
    <3>3. CASE j = v
      BY <1>12, <1>16, <3>1, <3>3
    <3> QED BY <1>12, <3>2, <3>3
  <2> QED BY <1>14, <2>1, <2>2 DEF LocOK
<1>18. WriterOK(disk', x)
  <2>1. ASSUME NEW j \in DOMAIN lc
        PROVE  lc[j].seg <= x.seg /\ (lc[j].seg = x.seg => In(disk', lc[j]))
    <3>1. CASE j = v
      BY <1>1, <1>7, <1>8, <1>12, <1>14, <3>1
    <3>2. CASE j \in DOMAIN mem.loc
      <4>1. mem.loc[j] \in Place /\ mem.loc[j].seg \in Nat
        BY <1>3, <3>2, LocTypes DEF Place
      <4>2. mem.loc[j].seg <= mem.seg /\ (mem.loc[j].seg = mem.seg => In(disk, mem.loc[j]))
        BY <1>2, <3>2 DEF WriterOK
      <4>3. lc[j] = mem.loc[j]
        BY <1>12, <3>2
      <4>4. lc[j].seg <= x.seg
        BY <1>3, <1>8, <1>14, <4>1, <4>2, <4>3
      <4>5. lc[j].seg = x.seg => mem.loc[j].seg = mem.seg
        BY <1>3, <1>8, <1>14, <4>1, <4>2, <4>3
      <4> QED BY <1>7, <4>1, <4>2, <4>3, <4>4, <4>5
    <3> QED BY <1>12, <3>1, <3>2
  <2> QED BY <1>8, <1>14, <2>1 DEF WriterOK
<1>19. /\ synced' \in [DOMAIN disk' -> Nat]
       /\ \A s \in DOMAIN disk' : synced'[s] <= Len(disk'[s])
       /\ \A s \in DOMAIN disk : synced[s] <= synced'[s]
       /\ flush /\ FsyncPerAppend => synced'[np.seg] = Len(disk'[np.seg])
  <2>1. synced' = [s \in DOMAIN disk' |-> IF s = np.seg /\ flush /\ FsyncPerAppend THEN Len(disk'[s])
                                          ELSE IF s \in DOMAIN synced THEN synced[s] ELSE 0]
    BY <1>1 DEF Safe
  <2>2. \A s \in DOMAIN disk' : Len(disk'[s]) \in Nat
    BY <1>6, RecordTypes DEF DiskOK
  <2>3. DOMAIN synced = DOMAIN disk /\ DOMAIN disk \subseteq DOMAIN disk' /\ \A s \in DOMAIN disk : Len(disk[s]) <= Len(disk'[s])
    BY <1>1, <1>2 DEF Grown
  <2>4. \A s \in DOMAIN disk : Len(disk[s]) \in Nat /\ synced[s] \in Nat /\ synced[s] <= Len(disk[s])
    BY <1>2, RecordTypes DEF DiskOK
  <2>5. ASSUME NEW s \in DOMAIN disk'
        PROVE  /\ synced'[s] \in Nat /\ synced'[s] <= Len(disk'[s])
               /\ s \in DOMAIN disk => synced[s] <= synced'[s]
    <3>1. CASE s \in DOMAIN disk
      <4>1. synced'[s] = Len(disk'[s]) \/ synced'[s] = synced[s]
        BY <2>1, <2>3, <3>1
      <4>2. Len(disk[s]) <= Len(disk'[s]) /\ Len(disk'[s]) \in Nat /\ Len(disk[s]) \in Nat
            /\ synced[s] \in Nat /\ synced[s] <= Len(disk[s])
        BY <2>2, <2>3, <2>4, <3>1
      <4> QED BY <4>1, <4>2
    <3>2. CASE s \notin DOMAIN disk
      <4>1. synced'[s] = Len(disk'[s]) \/ synced'[s] = 0
        BY <2>1, <2>3, <3>2
      <4> QED BY <2>2, <3>2, <4>1
    <3> QED BY <3>1, <3>2
  <2>6. synced' \in [DOMAIN disk' -> Nat]
    BY <2>1, <2>5
  <2>7. flush /\ FsyncPerAppend => synced'[np.seg] = Len(disk'[np.seg])
    BY <1>7, <2>1
  <2> QED BY <2>3, <2>5, <2>6, <2>7
<1>20. StoreInv'
  <2>1. MemOK(disk', mem')
    BY <1>8, <1>13, <1>14, <1>15, <1>17, <1>18 DEF MemOK
  <2>2. meta' \in Record
    BY DEF AppendEntry, StoreInv
  <2>3. health' \in {"clean", "failed", "buried"}
    BY DEF AppendEntry, StoreInv
  <2>4. want' \in Seq(Nat)
    <3>1. want \in Seq(Nat) /\ <<>> \in Seq(Nat) /\ Append(want, t) \in Seq(Nat)
      BY <1>1 DEF StoreInv
    <3> QED BY <3>1 DEF AppendEntry
  <2>5. flushed' \subseteq Record /\ \A f \in flushed' : f.index > 0
    <3>1. flushed' = flushed \/ flushed' = flushed \cup {NewRecord(t)}
      BY DEF AppendEntry
    <3>2. NewRecord(t) = r
      BY <1>1 DEF NewRecord
    <3> QED BY <1>5, <3>1, <3>2 DEF StoreInv
  <2> QED BY <1>6, <1>19, <2>1, <2>2, <2>3, <2>4, <2>5 DEF StoreInv
<1>21. DurableInv'
  <2> SUFFICES ASSUME health' # "buried"
               PROVE  /\ Ordered(disk') /\ Complete(disk', x, meta.index) /\ Separates(disk', x)
                      /\ \A f \in flushed' : f.index > meta.index => Safely(disk', synced', f)
    BY <1>13 DEF DurableInv, AppendEntry
  <2>1. health # "buried" /\ mem.seg \notin TornSegments
    BY DEF AppendEntry, Buried
  <2>2. /\ Ordered(disk) /\ Complete(disk, mem, meta.index) /\ Separates(disk, mem)
        /\ \A f \in flushed : f.index > meta.index => Safely(disk, synced, f)
    BY <2>1 DEF DurableInv
  <2>3. ASSUME NEW p \in Place, In(disk, p)
        PROVE  IF At(disk, p) = Torn THEN p.seg # mem.seg ELSE At(disk, p).index < v
    <3>1. CASE At(disk, p) = Torn
      <4>1. p.seg \in DOMAIN disk /\ p.off \in 1..Len(disk[p.seg])
        BY <2>3 DEF In, Place
      <4>2. disk[p.seg] \in Seq(Record)
        BY <1>2, <4>1 DEF DiskOK
      <4>3. DOMAIN disk[p.seg] = 1..Len(disk[p.seg])
        BY <4>2, RecordTypes
      <4>4. Torn \in Range(disk[p.seg])
        BY <3>1, <4>1, <4>3 DEF Range, At
      <4>5. p.seg \in TornSegments
        BY <4>1, <4>4 DEF TornSegments
      <4> QED BY <2>1, <3>1, <4>5
    <3>2. CASE At(disk, p) # Torn
      <4>1. At(disk, p).index <= mem.lastIndex
        BY <2>2, <2>3, <3>2 DEF Complete
      <4>2. At(disk, p).index \in Nat
        BY <1>2, <2>3, RecordTypes DEF In, At, DiskOK, Place
      <4> QED BY <1>3, <1>4, <3>2, <4>1, <4>2
    <3> QED BY <3>1, <3>2
  <2>4. Ordered(disk')
    <3>1. \A p \in Place : In(disk, p) =>
            IF At(disk, p) = Torn THEN p.seg # mem.seg ELSE At(disk, p).index < r.index
      BY <1>5, <2>3
    <3>2. PICK s : s = mem.seg
      OBVIOUS
    <3>3. /\ DiskOK(disk) /\ s \in Nat /\ r \in Record /\ Grown(disk, disk', s, r, np)
          /\ r.index > 0 /\ r.term > 0
      BY <1>1, <1>2, <1>3, <1>5, <3>2
    <3>4. \A p \in Place : In(disk, p) =>
            IF At(disk, p) = Torn THEN p.seg # s ELSE At(disk, p).index < r.index
      BY <3>1, <3>2
    <3> QED BY <2>2, <3>3, <3>4, GrownKeeps
  <2>5. Complete(disk', x, meta.index)
    <3> SUFFICES ASSUME NEW p \in Place, In(disk', p), At(disk', p) # Torn
                 PROVE  /\ At(disk', p).index <= x.lastIndex
                        /\ At(disk', p).index > meta.index =>
                             \E j \in 1..Len(x.entries) : x.entries[j] = At(disk', p)
      BY DEF Complete
    <3>1. CASE p = np
      <4>1. Len(mem.entries) + 1 \in 1..Len(e)
        BY <1>3, <1>10
      <4> QED BY <1>5, <1>7, <1>10, <1>14, <3>1, <4>1
    <3>2. CASE In(disk, p)
      <4>1. At(disk', p) = At(disk, p)
        BY <1>7, <3>2
      <4>2. At(disk, p).index < v
        BY <2>3, <3>2, <4>1
      <4>3. At(disk, p).index \in Nat
        BY <1>2, <3>2, RecordTypes DEF In, At, DiskOK, Place
      <4>4. ASSUME At(disk, p).index > meta.index
            PROVE  \E j \in 1..Len(x.entries) : x.entries[j] = At(disk, p)
        <5>1. PICK j \in 1..Len(mem.entries) : mem.entries[j] = At(disk, p)
          BY <2>2, <3>2, <4>1, <4>4 DEF Complete
        <5>2. j \in 1..Len(e)
          BY <1>3, <1>10
        <5> QED BY <1>10, <1>14, <5>1, <5>2
      <4> QED BY <1>5, <1>14, <4>1, <4>2, <4>3, <4>4
    <3> QED BY <1>7, <3>1, <3>2
  <2>6. Separates(disk', x)
    <3> SUFFICES ASSUME NEW i \in DOMAIN lc, NEW p \in Place,
                        In(disk', p), At(disk', p) # Torn, Before(p, lc[i])
                 PROVE  At(disk', p).index < i
      BY <1>14 DEF Separates
    <3>1. In(disk, p)
      <4> SUFFICES ASSUME p = np PROVE FALSE
        BY <1>7
      <4>1. CASE i = v
        BY <1>12, <4>1 DEF Before, Place
      <4>2. CASE i \in DOMAIN mem.loc
        <5>1. Before(mem.loc[i], np) /\ lc[i] = mem.loc[i] /\ mem.loc[i] \in Place
          BY <1>3, <1>12, <1>16, <4>2, LocTypes
        <5> QED BY <5>1 DEF Before, Place
      <4> QED BY <1>12, <4>1, <4>2
    <3>2. At(disk', p) = At(disk, p)
      BY <1>7, <3>1
    <3>3. CASE i = v
      BY <2>3, <3>1, <3>2, <3>3
    <3>4. CASE i \in DOMAIN mem.loc
      BY <1>12, <2>2, <3>1, <3>2, <3>4 DEF Separates
    <3> QED BY <1>12, <3>3, <3>4
  <2>7. ASSUME NEW f \in flushed', f.index > meta.index PROVE Safely(disk', synced', f)
    <3>1. CASE f \in flushed
      <4>1. PICK p \in Place : In(disk, p) /\ p.off <= synced[p.seg] /\ At(disk, p) = f
        BY <2>2, <2>7, <3>1 DEF Safely
      <4>2. In(disk', p) /\ At(disk', p) = f
        BY <1>7, <4>1
      <4>3. /\ p.seg \in DOMAIN disk /\ p.seg \in DOMAIN disk' /\ p.off \in Nat
            /\ synced[p.seg] <= synced'[p.seg] /\ synced[p.seg] \in Nat /\ synced'[p.seg] \in Nat
        BY <1>2, <1>19, <4>1, <4>2 DEF In, Place
      <4>4. p.off <= synced'[p.seg]
        BY <4>1, <4>3
      <4> QED BY <4>2, <4>4 DEF Safely
    <3>2. CASE f \notin flushed
      <4>1. flush /\ FsyncPerAppend /\ f = NewRecord(t)
        BY <3>2 DEF AppendEntry
      <4>2. f = r
        BY <1>1, <4>1 DEF NewRecord
      <4>3. np.off <= synced'[np.seg]
        BY <1>7, <1>19, <4>1 DEF In
      <4> QED BY <1>7, <4>2, <4>3 DEF Safely
    <3> QED BY <3>1, <3>2
  <2> QED BY <2>4, <2>5, <2>6, <2>7
<1>22. CleanInv'
  <2> SUFFICES ASSUME health' = "clean"
               PROVE  /\ AsAsked(disk', want') /\ x.lastIndex = Len(want')
                      /\ \A i \in 1..Len(want') : i > meta.index \/ i = Len(want') => Present(disk', i)
                      /\ Based(x, meta) /\ Contiguous(x)
    BY <1>13 DEF CleanInv, AppendEntry
  <2>1. health = "clean" /\ want' = Append(want, t)
    BY DEF AppendEntry
  <2>2. /\ AsAsked(disk, want) /\ mem.lastIndex = Len(want)
        /\ \A i \in 1..Len(want) : i > meta.index \/ i = Len(want) => Present(disk, i)
        /\ Based(mem, meta) /\ Contiguous(mem)
    BY <2>1 DEF CleanInv
  <2>3. /\ Len(want') = v /\ want'[v] = t /\ \A i \in 1..Len(want) : want'[i] = want[i]
    <3>1. want \in Seq(Nat) /\ t \in Nat
      BY <1>1 DEF StoreInv
    <3> QED BY <1>4, <2>1, <2>2, <3>1, AppendProperties
  <2>4. AsAsked(disk', want')
    <3> SUFFICES ASSUME NEW p \in Place, In(disk', p)
                 PROVE  /\ At(disk', p) # Torn /\ At(disk', p).index <= Len(want')
                        /\ At(disk', p).term = want'[At(disk', p).index]
      BY DEF AsAsked
    <3>1. CASE p = np
      BY <1>5, <1>7, <2>3, <3>1
    <3>2. CASE In(disk, p)
      <4>1. At(disk', p) = At(disk, p)
        BY <1>7, <3>2
      <4>2. At(disk, p) # Torn /\ At(disk, p).index <= Len(want) /\ At(disk, p).term = want[At(disk, p).index]
        BY <2>2, <3>2 DEF AsAsked
      <4>3. At(disk, p).index > 0
        BY <1>2, <3>2, <4>2 DEF DiskOK
      <4>4. At(disk, p).index \in Nat
        BY <1>2, <3>2, RecordTypes DEF In, At, DiskOK, Place
      <4>5. At(disk, p).index \in 1..Len(want)
        BY <1>3, <2>2, <4>2, <4>3, <4>4
      <4> QED BY <1>3, <1>4, <2>2, <2>3, <4>1, <4>2, <4>4, <4>5
    <3> QED BY <1>7, <3>1, <3>2
  <2>5. ASSUME NEW i \in 1..Len(want'), i > meta.index \/ i = Len(want')
        PROVE  Present(disk', i)
    <3>1. CASE i = v
      BY <1>5, <1>7, <3>1 DEF Present
    <3>2. CASE i # v
      <4>1. i \in 1..Len(want) /\ i > meta.index
        BY <1>3, <1>4, <2>2, <2>3, <2>5, <3>2
      <4>2. PICK p \in Place : In(disk, p) /\ At(disk, p).index = i
        BY <2>2, <4>1 DEF Present
      <4> QED BY <1>7, <4>2 DEF Present
    <3> QED BY <3>1, <3>2
  <2>6. Based(x, meta)
    BY <1>14, <2>2 DEF Based
  <2>7. Contiguous(x)
    <3>1. /\ Len(mem.entries) = mem.lastIndex - mem.base
          /\ \A j \in 1..Len(mem.entries) : mem.entries[j].index = mem.base + j
      BY <2>2 DEF Contiguous
    <3>2. Len(e) = v - mem.base
      BY <1>3, <1>4, <1>10, <3>1
    <3>3. ASSUME NEW j \in 1..Len(e) PROVE e[j].index = mem.base + j
      <4>1. CASE j \in 1..Len(mem.entries)
        BY <1>10, <3>1, <4>1
      <4>2. CASE j = Len(mem.entries) + 1
        BY <1>3, <1>4, <1>5, <1>10, <3>1, <4>2
      <4> QED BY <1>10, <4>1, <4>2
    <3> QED BY <1>1, <1>14, <3>2, <3>3 DEF Contiguous
  <2> QED BY <1>14, <2>3, <2>4, <2>5, <2>6, <2>7
<1> QED BY <1>20, <1>21, <1>22

(***************************************************************************)
(* Failures.  What the files must be for the new process to be right.      *)
(***************************************************************************)
Sized(d, safe) == safe \in [DOMAIN d -> Nat] /\ \A s \in DOMAIN d : safe[s] <= Len(d[s])

Asked(d, snap, w) ==
  /\ AsAsked(d, w) /\ snap.index <= Len(w)
  /\ \A i \in 1..Len(w) : i > snap.index \/ i = Len(w) => Present(d, i)
  /\ IF snap.index = 0 THEN snap = Torn ELSE snap.term > 0

\* A restart builds the log anew: what the files satisfy is enough.
LEMMA Restarts ==
  ASSUME DiskOK(disk'), meta' \in Record, Reopen, Sized(disk', synced'),
         health' \in {"clean", "failed", "buried"}, want' \in Seq(Nat),
         flushed' \subseteq Record, \A f \in flushed' : f.index > 0,
         health' # "buried" => Ordered(disk'),
         health' # "buried" =>
           \A f \in flushed' : f.index > meta'.index => Safely(disk', synced', f),
         health' = "clean" => Asked(disk', meta', want')
  PROVE  StoreInv' /\ DurableInv' /\ CleanInv'
<1>1. PICK d : d = disk'
  OBVIOUS
<1>2. PICK snap : snap = meta'
  OBVIOUS
<1>3. PICK x : x = mem'
  OBVIOUS
<1>4. DiskOK(d) /\ snap \in Record /\ x = Recovered(d, snap)
  BY <1>1, <1>2, <1>3 DEF Reopen
<1>5. MemOK(d, x)
  BY <1>4, RecoveredOK
<1>6. StoreInv'
  BY <1>1, <1>3, <1>4, <1>5 DEF StoreInv, Sized
<1>7. Ordered(d) => Complete(d, x, snap.index) /\ Separates(d, x)
  BY <1>4, RecoveredAll
<1>8. DurableInv'
  BY <1>1, <1>2, <1>3, <1>7 DEF DurableInv
<1>9. CleanInv'
  <2> SUFFICES ASSUME health' = "clean" PROVE CleanInv'
    BY DEF CleanInv
  <2>1. PICK w : w = want'
    OBVIOUS
  <2>2. w \in Seq(Nat) /\ Ordered(d) /\ Asked(d, snap, w)
    BY <1>1, <1>2, <2>1
  <2>3. /\ AsAsked(d, w) /\ snap.index <= Len(w)
        /\ \A i \in 1..Len(w) : i > snap.index \/ i = Len(w) => Present(d, i)
        /\ IF snap.index = 0 THEN snap = Torn ELSE snap.term > 0
    BY <2>2 DEF Asked
  <2>4. x.lastIndex = Len(w) /\ Based(x, snap) /\ Contiguous(x)
    BY <1>4, <2>2, <2>3, RecoveredClean
  <2> QED BY <1>1, <1>2, <1>3, <2>1, <2>3, <2>4 DEF CleanInv
<1> QED BY <1>6, <1>8, <1>9

\* Where the log stands between two operations.
LEMMA CleanAsked ==
  ASSUME StoreInv, CleanInv, health = "clean"
  PROVE  Asked(disk, meta, want)
<1>1. /\ AsAsked(disk, want) /\ mem.lastIndex = Len(want)
      /\ \A i \in 1..Len(want) : i > meta.index \/ i = Len(want) => Present(disk, i)
      /\ Based(mem, meta) /\ Contiguous(mem)
  BY DEF CleanInv
<1>2. mem \in Mem /\ meta \in Record
  BY DEF StoreInv, MemOK
<1>3. Len(mem.entries) \in Nat /\ mem.lastIndex \in Nat /\ mem.base \in Nat
  BY <1>2, MemTypes
<1>4. Len(mem.entries) = mem.lastIndex - mem.base /\ mem.base = meta.index
  BY <1>1 DEF Contiguous, Based
<1>5. meta.index <= Len(want)
  BY <1>1, <1>3, <1>4
<1> QED BY <1>1, <1>5 DEF Asked, Based

\* The process dies between two operations.
LEMMA KillPreserves ==
  ASSUME StoreInv, DurableInv, CleanInv, Kill
  PROVE  StoreInv' /\ DurableInv' /\ CleanInv'
<1>1. /\ disk' = disk /\ synced' = synced /\ meta' = meta /\ health' = health /\ want' = want
      /\ flushed' = flushed /\ Reopen
  BY DEF Kill, history
<1>2. /\ DiskOK(disk') /\ meta' \in Record /\ Sized(disk', synced')
      /\ health' \in {"clean", "failed", "buried"} /\ want' \in Seq(Nat)
      /\ flushed' \subseteq Record /\ \A f \in flushed' : f.index > 0
  BY <1>1 DEF StoreInv, Sized
<1>3. health' # "buried" => Ordered(disk')
  BY <1>1 DEF DurableInv
<1>4. health' # "buried" =>
        \A f \in flushed' : f.index > meta'.index => Safely(disk', synced', f)
  BY <1>1 DEF DurableInv
<1>5. health' = "clean" => Asked(disk', meta', want')
  BY <1>1, CleanAsked
<1> QED BY <1>1, <1>2, <1>3, <1>4, <1>5, Restarts

\* Flush of the periodic flusher.
LEMMA PersistPreserves ==
  ASSUME StoreInv, DurableInv, CleanInv, Persist
  PROVE  StoreInv' /\ DurableInv' /\ CleanInv'
<1>1. mem \in Mem /\ synced \in [DOMAIN disk -> Nat]
  BY DEF StoreInv, MemOK
<1>2. mem.buf = <<>>
  BY <1>1, MemTypes
<1>3. synced' = [s \in DOMAIN disk |-> IF s \in DOMAIN synced THEN synced[s] ELSE 0]
  BY <1>2 DEF Persist, Safe
<1>4. synced' = synced
  BY <1>1, <1>3
<1>5. /\ disk' = disk /\ meta' = meta /\ mem' = mem /\ health' = health /\ want' = want
      /\ flushed' = flushed
  BY DEF Persist
<1>6. StoreInv'
  BY <1>4, <1>5 DEF StoreInv
<1>7. DurableInv'
  BY <1>4, <1>5 DEF DurableInv
<1>8. CleanInv'
  BY <1>5 DEF CleanInv
<1> QED BY <1>6, <1>7, <1>8

\* After a failure the log is not clean any more, and buried stays buried.
LEMMA FailsIs ==
  ASSUME StoreInv, Fails
  PROVE  /\ health' \in {"failed", "buried"} /\ (health' # "buried" => health # "buried")
         /\ want' \in Seq(Nat)
<1>1. <<>> \in Seq(Nat)
  OBVIOUS
<1> QED BY <1>1 DEF StoreInv, Fails

\* The process dies while a record is being written: it may be torn.
LEMMA KillInAppendPreserves ==
  ASSUME StoreInv, DurableInv, CleanInv, KillInAppend
  PROVE  StoreInv' /\ DurableInv' /\ CleanInv'
<1>1. PICK m : m = [mem EXCEPT !.buf = <<Torn>>]
  OBVIOUS
<1>2. /\ mem.seg < MaxSegment /\ Fails /\ disk' = WriteOut(disk, m) /\ synced' = Safe(disk', m, FALSE)
      /\ meta' = meta /\ flushed' = flushed /\ Reopen
  BY <1>1 DEF KillInAppend
<1>3. mem \in Mem /\ DiskOK(disk) /\ WriterOK(disk, mem) /\ Sized(disk, synced)
  BY DEF StoreInv, MemOK, Sized
<1>4. mem.seg \in Nat /\ m.seg = mem.seg /\ m.buf = <<Torn>> /\ Torn \in Record
  <2>1. mem.seg \in Nat
    BY <1>3, MemTypes
  <2>2. Torn \in Record
    BY DEF Torn, Record
  <2> QED BY <1>1, <1>3, <2>1, <2>2 DEF Mem
<1>5. PICK s : s = mem.seg
  OBVIOUS
<1>6. s \in Nat /\ s \in 0..MaxSegment /\ m.seg = s /\ \A x \in DOMAIN disk : x <= s
  BY <1>2, <1>3, <1>4, <1>5, LogBoundAssumption DEF WriterOK
<1>7. PICK np : np = [seg |-> s, off |-> Len(disk'[s])]
  OBVIOUS
<1>8. Grown(disk, disk', s, Torn, np)
  BY <1>2, <1>3, <1>4, <1>6, <1>7, WriteOutIs
<1>9. DiskOK(disk') /\ (Ordered(disk) => Ordered(disk'))
  BY <1>3, <1>4, <1>6, <1>8, GrownKeeps
<1>10. /\ Sized(disk', synced') /\ \A x \in DOMAIN disk : synced'[x] = synced[x]
  <2>1. synced' = [x \in DOMAIN disk' |-> IF x \in DOMAIN synced THEN synced[x] ELSE 0]
    BY <1>2 DEF Safe
  <2>2. /\ DOMAIN disk \subseteq DOMAIN disk' /\ DOMAIN synced = DOMAIN disk
        /\ \A x \in DOMAIN disk : Len(disk[x]) <= Len(disk'[x])
    BY <1>3, <1>8 DEF Grown, Sized
  <2>3. \A x \in DOMAIN disk' : Len(disk'[x]) \in Nat
    BY <1>9, RecordTypes DEF DiskOK
  <2>4. \A x \in DOMAIN disk : Len(disk[x]) \in Nat /\ synced[x] \in Nat /\ synced[x] <= Len(disk[x])
    BY <1>3, RecordTypes DEF DiskOK, Sized
  <2>5. ASSUME NEW x \in DOMAIN disk' PROVE synced'[x] \in Nat /\ synced'[x] <= Len(disk'[x])
    <3>1. CASE x \in DOMAIN disk
      <4>1. synced'[x] = synced[x]
        BY <2>1, <2>2, <3>1
      <4>2. Len(disk[x]) <= Len(disk'[x]) /\ Len(disk'[x]) \in Nat
        BY <2>2, <2>3, <3>1
      <4>3. Len(disk[x]) \in Nat /\ synced[x] \in Nat /\ synced[x] <= Len(disk[x])
        BY <2>4, <3>1
      <4> QED BY <4>1, <4>2, <4>3
    <3>2. CASE x \notin DOMAIN disk
      BY <2>1, <2>2, <2>3, <3>2
    <3> QED BY <3>1, <3>2
  <2>6. synced' \in [DOMAIN disk' -> Nat]
    BY <2>1, <2>5
  <2> QED BY <2>1, <2>2, <2>5, <2>6 DEF Sized
<1>11. ASSUME health # "buried", NEW f \in flushed, f.index > meta.index
       PROVE  Safely(disk', synced', f)
  <2>1. PICK p \in Place : In(disk, p) /\ p.off <= synced[p.seg] /\ At(disk, p) = f
    BY <1>11 DEF DurableInv, Safely
  <2>2. In(disk', p) /\ At(disk', p) = f
    BY <1>8, <2>1 DEF Grown
  <2>3. p.off <= synced'[p.seg]
    BY <1>10, <2>1 DEF In
  <2> QED BY <2>2, <2>3 DEF Safely
<1>12. /\ health' \in {"failed", "buried"} /\ (health' # "buried" => health # "buried")
       /\ want' \in Seq(Nat)
  BY <1>2, FailsIs
<1>13. health' # "buried" => Ordered(disk')
  BY <1>9, <1>12 DEF DurableInv
<1>14. health' # "buried" =>
         \A f \in flushed' : f.index > meta'.index => Safely(disk', synced', f)
  BY <1>2, <1>11, <1>12
<1>15. /\ meta' \in Record /\ flushed' \subseteq Record /\ \A f \in flushed' : f.index > 0
  BY <1>2 DEF StoreInv
<1>16. health' \in {"clean", "failed", "buried"} /\ (health' = "clean" => Asked(disk', meta', want'))
  BY <1>12
<1> QED BY <1>2, <1>9, <1>10, <1>12, <1>13, <1>14, <1>15, <1>16, Restarts

(***************************************************************************)
(* Compaction.                                                             *)
(***************************************************************************)
LEMMA ShrunkIs ==
  ASSUME Sized(disk, synced), NEW e, Typed(e), DOMAIN e \subseteq DOMAIN disk
  PROVE  /\ Sized(e, Shrunk(e))
         /\ \A p \in Place : In(e, p) /\ p.off <= synced[p.seg] => p.off <= Shrunk(e)[p.seg]
<1>1. Shrunk(e) = [s \in DOMAIN e |-> IF synced[s] < Len(e[s]) THEN synced[s] ELSE Len(e[s])]
  BY DEF Shrunk
<1>2. \A s \in DOMAIN e : synced[s] \in Nat /\ Len(e[s]) \in Nat
  BY RecordTypes DEF Typed, Sized
<1>3. Sized(e, Shrunk(e))
  BY <1>1, <1>2 DEF Sized
<1>4. ASSUME NEW p \in Place, In(e, p), p.off <= synced[p.seg] PROVE p.off <= Shrunk(e)[p.seg]
  BY <1>1, <1>2, <1>4 DEF In
<1> QED BY <1>3, <1>4

LEMMA RestrictIs ==
  ASSUME NEW d, DiskOK(d), NEW S \in SUBSET DOMAIN d, NEW e, e = Restrict(d, S)
  PROVE  /\ Typed(e) /\ SubDisk(e, d) /\ DOMAIN e = S
         /\ \A p \in Place : In(d, p) /\ p.seg \in S => In(e, p)
<1>1. DOMAIN e = S /\ \A s \in S : e[s] = d[s]
  BY DEF Restrict
<1>2. e \in [S -> Seq(Record)]
  BY <1>1 DEF DiskOK, Restrict
<1>3. Typed(e)
  BY <1>1, <1>2 DEF Typed, DiskOK
<1>4. SubDisk(e, d)
  BY <1>1 DEF SubDisk, In, At
<1>5. \A p \in Place : In(d, p) /\ p.seg \in S => In(e, p)
  BY <1>1 DEF In
<1> QED BY <1>1, <1>3, <1>4, <1>5

\* The segments that compaction removes hold nothing from index i on.
LEMMA CompactedFiles ==
  ASSUME StoreInv, DurableInv, NEW i \in Nat, NEW gone \in SUBSET Obsolete(i),
         NEW e, e = CompactSegments(i, gone)
  PROVE  /\ DiskOK(e) /\ SubDisk(e, disk) /\ DOMAIN e \subseteq DOMAIN disk /\ Sized(e, Shrunk(e))
         /\ \A p \in Place : In(disk, p) /\ p.seg \notin gone => In(e, p)
         /\ \A s \in gone : i \in DOMAIN mem.loc /\ s < mem.loc[i].seg
         /\ health # "buried" =>
              /\ Ordered(e)
              /\ \A p \in Place : In(disk, p) /\ At(disk, p) # Torn /\ At(disk, p).index >= i => In(e, p)
              /\ \A f \in flushed : f.index > i /\ f.index > meta.index => Safely(e, Shrunk(e), f)
<1>1. DiskOK(disk) /\ Sized(disk, synced) /\ mem \in Mem
  BY DEF StoreInv, Sized, MemOK
<1>2. PICK S : S = DOMAIN disk \ gone
  OBVIOUS
<1>3. e = Restrict(disk, S) /\ S \in SUBSET DOMAIN disk
  BY <1>2 DEF CompactSegments
<1>4. /\ Typed(e) /\ SubDisk(e, disk) /\ DOMAIN e = S
      /\ \A p \in Place : In(disk, p) /\ p.seg \in S => In(e, p)
  BY <1>1, <1>3, RestrictIs
<1>5. DiskOK(e) /\ (Ordered(disk) => Ordered(e))
  BY <1>1, <1>4, SubDiskKeeps
<1>6. DOMAIN e \subseteq DOMAIN disk
  BY <1>3, <1>4
<1>7. /\ Sized(e, Shrunk(e))
      /\ \A p \in Place : In(e, p) /\ p.off <= synced[p.seg] => p.off <= Shrunk(e)[p.seg]
  BY <1>1, <1>4, <1>6, ShrunkIs
<1>8. \A p \in Place : In(disk, p) /\ p.seg \notin gone => In(e, p)
  BY <1>2, <1>4 DEF In
<1>9. \A s \in gone : i \in DOMAIN mem.loc /\ s < mem.loc[i].seg
  BY DEF Obsolete
<1>10. ASSUME health # "buried", NEW p \in Place, In(disk, p), At(disk, p) # Torn, At(disk, p).index >= i
       PROVE  In(e, p)
  <2> SUFFICES ASSUME p.seg \in gone PROVE FALSE
    BY <1>8, <1>10
  <2>1. i \in DOMAIN mem.loc /\ Before(p, mem.loc[i])
    BY <1>9 DEF Before
  <2>2. At(disk, p).index < i
    BY <1>10, <2>1 DEF DurableInv, Separates
  <2>3. At(disk, p).index \in Nat
    BY <1>1, <1>10, RecordTypes DEF In, At, DiskOK, Place
  <2> QED BY <1>10, <2>2, <2>3
<1>11. ASSUME health # "buried", NEW f \in flushed, f.index > i, f.index > meta.index
       PROVE  Safely(e, Shrunk(e), f)
  <2>1. PICK p \in Place : In(disk, p) /\ p.off <= synced[p.seg] /\ At(disk, p) = f
    BY <1>11 DEF DurableInv, Safely
  <2>2. f \in Record /\ f.index > 0
    BY DEF StoreInv
  <2>3. f.index \in Nat /\ f # Torn
    BY <2>2 DEF Record, Torn
  <2>4. f.index >= i
    BY <1>11, <2>3
  <2>5. In(e, p)
    BY <1>10, <1>11, <2>1, <2>3, <2>4
  <2>6. At(e, p) = f /\ p.off <= Shrunk(e)[p.seg]
    BY <1>4, <1>7, <2>1, <2>5 DEF SubDisk
  <2> QED BY <2>5, <2>6 DEF Safely
<1>12. health # "buried" => Ordered(e)
  BY <1>5 DEF DurableInv
<1> QED BY <1>4, <1>5, <1>6, <1>7, <1>8, <1>9, <1>10, <1>11, <1>12

\* The term of an entry at or above the base is that of its record.
LEMMA TermOf ==
  ASSUME NEW m \in Mem, NEW i \in Nat
  PROVE  /\ GetTerm(m, i) \in Nat
         /\ \A j \in 1..Len(m.entries) :
              m.entries[j].index = i /\ i # m.anchor.index /\ m.base <= i /\ i <= m.lastIndex =>
                \E k \in 1..Len(m.entries) :
                  m.entries[k].index = i /\ GetTerm(m, i) = m.entries[k].term
<1>1. /\ m.entries \in Seq(Record) /\ m.anchor \in Record /\ Len(m.entries) \in Nat
      /\ DOMAIN m.entries = 1..Len(m.entries)
      /\ \A j \in 1..Len(m.entries) : m.entries[j].term \in Nat
  BY MemTypes, RecordTypes
<1>2. Range(m.entries) = {m.entries[j] : j \in 1..Len(m.entries)}
  BY <1>1 DEF Range
<1> DEFINE c == CHOOSE e \in Range(m.entries) : e.index = i
<1>3. Has(m, i) => \E k \in 1..Len(m.entries) : m.entries[k].index = i /\ c.term = m.entries[k].term
  <2> SUFFICES ASSUME Has(m, i) PROVE \E k \in 1..Len(m.entries) : m.entries[k].index = i /\ c.term = m.entries[k].term
    OBVIOUS
  <2>1. c \in Range(m.entries) /\ c.index = i
    BY DEF Has
  <2> HIDE DEF c
  <2> QED BY <1>2, <2>1
<1>4. GetTerm(m, i) = IF i = m.anchor.index /\ i > 0 THEN m.anchor.term
                      ELSE IF Has(m, i) THEN c.term ELSE 0
  BY DEF GetTerm
<1> HIDE DEF c
<1>5. m.anchor.term \in Nat
  BY <1>1 DEF Record
<1>6. GetTerm(m, i) \in Nat
  BY <1>1, <1>3, <1>4, <1>5
<1>7. ASSUME NEW j \in 1..Len(m.entries), m.entries[j].index = i, i # m.anchor.index,
             m.base <= i, i <= m.lastIndex
      PROVE  \E k \in 1..Len(m.entries) : m.entries[k].index = i /\ GetTerm(m, i) = m.entries[k].term
  <2>1. Has(m, i)
    BY <1>2, <1>7 DEF Has
  <2> QED BY <1>3, <1>4, <1>7, <2>1
<1> QED BY <1>6, <1>7

\* The snapshot a node may take names an entry of its log.
LEMMA SnapshotIs ==
  ASSUME StoreInv, CleanInv, NEW i \in Nat, CanSnapshot(i)
  PROVE  /\ SnapshotAt(i) \in Record /\ SnapshotAt(i).index = i /\ i > 0 /\ i <= mem.lastIndex
         /\ meta.index <= i
         /\ health = "clean" => SnapshotAt(i).term > 0
<1>1. mem \in Mem /\ EntriesOK(disk, mem) /\ meta \in Record
  BY DEF StoreInv, MemOK
<1>2. /\ mem.lastIndex \in Nat /\ mem.lastTerm \in Nat /\ mem.base \in Nat /\ GetTerm(mem, i) \in Nat
      /\ Len(mem.entries) \in Nat /\ meta.index \in Nat
  BY <1>1, MemTypes, TermOf DEF Record
<1>3. i > 0 /\ i <= mem.lastIndex /\ meta.index <= i /\ mem.lastIndex > meta.index /\ InPlace(i)
  BY DEF CanSnapshot
<1>4. SnapshotAt(i) \in Record /\ SnapshotAt(i).index = i
  BY <1>2 DEF SnapshotAt, Record
<1>5. ASSUME health = "clean" PROVE SnapshotAt(i).term > 0
  <2>1. Based(mem, meta) /\ Contiguous(mem)
    BY <1>5 DEF CleanInv
  <2>2. mem.base = meta.index /\ mem.anchor = meta
    BY <2>1 DEF Based
  <2>3. CASE i = mem.lastIndex
    <3>1. mem.lastTerm > 0
      BY <1>2, <1>3, <2>1, <2>2 DEF Contiguous
    <3> QED BY <2>3, <3>1 DEF SnapshotAt
  <2>4. CASE i # mem.lastIndex /\ i = meta.index
    <3>1. meta.term > 0
      BY <1>3, <2>1, <2>4 DEF Based
    <3>2. GetTerm(mem, i) = meta.term
      BY <1>3, <2>2, <2>4 DEF GetTerm
    <3> QED BY <2>4, <3>1, <3>2 DEF SnapshotAt
  <2>5. CASE i # mem.lastIndex /\ i # meta.index
    <3>1. i > mem.base
      BY <1>2, <1>3, <2>2, <2>5
    <3>2. i - mem.base \in 1..Len(mem.entries) /\ mem.entries[i - mem.base].index = i
      BY <1>2, <1>3, <3>1 DEF InPlace
    <3>3. PICK k \in 1..Len(mem.entries) : GetTerm(mem, i) = mem.entries[k].term
      BY <1>1, <1>2, <1>3, <2>2, <2>5, <3>1, <3>2, TermOf
    <3>4. mem.entries[k].term > 0
      BY <1>1 DEF EntriesOK
    <3> QED BY <2>5, <3>3, <3>4 DEF SnapshotAt
  <2> QED BY <2>3, <2>4, <2>5
<1> QED BY <1>3, <1>4, <1>5

\* The process dies after the snapshot was stored, with some of the obsolete
\* segments removed.
LEMMA KillInCompactPreserves ==
  ASSUME StoreInv, DurableInv, CleanInv, NEW i \in Nat, KillInCompact(i)
  PROVE  StoreInv' /\ DurableInv' /\ CleanInv'
<1>1. /\ CanSnapshot(i) /\ meta' = SnapshotAt(i) /\ synced' = Shrunk(disk') /\ flushed' = Beyond(flushed, i)
      /\ health' = health /\ want' = want /\ Reopen
  BY DEF KillInCompact
<1>2. PICK gone \in SUBSET Obsolete(i) : disk' = CompactSegments(i, gone)
  BY DEF KillInCompact
<1>3. /\ SnapshotAt(i) \in Record /\ SnapshotAt(i).index = i /\ i > 0 /\ i <= mem.lastIndex /\ meta.index <= i
      /\ health = "clean" => SnapshotAt(i).term > 0
  BY <1>1, SnapshotIs
<1>4. PICK e : e = disk'
  OBVIOUS
<1>5. /\ DiskOK(e) /\ SubDisk(e, disk) /\ Typed(e) /\ Sized(e, Shrunk(e))
      /\ health # "buried" =>
              /\ Ordered(e)
              /\ \A p \in Place : In(disk, p) /\ At(disk, p) # Torn /\ At(disk, p).index >= i => In(e, p)
              /\ \A f \in flushed : f.index > i /\ f.index > meta.index => Safely(e, Shrunk(e), f)
  BY <1>2, <1>4, CompactedFiles DEF DiskOK, Typed
<1>6. meta \in Record /\ meta.index \in Nat /\ flushed \subseteq Record /\ \A f \in flushed : f.index > 0
  BY DEF StoreInv, Record
<1>7. \A f \in flushed' : f \in flushed /\ f.index > i /\ f.index > meta.index
  BY <1>1, <1>3, <1>6 DEF Beyond, Record
<1>8. /\ health' \in {"clean", "failed", "buried"} /\ want' \in Seq(Nat)
      /\ flushed' \subseteq Record /\ \A f \in flushed' : f.index > 0 /\ meta' \in Record
      /\ meta' \in Record /\ DiskOK(disk') /\ Sized(disk', synced')
  BY <1>1, <1>3, <1>4, <1>5, <1>6, <1>7 DEF StoreInv
<1>9. health' # "buried" => Ordered(disk')
  BY <1>1, <1>4, <1>5
<1>10. health' # "buried" =>
         \A f \in flushed' : f.index > meta'.index => Safely(disk', synced', f)
  BY <1>1, <1>4, <1>5, <1>7
<1>11. health' = "clean" => Asked(disk', meta', want')
  <2> SUFFICES ASSUME health = "clean" PROVE Asked(disk', meta', want')
    BY <1>1
  <2>1. Asked(disk, meta, want) /\ mem.lastIndex = Len(want)
    BY CleanAsked DEF CleanInv
  <2>2. mem \in Mem /\ DiskOK(disk)
    BY DEF StoreInv, MemOK
  <2>3. mem.lastIndex \in Nat
    BY <2>2, MemTypes
  <2>4. AsAsked(e, want)
    BY <1>5, <2>1, <2>2, SubDiskKeeps DEF Asked
  <2>5. ASSUME NEW j \in 1..Len(want), j > i \/ j = Len(want) PROVE Present(e, j)
    <3>1. j > meta.index \/ j = Len(want)
      BY <1>3, <1>6, <2>1, <2>3, <2>5
    <3>2. PICK p \in Place : In(disk, p) /\ At(disk, p).index = j
      BY <2>1, <3>1 DEF Asked, Present
    <3>3. At(disk, p) # Torn
      BY <2>1, <3>2 DEF Asked, AsAsked
    <3>4. j >= i
      BY <1>3, <2>1, <2>3, <2>5
    <3>5. In(e, p)
      BY <1>5, <3>2, <3>3, <3>4
    <3> QED BY <1>5, <3>2, <3>5 DEF Present, SubDisk
  <2> QED BY <1>1, <1>3, <1>4, <2>1, <2>4, <2>5 DEF Asked
<1> QED BY <1>1, <1>8, <1>9, <1>10, <1>11, Restarts

\* The object after CompactUpTo(i): x has the entries from n + 1 on.
Compacted(x, snap, i, n) ==
  /\ x \in Mem /\ x.lastIndex = mem.lastIndex /\ x.seg = mem.seg /\ x.anchor = snap
  /\ x.open = mem.open
  /\ x.base = IF i <= mem.base THEN mem.base ELSE i
  /\ x.lastTerm = mem.lastTerm \/ x.base = x.lastIndex
  /\ n = IF i <= mem.base THEN 0 ELSE i - mem.base
  /\ n \in 0..Len(mem.entries) /\ Len(x.entries) = Len(mem.entries) - n
  /\ \A j \in 1..Len(x.entries) : x.entries[j] = mem.entries[n + j]
  /\ DOMAIN x.loc \subseteq DOMAIN mem.loc /\ \A k \in DOMAIN x.loc : x.loc[k] = mem.loc[k]
  /\ \A k \in DOMAIN mem.loc : k > x.base => k \in DOMAIN x.loc

\* The object with a base, entries, an anchor and locations.
Kept(m, b, e, a, l, t) ==
  [m EXCEPT !.base = b, !.entries = e, !.anchor = a, !.loc = l, !.lastTerm = t]

LEMMA MemKept ==
  ASSUME NEW m \in Mem, NEW b \in Nat, NEW e \in Seq(Record), NEW a \in Record, NEW l \in Places,
         NEW t \in Nat, NEW x, x = Kept(m, b, e, a, l, t)
  PROVE  /\ x \in Mem /\ x.base = b /\ x.entries = e /\ x.anchor = a /\ x.loc = l /\ x.lastTerm = t
         /\ x.lastIndex = m.lastIndex /\ x.seg = m.seg /\ x.open = m.open
  BY DEF Mem, Kept

\* Compaction in memory drops the entries up to i and keeps the rest.
LEMMA CompactUpToIs ==
  ASSUME StoreInv, NEW i \in Nat, CanSnapshot(i), NEW snap \in Record, NEW x,
         x = CompactUpTo([mem EXCEPT !.anchor = snap], i)
  PROVE  \E n : Compacted(x, snap, i, n)
<1>1. mem \in Mem /\ EntriesOK(disk, mem) /\ LocOK(mem)
  BY DEF StoreInv, MemOK
<1>2. /\ mem.lastIndex \in Nat /\ mem.lastTerm \in Nat /\ mem.base \in Nat /\ Len(mem.entries) \in Nat
      /\ mem.entries \in Seq(Record) /\ mem.loc \in Places
  BY <1>1, MemTypes
<1>3. i <= mem.lastIndex /\ InPlace(i)
  BY DEF CanSnapshot
<1>4. PICK y : y = [mem EXCEPT !.anchor = snap]
  OBVIOUS
<1>5. /\ y \in Mem /\ y.base = mem.base /\ y.entries = mem.entries /\ y.anchor = snap
      /\ y.loc = mem.loc /\ y.lastTerm = mem.lastTerm /\ y.lastIndex = mem.lastIndex
      /\ y.seg = mem.seg /\ y.open = mem.open
  BY <1>1, <1>4 DEF Mem
<1>6. CASE i <= mem.base
  <2>1. x = y
    BY <1>4, <1>5, <1>6 DEF CompactUpTo
  <2>2. Compacted(x, snap, i, 0)
    <3>1. /\ 0 \in 0..Len(mem.entries) /\ Len(x.entries) = Len(mem.entries) - 0
          /\ \A j \in 1..Len(x.entries) : x.entries[j] = mem.entries[0 + j]
      <4>1. x.entries = mem.entries
        BY <1>5, <2>1
      <4>2. PICK l \in Nat : l = Len(mem.entries)
        BY <1>2
      <4>3. 0 \in 0..l /\ l = l - 0 /\ \A j \in 1..l : j = 0 + j
        OBVIOUS
      <4> QED BY <4>1, <4>2, <4>3
    <3>2. /\ x \in Mem /\ x.lastIndex = mem.lastIndex /\ x.seg = mem.seg /\ x.anchor = snap
          /\ x.open = mem.open /\ x.lastTerm = mem.lastTerm /\ x.loc = mem.loc
          /\ x.base = IF i <= mem.base THEN mem.base ELSE i
      BY <1>5, <1>6, <2>1
    <3> QED BY <1>6, <3>1, <3>2 DEF Compacted
  <2> QED BY <2>2
<1>7. CASE ~(i <= mem.base)
  <2>1. PICK n : n = i - mem.base
    OBVIOUS
  <2>2. n \in 1..Len(mem.entries) /\ mem.entries[n].index = i
    BY <1>2, <1>3, <1>7, <2>1 DEF InPlace
  <2>3. CASE i >= mem.lastIndex
    <3>1. i = mem.lastIndex
      BY <1>2, <1>3, <2>3
    <3>2. n = Len(mem.entries)
      <4> SUFFICES ASSUME n # Len(mem.entries) PROVE FALSE
        OBVIOUS
      <4>1. Len(mem.entries) \in 1..Len(mem.entries) /\ n < Len(mem.entries)
        BY <1>2, <2>2
      <4>2. mem.entries[n].index < mem.entries[Len(mem.entries)].index
        BY <1>1, <2>2, <4>1 DEF EntriesOK, Increasing
      <4>3. mem.entries[Len(mem.entries)].index \in 1..mem.lastIndex
        BY <1>1, <4>1 DEF EntriesOK
      <4> QED BY <1>2, <2>2, <3>1, <4>2, <4>3
    <3>3. x = [y EXCEPT !.base = i, !.loc = <<>>, !.lastIndex = i, !.lastTerm = 0, !.entries = <<>>]
      BY <1>4, <1>5, <1>7, <2>3 DEF CompactUpTo
    <3>4. x = Kept(y, i, <<>>, snap, <<>>, 0)
      BY <1>5, <3>1, <3>3 DEF Kept, Mem
    <3>5. <<>> \in Seq(Record) /\ <<>> \in Places /\ DOMAIN <<>> = {} /\ Len(<<>>) = 0
      <4>1. DOMAIN <<>> = {} /\ <<>> \in [{} -> Place] /\ <<>> \in Seq(Record) /\ Len(<<>>) = 0
        OBVIOUS
      <4> QED BY <4>1, PlacesAre
    <3>6. /\ x \in Mem /\ x.base = i /\ x.entries = <<>> /\ x.anchor = snap /\ x.loc = <<>> /\ x.lastTerm = 0
          /\ x.lastIndex = y.lastIndex /\ x.seg = y.seg /\ x.open = y.open
      <4>1. PICK q \in Seq(Record) : q = <<>>
        BY <3>5
      <4>2. PICK l \in Places : l = <<>>
        BY <3>5
      <4>3. PICK z \in Nat : z = 0
        OBVIOUS
      <4>4. x = Kept(y, i, q, snap, l, z)
        BY <3>4, <4>1, <4>2, <4>3
      <4>5. /\ x \in Mem /\ x.base = i /\ x.entries = q /\ x.anchor = snap /\ x.loc = l /\ x.lastTerm = z
            /\ x.lastIndex = y.lastIndex /\ x.seg = y.seg /\ x.open = y.open
        BY <1>5, <4>4, MemKept
      <4> QED BY <4>1, <4>2, <4>3, <4>5
    <3>7. \A k \in DOMAIN mem.loc : ~(k > i)
      BY <1>1, <1>2, <3>1 DEF LocOK
    <3>8. /\ n \in 0..Len(mem.entries) /\ Len(x.entries) = Len(mem.entries) - n
          /\ \A j \in 1..Len(x.entries) : x.entries[j] = mem.entries[n + j]
      BY <1>2, <3>2, <3>5, <3>6
    <3>9. Compacted(x, snap, i, n)
      BY <1>2, <1>5, <1>7, <2>1, <3>1, <3>5, <3>6, <3>7, <3>8 DEF Compacted
    <3> QED BY <3>9
  <2>4. CASE ~(i >= mem.lastIndex)
    <3>1. PICK e : e = SubSeq(mem.entries, n + 1, Len(mem.entries))
      OBVIOUS
    <3>2. PICK D : D = {j \in DOMAIN mem.loc : j > i}
      OBVIOUS
    <3>3. PICK l : l = Restrict(mem.loc, D)
      OBVIOUS
    <3>4. e \in Seq(Record) /\ Len(e) = Len(mem.entries) - n /\ \A j \in 1..Len(e) : e[j] = mem.entries[n + j]
      <4>1. PICK z : z = mem.entries
        OBVIOUS
      <4>2. z \in Seq(Record) /\ n \in 0..Len(z) /\ e = SubSeq(z, n + 1, Len(z))
        BY <1>2, <2>2, <3>1, <4>1
      <4>3. e \in Seq(Record) /\ Len(e) = Len(z) - n /\ \A j \in 1..(Len(z) - n) : e[j] = z[n + j]
        BY <4>2, SuffixIs
      <4> QED BY <4>1, <4>3
    <3>5. l \in Places /\ DOMAIN l = D /\ \A k \in D : l[k] = mem.loc[k]
      <4>1. DOMAIN l = D /\ \A k \in D : l[k] = mem.loc[k]
        BY <3>3 DEF Restrict
      <4>2. D \in SUBSET Nat /\ \A k \in D : mem.loc[k] \in Place
        BY <1>2, <3>2, LocTypes
      <4>3. l \in [D -> Place]
        BY <3>3, <4>2 DEF Restrict
      <4> QED BY <4>1, <4>2, <4>3, PlacesAre
    <3>6. x = [y EXCEPT !.base = i, !.entries = e, !.loc = l]
      BY <1>4, <1>5, <1>7, <2>1, <2>4, <3>1, <3>2, <3>3 DEF CompactUpTo
    <3>7. x = Kept(y, i, e, snap, l, y.lastTerm)
      BY <1>5, <3>6 DEF Kept, Mem
    <3>8. PICK t \in Nat : t = y.lastTerm
      BY <1>2, <1>5
    <3>9. /\ x \in Mem /\ x.base = i /\ x.entries = e /\ x.anchor = snap /\ x.loc = l /\ x.lastTerm = t
          /\ x.lastIndex = y.lastIndex /\ x.seg = y.seg /\ x.open = y.open
      BY <1>5, <3>4, <3>5, <3>7, <3>8, MemKept
    <3>10. Compacted(x, snap, i, n)
      <4>1. /\ n \in 0..Len(mem.entries) /\ Len(x.entries) = Len(mem.entries) - n
            /\ \A j \in 1..Len(x.entries) : x.entries[j] = mem.entries[n + j]
        <5>1. n \in 0..Len(mem.entries)
          BY <1>2, <2>2
        <5>2. x.entries = e
          BY <3>9
        <5> QED BY <3>4, <5>1, <5>2
      <4>2. /\ x \in Mem /\ x.lastIndex = mem.lastIndex /\ x.seg = mem.seg /\ x.anchor = snap
            /\ x.open = mem.open /\ x.lastTerm = mem.lastTerm
        BY <1>5, <3>8, <3>9
      <4>3. x.base = IF i <= mem.base THEN mem.base ELSE i
        BY <1>7, <3>9
      <4>4. n = IF i <= mem.base THEN 0 ELSE i - mem.base
        BY <1>7, <2>1
      <4>5. /\ DOMAIN x.loc \subseteq DOMAIN mem.loc /\ \A k \in DOMAIN x.loc : x.loc[k] = mem.loc[k]
            /\ \A k \in DOMAIN mem.loc : k > x.base => k \in DOMAIN x.loc
        BY <3>2, <3>5, <3>9
      <4> QED BY <4>1, <4>2, <4>3, <4>4, <4>5 DEF Compacted
    <3> QED BY <3>10
  <2> QED BY <2>3, <2>4
<1> QED BY <1>6, <1>7

\* CompactLogs after a snapshot.
LEMMA CompactPreserves ==
  ASSUME StoreInv, DurableInv, CleanInv, NEW i \in Nat, CompactLogs(i)
  PROVE  StoreInv' /\ DurableInv' /\ CleanInv'
<1>1. /\ CanSnapshot(i) /\ meta' = SnapshotAt(i) /\ disk' = CompactSegments(i, Obsolete(i))
      /\ synced' = Shrunk(disk') /\ flushed' = Beyond(flushed, i)
      /\ mem' = CompactUpTo([mem EXCEPT !.anchor = meta'], i)
      /\ health' = health /\ want' = want
  BY DEF CompactLogs
<1>2. /\ SnapshotAt(i) \in Record /\ SnapshotAt(i).index = i /\ i > 0 /\ i <= mem.lastIndex /\ meta.index <= i
      /\ health = "clean" => SnapshotAt(i).term > 0
  BY <1>1, SnapshotIs
<1>3. PICK gone : gone = Obsolete(i)
  OBVIOUS
<1>4. PICK e : e = disk'
  OBVIOUS
<1>5. /\ DiskOK(e) /\ SubDisk(e, disk) /\ Typed(e) /\ DOMAIN e \subseteq DOMAIN disk /\ Sized(e, Shrunk(e))
      /\ \A p \in Place : In(disk, p) /\ p.seg \notin gone => In(e, p)
      /\ \A s \in gone : i \in DOMAIN mem.loc /\ s < mem.loc[i].seg
      /\ health # "buried" =>
              /\ Ordered(e)
              /\ \A p \in Place : In(disk, p) /\ At(disk, p) # Torn /\ At(disk, p).index >= i => In(e, p)
              /\ \A f \in flushed : f.index > i /\ f.index > meta.index => Safely(e, Shrunk(e), f)
  BY <1>1, <1>3, <1>4, CompactedFiles DEF DiskOK, Typed
<1>6. PICK x : x = mem'
  OBVIOUS
<1>7. PICK n : Compacted(x, meta', i, n)
  BY <1>1, <1>2, <1>6, CompactUpToIs
<1>8. /\ mem \in Mem /\ EntriesOK(disk, mem) /\ LocOK(mem) /\ WriterOK(disk, mem) /\ DiskOK(disk)
      /\ mem.seg <= MaxSegment
  BY DEF StoreInv, MemOK
<1>9. /\ mem.lastIndex \in Nat /\ mem.base \in Nat /\ Len(mem.entries) \in Nat /\ mem.seg \in Nat
      /\ mem.loc \in Places /\ meta \in Record /\ meta.index \in Nat
      /\ \A k \in DOMAIN mem.loc : k \in Nat /\ mem.loc[k] \in Place /\ mem.loc[k].seg \in Nat
  <2>1. mem.loc \in Places
    BY <1>8, MemTypes
  <2> QED BY <1>8, <2>1, MemTypes, LocTypes DEF StoreInv, Record, Place
<1>10. /\ x \in Mem /\ x.lastIndex = mem.lastIndex /\ x.seg = mem.seg /\ x.anchor = meta'
       /\ x.open = mem.open
       /\ x.base \in Nat /\ x.base >= i /\ x.base >= mem.base
       /\ n \in 0..Len(mem.entries) /\ Len(x.entries) = Len(mem.entries) - n
       /\ \A j \in 1..Len(x.entries) : x.entries[j] = mem.entries[n + j] /\ n + j \in 1..Len(mem.entries)
       /\ DOMAIN x.loc \subseteq DOMAIN mem.loc /\ \A k \in DOMAIN x.loc : x.loc[k] = mem.loc[k]
       /\ \A k \in DOMAIN mem.loc : k > x.base => k \in DOMAIN x.loc
  <2>1. x.base = (IF i <= mem.base THEN mem.base ELSE i)
    BY <1>7 DEF Compacted
  <2>2. x.base \in Nat /\ x.base >= i /\ x.base >= mem.base
    BY <1>9, <2>1
  <2>3. /\ n \in 0..Len(mem.entries) /\ Len(x.entries) = Len(mem.entries) - n
        /\ \A j \in 1..Len(x.entries) : x.entries[j] = mem.entries[n + j]
    BY <1>7 DEF Compacted
  <2>4. \A j \in 1..Len(x.entries) : n + j \in 1..Len(mem.entries)
    BY <1>9, <2>3
  <2> QED BY <1>7, <2>2, <2>3, <2>4 DEF Compacted
<1>11. \A k \in DOMAIN mem.loc : k >= i => mem.loc[k].seg \notin gone
  <2> TAKE k \in DOMAIN mem.loc
  <2> SUFFICES ASSUME k >= i, mem.loc[k].seg \in gone PROVE FALSE
    OBVIOUS
  <2>1. i \in DOMAIN mem.loc /\ mem.loc[k].seg < mem.loc[i].seg
    BY <1>5
  <2>2. k # i
    BY <1>9, <2>1
  <2>3. Before(mem.loc[i], mem.loc[k])
    BY <1>8, <1>9, <2>1, <2>2 DEF LocOK
  <2> QED BY <1>9, <2>1, <2>3 DEF Before
<1>12. EntriesOK(e, x)
  <2>1. Increasing(x.entries)
    <3> SUFFICES ASSUME NEW j \in 1..Len(x.entries), NEW k \in 1..Len(x.entries), j < k
                 PROVE  x.entries[j].index < x.entries[k].index
      BY DEF Increasing
    <3>1. n + j \in 1..Len(mem.entries) /\ n + k \in 1..Len(mem.entries) /\ n + j < n + k
      BY <1>9, <1>10
    <3>2. mem.entries[n + j].index < mem.entries[n + k].index
      BY <1>8, <3>1 DEF EntriesOK, Increasing
    <3> QED BY <1>10, <3>2
  <2>2. ASSUME NEW j \in 1..Len(x.entries)
        PROVE  /\ x.entries[j].index \in 1..x.lastIndex /\ x.entries[j].term > 0
               /\ x.entries[j].index > x.base => Exact(e, x, x.entries[j])
    <3>1. PICK r : r = x.entries[j]
      OBVIOUS
    <3>2. /\ r.index \in 1..mem.lastIndex /\ r.term > 0 /\ (r.index > mem.base => Exact(disk, mem, r))
      BY <1>8, <1>10, <3>1 DEF EntriesOK
    <3>3. ASSUME r.index > x.base PROVE Exact(e, x, r)
      <4>1. r.index > mem.base /\ r.index >= i
        BY <1>9, <1>10, <3>2, <3>3
      <4>2. r.index \in DOMAIN mem.loc /\ In(disk, mem.loc[r.index]) /\ At(disk, mem.loc[r.index]) = r
        BY <3>2, <4>1 DEF Exact
      <4>3. r.index \in DOMAIN x.loc /\ x.loc[r.index] = mem.loc[r.index]
        BY <1>10, <3>3, <4>2
      <4>4. In(e, mem.loc[r.index])
        BY <1>5, <1>9, <1>11, <4>1, <4>2
      <4>5. At(e, mem.loc[r.index]) = r
        BY <1>5, <1>9, <4>2, <4>4 DEF SubDisk
      <4> QED BY <4>3, <4>4, <4>5 DEF Exact
    <3> QED BY <1>10, <3>1, <3>2, <3>3
  <2> QED BY <2>1, <2>2 DEF EntriesOK
<1>13. LocOK(x)
  BY <1>8, <1>10 DEF LocOK
<1>14. WriterOK(e, x)
  <2>1. mem.seg \notin gone
    <3> SUFFICES ASSUME mem.seg \in gone PROVE FALSE
      OBVIOUS
    <3>1. i \in DOMAIN mem.loc /\ mem.seg < mem.loc[i].seg
      BY <1>5
    <3>2. mem.loc[i].seg <= mem.seg
      BY <1>8, <3>1 DEF WriterOK
    <3> QED BY <1>9, <3>1, <3>2
  <2>2. ASSUME NEW k \in DOMAIN x.loc
        PROVE  x.loc[k].seg <= x.seg /\ (x.loc[k].seg = x.seg => In(e, x.loc[k]))
    <3>1. mem.loc[k].seg <= mem.seg /\ (mem.loc[k].seg = mem.seg => In(disk, mem.loc[k])) /\ mem.loc[k] \in Place
      BY <1>8, <1>9, <1>10 DEF WriterOK
    <3> QED BY <1>5, <1>10, <2>1, <3>1
  <2>3. x.lastIndex > 0 => x.open
    BY <1>8, <1>10 DEF WriterOK
  <2>4. \A s \in DOMAIN e : s <= x.seg
    BY <1>5, <1>8, <1>10 DEF WriterOK
  <2> QED BY <2>2, <2>3, <2>4 DEF WriterOK
<1>15. flushed \subseteq Record /\ \A f \in flushed : f.index > 0
  BY DEF StoreInv
<1>16. \A f \in flushed' : f \in flushed /\ f.index > i /\ f.index > meta.index
  BY <1>1, <1>2, <1>9, <1>15 DEF Beyond, Record
<1>17. StoreInv'
  <2>1. MemOK(disk', mem')
    BY <1>4, <1>6, <1>8, <1>10, <1>12, <1>13, <1>14 DEF MemOK
  <2>2. /\ health' \in {"clean", "failed", "buried"} /\ want' \in Seq(Nat) /\ meta' \in Record
        /\ flushed' \subseteq Record /\ \A f \in flushed' : f.index > 0
    BY <1>1, <1>2, <1>15, <1>16 DEF StoreInv
  <2> QED BY <1>1, <1>4, <1>5, <2>1, <2>2 DEF StoreInv, Sized
<1>18. DurableInv'
  <2> SUFFICES ASSUME health # "buried"
               PROVE  /\ Ordered(e) /\ Complete(e, x, i) /\ Separates(e, x)
                      /\ \A f \in flushed' : f.index > i => Safely(e, synced', f)
    BY <1>1, <1>2, <1>4, <1>6 DEF DurableInv
  <2>1. Complete(disk, mem, meta.index) /\ Separates(disk, mem)
    BY DEF DurableInv
  <2>2. ASSUME NEW p \in Place, In(e, p), At(e, p) # Torn
        PROVE  /\ At(e, p).index <= x.lastIndex
               /\ At(e, p).index > i => \E j \in 1..Len(x.entries) : x.entries[j] = At(e, p)
    <3>1. In(disk, p) /\ At(e, p) = At(disk, p)
      BY <1>5, <2>2 DEF SubDisk
    <3>2. PICK r \in Record : r = At(e, p)
      BY <1>5, <2>2, RecordTypes DEF In, At, DiskOK, Place
    <3>3. r.index <= mem.lastIndex /\ r.index \in Nat
      BY <2>1, <2>2, <3>1, <3>2 DEF Complete, Record
    <3>4. ASSUME r.index > i PROVE \E j \in 1..Len(x.entries) : x.entries[j] = r
      <4>1. r.index > meta.index
        BY <1>2, <1>9, <3>3, <3>4
      <4>2. PICK k \in 1..Len(mem.entries) : mem.entries[k] = r
        BY <2>1, <2>2, <3>1, <3>2, <4>1 DEF Complete
      <4>3. k > n
        <5> SUFFICES ASSUME ~(k > n) PROVE FALSE
          OBVIOUS
        <5>1. n # 0 /\ k <= n
          BY <1>10
        <5>2. n = i - mem.base /\ i > mem.base
          BY <1>7, <1>9, <5>1 DEF Compacted
        <5>3. mem.entries[n].index = i /\ n \in 1..Len(mem.entries)
          <6>1. InPlace(i)
            BY <1>1 DEF CanSnapshot
          <6> QED BY <1>9, <1>10, <5>1, <5>2, <6>1 DEF InPlace
        <5>4. k < n => mem.entries[k].index < mem.entries[n].index
          BY <1>8, <5>3 DEF EntriesOK, Increasing
        <5>5. k = n \/ k < n
          BY <1>10, <5>1
        <5> QED BY <3>3, <3>4, <4>2, <5>3, <5>4, <5>5
      <4>4. k - n \in 1..Len(x.entries) /\ n + (k - n) = k
        BY <1>9, <1>10, <4>3
      <4>5. x.entries[k - n] = mem.entries[k]
        BY <1>10, <4>4
      <4> QED BY <4>2, <4>4, <4>5
    <3> QED BY <1>10, <3>2, <3>3, <3>4
  <2>3. Complete(e, x, i)
    BY <2>2 DEF Complete
  <2>4. Separates(e, x)
    <3> SUFFICES ASSUME NEW k \in DOMAIN x.loc, NEW p \in Place, In(e, p), At(e, p) # Torn, Before(p, x.loc[k])
                 PROVE  At(e, p).index < k
      BY DEF Separates
    <3>1. In(disk, p) /\ At(e, p) = At(disk, p)
      BY <1>5 DEF SubDisk
    <3>2. k \in DOMAIN mem.loc /\ x.loc[k] = mem.loc[k]
      BY <1>10
    <3> QED BY <2>1, <3>1, <3>2 DEF Separates
  <2> QED BY <1>1, <1>4, <1>5, <1>16, <2>3, <2>4
<1>19. CleanInv'
  <2> SUFFICES ASSUME health = "clean" PROVE CleanInv'
    BY <1>1 DEF CleanInv
  <2>1. /\ AsAsked(disk, want) /\ mem.lastIndex = Len(want)
        /\ \A j \in 1..Len(want) : j > meta.index \/ j = Len(want) => Present(disk, j)
        /\ Based(mem, meta) /\ Contiguous(mem)
    BY DEF CleanInv
  <2>2. AsAsked(e, want)
    BY <1>5, <1>8, <2>1, SubDiskKeeps
  <2>3. ASSUME NEW j \in 1..Len(want), j > i \/ j = Len(want) PROVE Present(e, j)
    <3>1. j > meta.index \/ j = Len(want)
      BY <1>2, <1>9, <2>1, <2>3
    <3>2. PICK p \in Place : In(disk, p) /\ At(disk, p).index = j
      BY <2>1, <3>1 DEF Present
    <3>3. At(disk, p) # Torn
      BY <2>1, <3>2 DEF AsAsked
    <3>4. j >= i
      BY <1>2, <1>9, <2>1, <2>3
    <3>5. In(e, p)
      BY <1>5, <3>2, <3>3, <3>4
    <3> QED BY <1>5, <3>2, <3>5 DEF Present, SubDisk
  <2>4. mem.base = meta.index /\ x.base = i
    BY <1>2, <1>7, <1>9, <2>1 DEF Based, Compacted
  <2>5. Based(x, meta')
    BY <1>1, <1>2, <1>10, <2>4 DEF Based
  <2>6. n = i - mem.base
    BY <1>2, <1>7, <1>9, <2>4 DEF Compacted
  <2>7. /\ Len(mem.entries) = mem.lastIndex - mem.base
        /\ \A j \in 1..Len(mem.entries) : mem.entries[j].index = mem.base + j
        /\ mem.lastIndex > mem.base => mem.lastTerm > 0
    BY <2>1 DEF Contiguous
  <2>8. Len(x.entries) = x.lastIndex - x.base
    BY <1>9, <1>10, <2>4, <2>6, <2>7
  <2>9. ASSUME NEW j \in 1..Len(x.entries) PROVE x.entries[j].index = x.base + j
    <3>1. x.entries[j].index = mem.base + (n + j)
      BY <1>10, <2>7
    <3> QED BY <1>9, <1>10, <2>4, <2>6, <3>1
  <2>10. x.lastIndex > x.base => x.lastTerm > 0
    <3> SUFFICES ASSUME x.lastIndex > x.base PROVE x.lastTerm > 0
      OBVIOUS
    <3>1. x.lastTerm = mem.lastTerm
      BY <1>7, <1>9, <1>10 DEF Compacted
    <3>2. mem.lastIndex > mem.base
      BY <1>9, <1>10
    <3> QED BY <2>7, <3>1, <3>2
  <2>11. Contiguous(x)
    BY <2>8, <2>9, <2>10 DEF Contiguous
  <2> QED BY <1>1, <1>2, <1>4, <1>6, <1>10, <2>1, <2>2, <2>3, <2>5, <2>11 DEF CleanInv
<1> QED BY <1>17, <1>18, <1>19

(***************************************************************************)
(* Truncation.  c is where the last record kept is.                        *)
(***************************************************************************)
LEMMA CutPlace ==
  ASSUME StoreInv, NEW k \in Nat, CanTruncate(k), k > mem.base
  PROVE  /\ k - mem.base \in 1..Len(mem.entries) /\ mem.entries[k - mem.base].index = k
         /\ mem.entries[k - mem.base].term > 0 /\ k < mem.lastIndex
         /\ k \in DOMAIN mem.loc /\ In(disk, mem.loc[k]) /\ mem.loc[k] \in Place
         /\ At(disk, mem.loc[k]) = mem.entries[k - mem.base] /\ At(disk, mem.loc[k]) # Torn
<1>1. mem \in Mem /\ EntriesOK(disk, mem)
  BY DEF StoreInv, MemOK
<1>2. mem.base \in Nat /\ Len(mem.entries) \in Nat
  BY <1>1, MemTypes
<1>3. PICK j : j = k - mem.base
  OBVIOUS
<1>4. j \in 1..Len(mem.entries) /\ mem.entries[j].index = k /\ k < mem.lastIndex
  BY <1>2, <1>3 DEF CanTruncate, InPlace
<1>5. mem.entries[j].term > 0 /\ Exact(disk, mem, mem.entries[j])
  BY <1>1, <1>4 DEF EntriesOK
<1>6. k # 0
  BY <1>2
<1>7. mem.entries[j] # Torn
  BY <1>4, <1>6 DEF Torn
<1> QED BY <1>3, <1>4, <1>5, <1>7 DEF Exact, In

\* TruncateFrom keeps exactly the records up to the place of entry k.
LEMMA CutFilesIs ==
  ASSUME StoreInv, NEW k \in Nat, CanTruncate(k), k > mem.base, NEW e, e = CutFiles(mem, k)
  PROVE  /\ Typed(e) /\ DOMAIN e = {s \in DOMAIN disk : s <= mem.loc[k].seg}
         /\ SubDisk(e, disk) /\ Len(e[mem.loc[k].seg]) = mem.loc[k].off
         /\ \A p \in Place : In(e, p) <=> In(disk, p) /\ ~Before(mem.loc[k], p)
<1>1. PICK c : c = mem.loc[k]
  OBVIOUS
<1>2. In(disk, c) /\ c \in Place /\ DiskOK(disk)
  BY <1>1, CutPlace DEF StoreInv
<1>3. /\ c.seg \in DOMAIN disk /\ c.seg \in Nat /\ c.off \in Nat \ {0} /\ c.off <= Len(disk[c.seg])
      /\ disk \in [DOMAIN disk -> Seq(Record)] /\ DOMAIN disk \subseteq 0..MaxSegment
  BY <1>2 DEF In, Place, DiskOK
<1>4. PICK D : D = {s \in DOMAIN disk : s <= c.seg}
  OBVIOUS
<1>5. PICK l : l = Prefix(disk[c.seg], c.off)
  OBVIOUS
<1>6. l \in Seq(Record) /\ Len(l) = c.off /\ \A o \in 1..c.off : l[o] = disk[c.seg][o]
  <2>1. PICK z : z = disk[c.seg]
    OBVIOUS
  <2>2. z \in Seq(Record) /\ c.off <= Len(z)
    BY <1>3, <2>1
  <2>3. c.off \in 0..Len(z)
    <3>1. Len(z) \in Nat
      BY <2>2
    <3> QED BY <1>3, <2>2, <3>1
  <2> QED BY <1>5, <2>1, <2>2, <2>3, PrefixIs
<1>7. e = [s \in D |-> IF s = c.seg THEN l ELSE disk[s]]
  <2>1. e = [Restrict(disk, D) EXCEPT ![c.seg] = Prefix(@, c.off)]
    BY <1>1, <1>4 DEF CutFiles
  <2>2. Restrict(disk, D) = [s \in D |-> disk[s]] /\ c.seg \in D
    BY <1>3, <1>4 DEF Restrict
  <2> HIDE DEF Prefix
  <2> QED BY <1>5, <2>1, <2>2
<1>8. DOMAIN e = D /\ e[c.seg] = l /\ \A s \in D : s # c.seg => e[s] = disk[s]
  BY <1>3, <1>4, <1>7
<1>9. Typed(e)
  <2>1. \A s \in D : e[s] \in Seq(Record)
    BY <1>3, <1>4, <1>6, <1>8
  <2>2. e \in [D -> Seq(Record)]
    BY <1>7, <2>1
  <2> QED BY <1>3, <1>4, <1>8, <2>2 DEF Typed
<1>10. ASSUME NEW p \in Place PROVE In(e, p) <=> In(disk, p) /\ ~Before(c, p)
  <2>1. p.seg \in Nat /\ p.off \in Nat \ {0}
    BY DEF Place
  <2>2. CASE p.seg \notin DOMAIN disk
    BY <1>4, <1>8, <2>2 DEF In
  <2>3. CASE p.seg \in DOMAIN disk /\ p.seg # c.seg
    BY <1>3, <1>4, <1>8, <2>1, <2>3 DEF In, Before
  <2>4. CASE p.seg = c.seg
    <3>1. p.seg \in D /\ e[p.seg] = l
      BY <1>3, <1>4, <1>8, <2>4
    <3>2. In(e, p) <=> p.off <= c.off
      BY <1>6, <1>8, <3>1 DEF In
    <3>3. PICK n : n = Len(disk[c.seg])
      OBVIOUS
    <3>4. n \in Nat /\ c.off <= n
      BY <1>3, <3>3, RecordTypes
    <3>5. In(disk, p) <=> p.off <= n
      BY <1>3, <2>4, <3>3 DEF In
    <3>6. Before(c, p) <=> c.off < p.off
      BY <1>3, <2>4 DEF Before
    <3> QED BY <1>3, <2>1, <3>2, <3>4, <3>5, <3>6
  <2> QED BY <2>2, <2>3, <2>4
<1>11. SubDisk(e, disk)
  <2> SUFFICES ASSUME NEW p \in Place, In(e, p) PROVE In(disk, p) /\ At(e, p) = At(disk, p)
    BY DEF SubDisk
  <2>1. In(disk, p) /\ p.off \in Nat \ {0}
    BY <1>10 DEF Place
  <2>2. CASE p.seg = c.seg
    <3>1. p.off \in 1..c.off
      BY <1>3, <1>6, <1>8, <2>1, <2>2 DEF In
    <3> QED BY <1>6, <1>8, <2>1, <2>2, <3>1 DEF At
  <2>3. CASE p.seg # c.seg
    BY <1>8, <2>1, <2>3 DEF In, At
  <2> QED BY <2>2, <2>3
<1> QED BY <1>1, <1>4, <1>6, <1>8, <1>9, <1>10, <1>11

\* No record up to k is behind the cut.
LEMMA NoneBehindCut ==
  ASSUME StoreInv, DurableInv, health # "buried", NEW k \in Nat, CanTruncate(k), k > mem.base,
         NEW p \in Place, In(disk, p), At(disk, p) # Torn
  PROVE  /\ At(disk, p).index <= k <=> ~Before(mem.loc[k], p)
         /\ At(disk, p).index \in Nat
<1>1. PICK c : c = mem.loc[k]
  OBVIOUS
<1>2. In(disk, c) /\ c \in Place /\ At(disk, c) # Torn /\ At(disk, c).index = k /\ k \in DOMAIN mem.loc
  BY <1>1, CutPlace
<1>3. At(disk, p).index \in Nat
  BY RecordTypes DEF StoreInv, In, At, DiskOK, Place
<1>4. Before(c, p) => k < At(disk, p).index
  BY <1>2 DEF DurableInv, Ordered
<1>5. Before(p, c) => At(disk, p).index < k
  BY <1>1, <1>2 DEF DurableInv, Separates
<1>6. Before(c, p) \/ Before(p, c) \/ c = p
  BY <1>2 DEF Before, Place
<1>7. ~Before(c, p) => At(disk, p).index <= k
  BY <1>2, <1>3, <1>5, <1>6
<1> QED BY <1>1, <1>3, <1>4, <1>7

\* A truncation gives up what was flushed beyond k.
LEMMA ForgetIs ==
  ASSUME StoreInv, NEW k \in Nat, Forget(k)
  PROVE  /\ flushed' \subseteq flushed /\ \A f \in flushed' : f.index <= k /\ f.index > 0 /\ f # Torn
         /\ flushed' \subseteq Record
<1>1. flushed' = {f \in flushed : f.index <= k} /\ flushed \subseteq Record /\ \A f \in flushed : f.index > 0
  BY DEF Forget, UpTo, StoreInv
<1> QED BY <1>1 DEF Torn

\* A flushed entry up to k is in every set of files that holds the cut ones.
LEMMA FlushedUpTo ==
  ASSUME StoreInv, DurableInv, health # "buried", NEW k \in Nat, CanTruncate(k), k > mem.base,
         NEW e, Typed(e), SubDisk(e, disk), DOMAIN e \subseteq DOMAIN disk,
         \A p \in Place : In(disk, p) /\ ~Before(mem.loc[k], p) => In(e, p),
         NEW f \in flushed, f.index <= k, f # Torn, f.index > meta.index
  PROVE  Safely(e, Shrunk(e), f)
<1>1. PICK p \in Place : In(disk, p) /\ p.off <= synced[p.seg] /\ At(disk, p) = f
  BY DEF DurableInv, Safely
<1>2. ~Before(mem.loc[k], p)
  BY <1>1, NoneBehindCut
<1>3. In(e, p) /\ At(e, p) = f
  BY <1>1, <1>2 DEF SubDisk
<1>4. Sized(disk, synced)
  BY DEF StoreInv, Sized
<1>5. p.off <= Shrunk(e)[p.seg]
  BY <1>1, <1>3, <1>4, ShrunkIs
<1> QED BY <1>3, <1>5 DEF Safely

\* Files of which a part has been cut and the rest has not.
LEMMA OverIs ==
  ASSUME NEW d, DiskOK(d), NEW a, Typed(a), SubDisk(a, d), NEW b, Typed(b), SubDisk(b, d),
         DOMAIN a \subseteq DOMAIN d, DOMAIN b \subseteq DOMAIN d, NEW e, e = Over(a, b)
  PROVE  /\ Typed(e) /\ SubDisk(e, d) /\ DOMAIN e \subseteq DOMAIN d
         /\ \A p \in Place : In(a, p) => In(e, p)
<1>1. /\ DOMAIN e = DOMAIN a \cup DOMAIN b /\ \A s \in DOMAIN a : e[s] = a[s]
      /\ \A s \in DOMAIN b : s \notin DOMAIN a => e[s] = b[s]
  BY DEF Over
<1>2. e = [s \in DOMAIN a \cup DOMAIN b |-> IF s \in DOMAIN a THEN a[s] ELSE b[s]]
  BY DEF Over
<1>3. \A s \in DOMAIN e : e[s] \in Seq(Record)
  BY <1>1 DEF Typed
<1>4. e \in [DOMAIN e -> Seq(Record)]
  BY <1>2, <1>3
<1>5. Typed(e)
  BY <1>1, <1>4 DEF Typed
<1>6. SubDisk(e, d)
  BY <1>1 DEF SubDisk, In, At
<1>7. \A p \in Place : In(a, p) => In(e, p)
  BY <1>1 DEF In
<1> QED BY <1>1, <1>5, <1>6, <1>7

\* A truncation at or below the base clears the log.
LEMMA ClearPreserves ==
  ASSUME StoreInv, DurableInv, CleanInv, NEW k \in Nat, TruncateFrom(k), ~(k > mem.base)
  PROVE  StoreInv' /\ DurableInv' /\ CleanInv'
<1>1. mem \in Mem /\ mem.base \in Nat /\ mem.seg \in Nat /\ mem.seg <= MaxSegment
  BY MemTypes DEF StoreInv, MemOK
<1>2. Left(k) = 0
  BY <1>1 DEF Left
<1>3. /\ disk' = <<>> /\ mem' = Clear(mem) /\ synced' = Shrunk(disk') /\ Forget(0) /\ meta' = meta
      /\ IF mem.base > 0 THEN Fails
         ELSE want' = (IF health = "clean" THEN Prefix(want, 0) ELSE <<>>) /\ health' = health
  BY <1>2 DEF TruncateFrom
<1>4. flushed' = {}
  <2>1. \A f \in flushed' : f.index <= 0 /\ f.index > 0 /\ f \in Record
    BY <1>3, ForgetIs
  <2> QED BY <2>1 DEF Record
<1>5. PICK x : x = mem'
  OBVIOUS
<1>6. /\ x.base = 0 /\ x.entries = <<>> /\ x.lastIndex = 0 /\ x.lastTerm = 0 /\ x.anchor = Torn
      /\ x.loc = <<>> /\ x.seg = mem.seg /\ x.open = FALSE /\ x.buf = <<>> /\ x = [Empty EXCEPT !.seg = mem.seg]
  BY <1>3, <1>5 DEF Clear, Empty
<1>7. PICK d : d = disk'
  OBVIOUS
<1>8. DOMAIN d = {} /\ DOMAIN x.loc = {} /\ Len(x.entries) = 0
  BY <1>3, <1>6, <1>7
<1>9. DiskOK(d) /\ Typed(d)
  <2>1. d \in [{} -> Seq(Record)]
    BY <1>3, <1>7
  <2> QED BY <1>8, <2>1 DEF DiskOK, Typed, In
<1>10. Sized(d, synced')
  <2>1. synced' = [s \in {} |-> IF synced[s] < Len(d[s]) THEN synced[s] ELSE Len(d[s])]
    BY <1>3, <1>7, <1>8 DEF Shrunk
  <2> QED BY <1>8, <2>1 DEF Sized
<1>11. x \in Mem
  <2>1. Empty \in Mem
    BY <1>9, EmptyScanned
  <2> HIDE DEF Empty
  <2> QED BY <1>1, <1>6, <2>1 DEF Mem
<1>12. MemOK(d, x)
  BY <1>1, <1>6, <1>8, <1>11 DEF MemOK, EntriesOK, LocOK, WriterOK, Increasing
<1>13. health' \in {"clean", "failed", "buried"} /\ want' \in Seq(Nat)
  <2>1. CASE mem.base > 0
    BY <1>3, <2>1, FailsIs
  <2>2. CASE ~(mem.base > 0)
    <3>1. want \in Seq(Nat) /\ <<>> \in Seq(Nat) /\ Prefix(want, 0) = <<>>
      BY DEF StoreInv, Prefix
    <3> QED BY <1>3, <2>2, <3>1 DEF StoreInv
  <2> QED BY <2>1, <2>2
<1>14. StoreInv'
  BY <1>3, <1>4, <1>5, <1>7, <1>9, <1>10, <1>12, <1>13 DEF StoreInv, Sized
<1>15. DurableInv'
  <2>1. \A p \in Place : ~In(d, p)
    BY <1>8 DEF In
  <2> QED BY <1>4, <1>5, <1>7, <1>8, <1>6, <2>1 DEF DurableInv, Ordered, Complete, Separates
<1>16. CleanInv'
  <2> SUFFICES ASSUME health' = "clean" PROVE CleanInv'
    BY DEF CleanInv
  <2>1. ~(mem.base > 0)
    BY <1>3, FailsIs
  <2>2. health = "clean" /\ want' = Prefix(want, 0)
    BY <1>3, <2>1
  <2>3. want' = <<>> /\ Len(want') = 0
    <3>1. want \in Seq(Nat)
      BY DEF StoreInv
    <3> QED BY <2>2, <3>1 DEF Prefix
  <2>4. meta = Torn /\ meta.index = 0
    <3>1. meta.index = 0
      BY <1>1, <2>1, <2>2 DEF CleanInv, Based
    <3> QED BY <2>2, <3>1 DEF CleanInv, Based
  <2>5. Based(x, meta') /\ Contiguous(x)
    BY <1>3, <1>6, <1>8, <2>4 DEF Based, Contiguous
  <2>6. AsAsked(d, want')
    BY <1>8 DEF AsAsked, In
  <2> QED BY <1>5, <1>6, <1>7, <2>3, <2>5, <2>6 DEF CleanInv
<1> QED BY <1>14, <1>15, <1>16

\* A truncation above the base cuts the files after entry k.
LEMMA CutPreserves ==
  ASSUME StoreInv, DurableInv, CleanInv, NEW k \in Nat, TruncateFrom(k), k > mem.base
  PROVE  StoreInv' /\ DurableInv' /\ CleanInv'
<1>1. /\ mem \in Mem /\ DiskOK(disk) /\ EntriesOK(disk, mem) /\ LocOK(mem) /\ Sized(disk, synced)
  BY DEF StoreInv, MemOK, Sized
<1>2. /\ mem.base \in Nat /\ mem.seg \in Nat /\ Len(mem.entries) \in Nat /\ mem.entries \in Seq(Record)
      /\ mem.lastIndex \in Nat /\ mem.loc \in Places
      /\ \A i \in DOMAIN mem.loc : i \in Nat /\ mem.loc[i] \in Place /\ mem.loc[i].seg \in Nat
  <2>1. mem.loc \in Places
    BY <1>1, MemTypes
  <2> QED BY <1>1, <2>1, MemTypes, LocTypes DEF Place
<1>3. CanTruncate(k) /\ Left(k) = k /\ k # 0
  BY <1>2 DEF TruncateFrom, Left
<1>4. /\ disk' = CutFiles(mem, k) /\ mem' = Cut(mem, k) /\ synced' = Shrunk(disk') /\ Forget(k) /\ meta' = meta
      /\ want' = (IF health = "clean" THEN Prefix(want, k) ELSE <<>>) /\ health' = health
  BY <1>3 DEF TruncateFrom
<1>5. PICK n : n = k - mem.base
  OBVIOUS
<1>6. PICK c : c = mem.loc[k]
  OBVIOUS
<1>7. /\ n \in 1..Len(mem.entries) /\ mem.entries[n].index = k /\ mem.entries[n].term > 0 /\ k < mem.lastIndex
      /\ k \in DOMAIN mem.loc /\ In(disk, c) /\ c \in Place /\ At(disk, c) = mem.entries[n] /\ At(disk, c) # Torn
  BY <1>3, <1>5, <1>6, CutPlace
<1>8. PICK e : e = disk'
  OBVIOUS
<1>9. /\ Typed(e) /\ DOMAIN e = {s \in DOMAIN disk : s <= c.seg} /\ SubDisk(e, disk)
      /\ Len(e[c.seg]) = c.off
      /\ \A p \in Place : In(e, p) <=> In(disk, p) /\ ~Before(c, p)
  BY <1>3, <1>4, <1>6, <1>8, CutFilesIs
<1>10. DiskOK(e) /\ (Ordered(disk) => Ordered(e))
  BY <1>1, <1>9, SubDiskKeeps
<1>11. Sized(e, Shrunk(e))
  <2>1. DOMAIN e \subseteq DOMAIN disk
    BY <1>9
  <2> QED BY <1>1, <1>9, <2>1, ShrunkIs
<1>12. PICK es : es = Prefix(mem.entries, n)
  OBVIOUS
<1>13. es \in Seq(Record) /\ Len(es) = n /\ n \in Nat /\ \A j \in 1..n : es[j] = mem.entries[j]
  <2>1. PICK z : z = mem.entries
    OBVIOUS
  <2>2. z \in Seq(Record) /\ n \in 0..Len(z) /\ es = Prefix(z, n)
    BY <1>2, <1>7, <1>12, <2>1
  <2>3. es \in Seq(Record) /\ Len(es) = n /\ \A j \in 1..n : es[j] = z[j]
    BY <2>2, PrefixIs
  <2> QED BY <1>2, <1>7, <2>1, <2>3
<1>14. PICK D : D = {i \in DOMAIN mem.loc : i <= k}
  OBVIOUS
<1>15. PICK l : l = Restrict(mem.loc, D)
  OBVIOUS
<1>16. l \in Places /\ DOMAIN l = D /\ \A i \in D : l[i] = mem.loc[i] /\ i \in DOMAIN mem.loc /\ i <= k
  <2>1. DOMAIN l = D /\ \A i \in D : l[i] = mem.loc[i]
    BY <1>15 DEF Restrict
  <2>2. D \in SUBSET Nat /\ \A i \in D : mem.loc[i] \in Place
    BY <1>2, <1>14
  <2>3. l \in [D -> Place]
    BY <1>15, <2>2 DEF Restrict
  <2> QED BY <1>14, <2>1, <2>2, <2>3, PlacesAre
<1>17. PICK t \in Nat : t = mem.entries[n].term
  BY <1>2, <1>7, RecordTypes
<1>18. PICK s \in Nat : s = c.seg
  BY <1>7 DEF Place
<1>19. PICK x : x = mem'
  OBVIOUS
<1>20. /\ x \in Mem /\ x.entries = es /\ x.loc = l /\ x.lastIndex = k /\ x.lastTerm = t
       /\ x.seg = s /\ x.open /\ x.base = mem.base /\ x.anchor = mem.anchor
  <2>1. x = After(mem, es, l, k, t, s)
    BY <1>4, <1>5, <1>6, <1>12, <1>14, <1>15, <1>17, <1>18, <1>19 DEF Cut, After
  <2>2. mem \in Mem /\ es \in Seq(Record) /\ l \in Places /\ k \in Nat /\ t \in Nat /\ s \in Nat
    BY <1>1, <1>13, <1>16, <1>17, <1>18
  <2>3. IsAfter(x, mem, es, l, k, t, s)
    BY <2>1, <2>2, MemAfter
  <2> QED BY <2>3 DEF IsAfter
<1>21. \A i \in D : ~Before(c, mem.loc[i])
  <2> TAKE i \in D
  <2>1. i = k \/ i < k
    BY <1>2, <1>16
  <2>2. i < k => Before(mem.loc[i], c)
    BY <1>1, <1>6, <1>7, <1>16 DEF LocOK
  <2>3. mem.loc[i] \in Place
    BY <1>2, <1>16
  <2> QED BY <1>6, <1>7, <2>1, <2>2, <2>3 DEF Before, Place
<1>22. \A j \in 1..n : mem.entries[j].index <= k /\ mem.entries[j].index \in Nat
                       /\ mem.entries[j].index > 0
  <2> TAKE j \in 1..n
  <2>1. j \in 1..Len(mem.entries) /\ (j = n \/ j < n)
    BY <1>2, <1>7
  <2>2. mem.entries[j].index \in 1..mem.lastIndex
    BY <1>1, <2>1 DEF EntriesOK
  <2>3. j < n => mem.entries[j].index < k
    BY <1>1, <1>7, <2>1 DEF EntriesOK, Increasing
  <2> QED BY <1>2, <1>7, <2>1, <2>2, <2>3
<1>23. EntriesOK(e, x)
  <2>1. Increasing(es)
    <3> SUFFICES ASSUME NEW i \in 1..Len(es), NEW j \in 1..Len(es), i < j PROVE es[i].index < es[j].index
      BY DEF Increasing
    <3>1. i \in 1..Len(mem.entries) /\ j \in 1..Len(mem.entries)
      BY <1>2, <1>7, <1>13
    <3>2. mem.entries[i].index < mem.entries[j].index
      BY <1>1, <3>1 DEF EntriesOK, Increasing
    <3> QED BY <1>13, <3>2
  <2>2. ASSUME NEW j \in 1..n
        PROVE  /\ es[j].index \in 1..k /\ es[j].term > 0
               /\ es[j].index > mem.base => Exact(e, x, es[j])
    <3>1. PICK r : r = es[j]
      OBVIOUS
    <3>2. r = mem.entries[j] /\ j \in 1..Len(mem.entries)
      BY <1>2, <1>7, <1>13, <3>1
    <3>3. r.term > 0 /\ (r.index > mem.base => Exact(disk, mem, r))
      BY <1>1, <3>2 DEF EntriesOK
    <3>4. r.index \in 1..k /\ r.index <= k
      BY <1>22, <3>2
    <3>5. ASSUME r.index > mem.base PROVE Exact(e, x, r)
      <4>1. r.index \in DOMAIN mem.loc /\ In(disk, mem.loc[r.index]) /\ At(disk, mem.loc[r.index]) = r
        BY <3>3, <3>5 DEF Exact
      <4>2. r.index \in D
        BY <1>14, <3>4, <4>1
      <4>3. In(e, mem.loc[r.index])
        BY <1>2, <1>9, <1>21, <4>1, <4>2
      <4>4. At(e, mem.loc[r.index]) = r
        BY <1>2, <1>9, <4>1, <4>3 DEF SubDisk
      <4> QED BY <1>16, <1>20, <4>2, <4>3, <4>4 DEF Exact
    <3> QED BY <3>1, <3>3, <3>4, <3>5
  <2> QED BY <1>13, <1>20, <2>1, <2>2 DEF EntriesOK
<1>24. LocOK(x)
  <2>1. \A i \in D : i \in 1..k
    BY <1>1, <1>2, <1>16 DEF LocOK
  <2>2. \A i, j \in D : i < j => Before(l[i], l[j])
    BY <1>1, <1>16 DEF LocOK
  <2> QED BY <1>16, <1>20, <2>1, <2>2 DEF LocOK
<1>25. WriterOK(e, x)
  <2>1. ASSUME NEW i \in D PROVE l[i].seg <= s /\ (l[i].seg = s => In(e, l[i]))
    <3>1. mem.loc[i] \in Place /\ l[i] = mem.loc[i] /\ ~Before(c, l[i])
      BY <1>2, <1>16, <1>21
    <3>2. l[i].seg \in Nat /\ l[i].off \in Nat /\ c.off \in Nat
      BY <1>7, <3>1 DEF Place
    <3>3. l[i].seg <= s /\ (l[i].seg = s => l[i].off <= c.off)
      BY <1>18, <3>1, <3>2 DEF Before
    <3>4. c.seg \in DOMAIN e
      BY <1>7, <1>9, <1>18 DEF In
    <3> QED BY <1>9, <1>18, <3>1, <3>3, <3>4 DEF In
  <2>2. \A z \in DOMAIN e : z <= s
    BY <1>9, <1>18
  <2> QED BY <1>16, <1>20, <2>1, <2>2 DEF WriterOK
<1>26. s <= MaxSegment
  BY <1>1, <1>7, <1>18, LogBoundAssumption DEF In, DiskOK
<1>27. /\ flushed' \subseteq flushed /\ \A f \in flushed' : f.index <= k /\ f.index > 0 /\ f # Torn
       /\ flushed' \subseteq Record
  BY <1>4, ForgetIs
<1>28. StoreInv'
  <2>1. MemOK(disk', mem')
    BY <1>8, <1>19, <1>20, <1>23, <1>24, <1>25, <1>26 DEF MemOK
  <2>2. want' \in Seq(Nat)
    <3>1. want \in Seq(Nat) /\ <<>> \in Seq(Nat)
      BY DEF StoreInv
    <3>2. CASE health = "clean"
      <4>1. Len(want) = mem.lastIndex
        BY <3>2 DEF CleanInv
      <4>2. k \in 0..Len(want)
        BY <1>2, <1>7, <4>1
      <4>3. Prefix(want, k) \in Seq(Nat)
        BY <1>2, <3>1, <4>1, <4>2, SubSeqProperties DEF Prefix
      <4> QED BY <1>4, <3>2, <4>3
    <3>3. CASE health # "clean"
      BY <1>4, <3>1, <3>3
    <3> QED BY <3>2, <3>3
  <2> QED BY <1>4, <1>8, <1>10, <1>11, <1>27, <2>1, <2>2 DEF StoreInv, Sized
<1>29. DurableInv'
  <2> SUFFICES ASSUME health # "buried"
               PROVE  /\ Ordered(e) /\ Complete(e, x, meta.index) /\ Separates(e, x)
                      /\ \A f \in flushed' : f.index > meta.index => Safely(e, Shrunk(e), f)
    BY <1>4, <1>8, <1>19 DEF DurableInv
  <2>1. Complete(disk, mem, meta.index) /\ Separates(disk, mem) /\ Ordered(e)
    BY <1>10 DEF DurableInv
  <2>2. ASSUME NEW p \in Place, In(e, p), At(e, p) # Torn
        PROVE  /\ At(e, p).index <= x.lastIndex
               /\ At(e, p).index > meta.index => \E j \in 1..Len(x.entries) : x.entries[j] = At(e, p)
    <3>1. In(disk, p) /\ At(e, p) = At(disk, p) /\ ~Before(c, p)
      BY <1>9, <2>2 DEF SubDisk
    <3>2. PICK r : r = At(disk, p)
      OBVIOUS
    <3>3. r.index <= k /\ r.index \in Nat
      BY <1>3, <1>6, <2>2, <3>1, <3>2, NoneBehindCut
    <3>4. ASSUME r.index > meta.index PROVE \E j \in 1..Len(es) : es[j] = r
      <4>1. PICK j \in 1..Len(mem.entries) : mem.entries[j] = r
        BY <2>1, <2>2, <3>1, <3>2, <3>4 DEF Complete
      <4>2. ~(n < j)
        <5> SUFFICES ASSUME n < j PROVE FALSE
          OBVIOUS
        <5>1. k < r.index
          BY <1>1, <1>7, <4>1 DEF EntriesOK, Increasing
        <5> QED BY <3>3, <5>1
      <4>3. j \in 1..n
        BY <1>2, <1>7, <4>2
      <4> QED BY <1>13, <4>1, <4>3
    <3> QED BY <1>20, <3>1, <3>2, <3>3, <3>4
  <2>3. Complete(e, x, meta.index)
    BY <2>2 DEF Complete
  <2>4. Separates(e, x)
    <3> SUFFICES ASSUME NEW i \in D, NEW p \in Place, In(e, p), At(e, p) # Torn, Before(p, l[i])
                 PROVE  At(e, p).index < i
      BY <1>16, <1>20 DEF Separates
    <3>1. In(disk, p) /\ At(e, p) = At(disk, p)
      BY <1>9 DEF SubDisk
    <3> QED BY <1>16, <2>1, <3>1 DEF Separates
  <2>5. ASSUME NEW f \in flushed', f.index > meta.index PROVE Safely(e, Shrunk(e), f)
    <3>1. f \in flushed /\ f.index <= k /\ f # Torn
      BY <1>27
    <3>2. DOMAIN e \subseteq DOMAIN disk
      BY <1>9
    <3>3. \A p \in Place : In(disk, p) /\ ~Before(mem.loc[k], p) => In(e, p)
      BY <1>6, <1>9
    <3> QED BY <1>3, <1>9, <2>5, <3>1, <3>2, <3>3, FlushedUpTo
  <2> QED BY <2>1, <2>3, <2>4, <2>5
<1>30. CleanInv'
  <2> SUFFICES ASSUME health = "clean" PROVE CleanInv'
    BY <1>4 DEF CleanInv
  <2>1. /\ AsAsked(disk, want) /\ mem.lastIndex = Len(want)
        /\ \A j \in 1..Len(want) : j > meta.index \/ j = Len(want) => Present(disk, j)
        /\ Based(mem, meta) /\ Contiguous(mem) /\ health # "buried"
    BY DEF CleanInv
  <2>2. PICK w : w = want'
    OBVIOUS
  <2>3. Len(w) = k /\ \A i \in 1..k : w[i] = want[i]
    <3>1. want \in Seq(Nat) /\ k \in 0..Len(want) /\ w = SubSeq(want, 1, k) /\ Len(want) \in Nat
      BY <1>2, <1>4, <1>7, <2>1, <2>2 DEF StoreInv, Prefix
    <3> QED BY <3>1, SubSeqProperties
  <2>4. AsAsked(e, w)
    <3> SUFFICES ASSUME NEW p \in Place, In(e, p)
                 PROVE  At(e, p) # Torn /\ At(e, p).index <= Len(w) /\ At(e, p).term = w[At(e, p).index]
      BY DEF AsAsked
    <3>1. In(disk, p) /\ At(e, p) = At(disk, p) /\ ~Before(c, p)
      BY <1>9 DEF SubDisk
    <3>2. PICK r : r = At(disk, p)
      OBVIOUS
    <3>3. r # Torn /\ r.term = want[r.index]
      BY <2>1, <3>1, <3>2 DEF AsAsked
    <3>4. r.index <= k /\ r.index \in Nat
      BY <1>3, <1>6, <2>1, <3>1, <3>2, <3>3, NoneBehindCut
    <3>5. r.index > 0
      BY <1>1, <3>1, <3>2, <3>3 DEF DiskOK
    <3>6. r.index \in 1..k
      BY <3>4, <3>5
    <3> QED BY <2>3, <3>1, <3>2, <3>3, <3>4, <3>6
  <2>5. mem.base = meta.index
    BY <2>1 DEF Based
  <2>6. ASSUME NEW j \in 1..k, j > meta.index \/ j = k PROVE Present(e, j)
    <3>1. j \in 1..Len(want) /\ j > meta.index /\ j <= k
      BY <1>2, <1>7, <2>1, <2>5, <2>6
    <3>2. PICK p \in Place : In(disk, p) /\ At(disk, p).index = j
      BY <2>1, <3>1 DEF Present
    <3>3. At(disk, p) # Torn
      BY <2>1, <3>2 DEF AsAsked
    <3>4. ~Before(c, p)
      BY <1>3, <1>6, <2>1, <3>1, <3>2, <3>3, NoneBehindCut
    <3>5. In(e, p)
      BY <1>9, <3>2, <3>4
    <3> QED BY <1>9, <3>2, <3>5 DEF Present, SubDisk
  <2>7. Based(x, meta')
    BY <1>4, <1>20, <2>1 DEF Based
  <2>8. Contiguous(x)
    <3>1. \A j \in 1..n : es[j].index = mem.base + j
      <4> TAKE j \in 1..n
      <4>1. j \in 1..Len(mem.entries)
        BY <1>2, <1>7
      <4> QED BY <1>13, <2>1, <4>1 DEF Contiguous
    <3>2. Len(es) = k - mem.base
      BY <1>5, <1>13
    <3> QED BY <1>7, <1>13, <1>17, <1>20, <3>1, <3>2 DEF Contiguous
  <2> QED BY <1>4, <1>8, <1>19, <1>20, <2>2, <2>3, <2>4, <2>6, <2>7, <2>8 DEF CleanInv
<1> QED BY <1>28, <1>29, <1>30

\* The process dies while the files are being cut, from the last one down.
LEMMA KillInTruncatePreserves ==
  ASSUME StoreInv, DurableInv, CleanInv, NEW k \in Nat, KillInTruncate(k)
  PROVE  StoreInv' /\ DurableInv' /\ CleanInv'
<1>1. /\ CanTruncate(k) /\ synced' = Shrunk(disk') /\ Fails /\ Forget(Left(k)) /\ meta' = meta /\ Reopen
  BY DEF KillInTruncate
<1>2. PICK s \in DOMAIN disk :
        IF Left(k) = 0 THEN disk' = Restrict(disk, {i \in DOMAIN disk : i >= s})
        ELSE disk' = Over(CutFiles(mem, k), Restrict(disk, {i \in DOMAIN disk : i >= s}))
  BY DEF KillInTruncate
<1>3. DiskOK(disk) /\ Sized(disk, synced) /\ mem \in Mem
  BY DEF StoreInv, Sized, MemOK
<1>4. mem.base \in Nat /\ Left(k) \in Nat /\ (Left(k) # 0 => Left(k) = k /\ k > mem.base)
  <2>1. mem.base \in Nat
    BY <1>3, MemTypes
  <2> QED BY <2>1 DEF Left
<1>5. PICK b : b = Restrict(disk, {i \in DOMAIN disk : i >= s})
  OBVIOUS
<1>6. Typed(b) /\ SubDisk(b, disk) /\ DOMAIN b \subseteq DOMAIN disk
  <2>1. PICK S : S = {i \in DOMAIN disk : i >= s}
    OBVIOUS
  <2>2. b = Restrict(disk, S) /\ S \in SUBSET DOMAIN disk
    BY <1>5, <2>1
  <2> QED BY <1>3, <2>2, RestrictIs
<1>7. PICK e : e = disk'
  OBVIOUS
<1>8. /\ Typed(e) /\ SubDisk(e, disk) /\ DOMAIN e \subseteq DOMAIN disk
      /\ Left(k) # 0 => \A p \in Place : In(disk, p) /\ ~Before(mem.loc[k], p) => In(e, p)
  <2>1. CASE Left(k) = 0
    BY <1>2, <1>5, <1>6, <1>7, <2>1
  <2>2. CASE Left(k) # 0
    <3>1. PICK a : a = CutFiles(mem, k)
      OBVIOUS
    <3>2. /\ Typed(a) /\ SubDisk(a, disk)
          /\ DOMAIN a = {i \in DOMAIN disk : i <= mem.loc[k].seg}
          /\ \A p \in Place : In(a, p) <=> In(disk, p) /\ ~Before(mem.loc[k], p)
      BY <1>1, <1>4, <2>2, <3>1, CutFilesIs
    <3>3. DOMAIN a \subseteq DOMAIN disk
      BY <3>2
    <3>4. e = Over(a, b)
      BY <1>2, <1>5, <1>7, <2>2, <3>1
    <3>5. /\ Typed(e) /\ SubDisk(e, disk) /\ DOMAIN e \subseteq DOMAIN disk
          /\ \A p \in Place : In(a, p) => In(e, p)
      BY <1>3, <1>6, <3>2, <3>3, <3>4, OverIs
    <3> QED BY <3>2, <3>5
  <2> QED BY <2>1, <2>2
<1>9. DiskOK(e) /\ (Ordered(disk) => Ordered(e))
  BY <1>3, <1>8, SubDiskKeeps
<1>10. Sized(e, Shrunk(e))
  BY <1>3, <1>8, ShrunkIs
<1>11. /\ flushed' \subseteq flushed /\ \A f \in flushed' : f.index <= Left(k) /\ f.index > 0 /\ f # Torn
       /\ flushed' \subseteq Record
  BY <1>1, <1>4, ForgetIs
<1>12. /\ health' \in {"failed", "buried"} /\ (health' # "buried" => health # "buried")
       /\ want' \in Seq(Nat)
  BY <1>1, FailsIs
<1>13. ASSUME health' # "buried", NEW f \in flushed', f.index > meta.index
       PROVE  Safely(e, Shrunk(e), f)
  <2>1. f \in flushed /\ f.index <= Left(k) /\ f.index > 0 /\ f # Torn /\ f.index \in Nat
    BY <1>11 DEF Record
  <2>2. Left(k) # 0
    BY <2>1
  <2>3. Left(k) = k /\ k > mem.base /\ f.index <= k
    BY <1>4, <2>1, <2>2
  <2>4. \A p \in Place : In(disk, p) /\ ~Before(mem.loc[k], p) => In(e, p)
    BY <1>8, <2>2
  <2> QED BY <1>1, <1>8, <1>12, <1>13, <2>1, <2>3, <2>4, FlushedUpTo
<1>14. health' # "buried" => Ordered(disk')
  BY <1>7, <1>9, <1>12 DEF DurableInv
<1>15. health' # "buried" =>
         \A f \in flushed' : f.index > meta'.index => Safely(disk', synced', f)
  BY <1>1, <1>7, <1>13
<1>16. /\ meta' \in Record /\ flushed' \subseteq Record /\ \A f \in flushed' : f.index > 0
  BY <1>1, <1>11 DEF StoreInv
<1>17. health' \in {"clean", "failed", "buried"} /\ (health' = "clean" => Asked(disk', meta', want'))
  BY <1>12
<1>18. DiskOK(disk') /\ Sized(disk', synced')
  BY <1>1, <1>7, <1>9, <1>10
<1> QED BY <1>1, <1>12, <1>14, <1>15, <1>16, <1>17, <1>18, Restarts

\* What a power failure leaves of a file of which n records are safe.
LeftOf(l, n, torn) == IF torn /\ n < Len(l) THEN Append(Prefix(l, n), Torn) ELSE Prefix(l, n)

TornAfter(r, l, n) ==
  /\ r \in Seq(Record) /\ Len(r) \in Nat /\ n <= Len(r) /\ Len(r) <= Len(l)
  /\ \A o \in 1..n : r[o] = l[o]
  /\ \A o \in 1..Len(r) : o \in 1..n \/ (o = n + 1 /\ o = Len(r) /\ r[o] = Torn)

\* The safe records stay as they are, and at most one torn record follows them.
LEMMA TornTail ==
  ASSUME NEW l \in Seq(Record), NEW n \in 0..Len(l), NEW torn \in BOOLEAN, NEW r,
         r = LeftOf(l, n, torn)
  PROVE  TornAfter(r, l, n)
<1> USE DEF TornAfter
<1>1. Len(l) \in Nat /\ Torn \in Record
  BY RecordTypes DEF Torn, Record
<1>2. PICK c : c = Prefix(l, n)
  OBVIOUS
<1>3. c \in Seq(Record) /\ Len(c) = n /\ \A o \in 1..n : c[o] = l[o]
  BY <1>2, PrefixIs
<1>4. CASE ~(torn /\ n < Len(l))
  BY <1>1, <1>2, <1>3, <1>4 DEF LeftOf
<1>5. CASE torn /\ n < Len(l)
  <2>1. r = Append(c, Torn)
    BY <1>2, <1>5 DEF LeftOf
  <2>2. PICK z \in Record : z = Torn
    BY <1>1
  <2>3. r = Append(c, z)
    BY <2>1, <2>2
  <2>4. /\ r \in Seq(Record) /\ Len(r) = n + 1 /\ r[n + 1] = z /\ \A o \in 1..n : r[o] = c[o]
    <3>1. c \in Seq(Record) /\ z \in Record
      BY <1>3
    <3>2. /\ Append(c, z) \in Seq(Record) /\ Len(Append(c, z)) = Len(c) + 1
          /\ \A o \in 1..Len(c) : Append(c, z)[o] = c[o]
          /\ Append(c, z)[Len(c) + 1] = z
      BY <3>1, AppendProperties
    <3> QED BY <1>3, <2>3, <3>2
  <2>5. n \in Nat /\ n + 1 <= Len(l)
    BY <1>1, <1>5
  <2> QED BY <1>1, <1>3, <2>2, <2>4, <2>5
<1> QED BY <1>4, <1>5

\* A power failure loses what was not synced, and may tear the first lost record.
LEMMA PowerFailPreserves ==
  ASSUME StoreInv, DurableInv, CleanInv, PowerFail
  PROVE  StoreInv' /\ DurableInv' /\ CleanInv'
<1>1. PICK kept \in [DOMAIN disk -> 0..(SegmentSize + 1)], torn \in BOOLEAN :
        /\ \A s \in DOMAIN disk : kept[s] \in synced[s]..Len(disk[s])
        /\ disk' = [s \in DOMAIN disk |->
                      IF torn /\ kept[s] < Len(disk[s]) THEN Append(Prefix(disk[s], kept[s]), Torn)
                      ELSE Prefix(disk[s], kept[s])]
        /\ synced' = [s \in DOMAIN disk' |-> Len(disk'[s])]
        /\ Fails /\ meta' = meta /\ flushed' = flushed /\ Reopen
  BY DEF PowerFail
<1>2. DiskOK(disk) /\ Sized(disk, synced)
  BY DEF StoreInv, Sized
<1>3. PICK e : e = disk'
  OBVIOUS
<1>4. ASSUME NEW s \in DOMAIN disk
      PROVE  /\ e[s] \in Seq(Record) /\ Len(e[s]) \in Nat /\ kept[s] \in Nat /\ synced[s] \in Nat
             /\ synced[s] <= kept[s] /\ kept[s] <= Len(e[s]) /\ Len(e[s]) <= Len(disk[s])
             /\ Len(disk[s]) \in Nat
             /\ \A o \in 1..kept[s] : e[s][o] = disk[s][o]
             /\ \A o \in 1..Len(e[s]) :
                  o \in 1..kept[s] \/ (o = kept[s] + 1 /\ o = Len(e[s]) /\ e[s][o] = Torn)
  <2>1. PICK l : l = disk[s]
    OBVIOUS
  <2>2. PICK n : n = kept[s]
    OBVIOUS
  <2>3. l \in Seq(Record) /\ Len(l) \in Nat /\ synced[s] \in Nat
    BY <1>2, <2>1, RecordTypes DEF DiskOK, Sized
  <2>4. n \in synced[s]..Len(l)
    BY <1>1, <2>1, <2>2
  <2>5. n \in 0..Len(l) /\ n \in Nat /\ synced[s] <= n
    BY <2>3, <2>4
  <2>6. e[s] = LeftOf(l, n, torn)
    BY <1>1, <1>3, <2>1, <2>2 DEF LeftOf
  <2>7. PICK r : r = e[s]
    OBVIOUS
  <2>8. r = LeftOf(l, n, torn)
    BY <2>6, <2>7
  <2>9. /\ r \in Seq(Record) /\ Len(r) \in Nat /\ n <= Len(r) /\ Len(r) <= Len(l)
        /\ \A o \in 1..n : r[o] = l[o]
        /\ \A o \in 1..Len(r) : o \in 1..n \/ (o = n + 1 /\ o = Len(r) /\ r[o] = Torn)
    <3>1. l \in Seq(Record) /\ n \in 0..Len(l) /\ torn \in BOOLEAN
      BY <2>3, <2>5
    <3>2. TornAfter(r, l, n)
      BY <2>8, <3>1, TornTail
    <3> QED BY <3>2 DEF TornAfter
  <2> QED BY <2>1, <2>2, <2>3, <2>5, <2>7, <2>9
<1>5. DOMAIN e = DOMAIN disk /\ Typed(e)
  <2>1. DOMAIN e = DOMAIN disk
    BY <1>1, <1>3
  <2>2. \A s \in DOMAIN e : e[s] \in Seq(Record)
    BY <1>4, <2>1
  <2>3. e \in [DOMAIN e -> Seq(Record)]
    BY <1>1, <1>3, <2>2
  <2> QED BY <1>2, <2>1, <2>3 DEF Typed, DiskOK
<1>6. ASSUME NEW p \in Place, In(e, p)
      PROVE  /\ In(disk, p)
             /\ At(e, p) = At(disk, p) \/ (At(e, p) = Torn /\ p.off = Len(e[p.seg]))
  <2>1. p.seg \in DOMAIN disk /\ p.off \in 1..Len(e[p.seg]) /\ p.off \in Nat
    BY <1>4, <1>5, <1>6 DEF In, Place
  <2>2. In(disk, p)
    BY <1>4, <1>6, <2>1 DEF In
  <2> QED BY <1>4, <2>1, <2>2 DEF At
<1>7. ASSUME NEW p \in Place, In(disk, p), p.off <= synced[p.seg]
      PROVE  In(e, p) /\ At(e, p) = At(disk, p)
  <2>1. p.seg \in DOMAIN disk /\ p.off \in Nat \ {0}
    BY <1>7 DEF In, Place
  <2>2. p.off \in 1..kept[p.seg] /\ p.off <= Len(e[p.seg])
    BY <1>4, <1>7, <2>1
  <2> QED BY <1>4, <1>5, <1>7, <2>1, <2>2 DEF In, At
<1>8. DiskOK(e)
  <2>1. ASSUME NEW p \in Place, In(e, p), At(e, p) # Torn PROVE At(e, p).index > 0 /\ At(e, p).term > 0
    BY <1>2, <1>6, <2>1 DEF DiskOK
  <2> QED BY <1>5, <2>1 DEF DiskOK, Typed
<1>9. Ordered(disk) => Ordered(e)
  <2> SUFFICES ASSUME Ordered(disk), NEW p \in Place, NEW q \in Place,
                      In(e, p), In(e, q), Before(p, q), At(e, q) # Torn
               PROVE  IF At(e, p) = Torn THEN p.seg # q.seg ELSE At(e, p).index < At(e, q).index
    BY DEF Ordered
  <2>1. In(disk, p) /\ In(disk, q) /\ At(e, q) = At(disk, q)
    BY <1>6
  <2>2. CASE At(e, p) = At(disk, p)
    BY <2>1, <2>2 DEF Ordered
  <2>3. CASE At(e, p) = Torn /\ p.off = Len(e[p.seg])
    <3> SUFFICES ASSUME p.seg = q.seg PROVE FALSE
      BY <2>3
    <3>1. q.off <= p.off
      BY <2>3 DEF In
    <3> QED BY <3>1 DEF Before, Place
  <2> QED BY <1>6, <2>2, <2>3
<1>10. Sized(e, synced') /\ \A s \in DOMAIN e : synced'[s] = Len(e[s])
  <2>1. \A s \in DOMAIN e : Len(e[s]) \in Nat
    BY <1>4, <1>5
  <2>2. synced' = [s \in DOMAIN e |-> Len(e[s])]
    BY <1>1, <1>3
  <2> QED BY <2>1, <2>2 DEF Sized
<1>11. /\ health' \in {"failed", "buried"} /\ (health' # "buried" => health # "buried")
       /\ want' \in Seq(Nat)
  BY <1>1, FailsIs
<1>12. ASSUME health' # "buried", NEW f \in flushed, f.index > meta.index
       PROVE  Safely(e, synced', f)
  <2>1. PICK p \in Place : In(disk, p) /\ p.off <= synced[p.seg] /\ At(disk, p) = f
    BY <1>11, <1>12 DEF DurableInv, Safely
  <2>2. In(e, p) /\ At(e, p) = f
    BY <1>7, <2>1
  <2>3. p.off <= synced'[p.seg]
    BY <1>10, <2>2 DEF In
  <2> QED BY <2>2, <2>3 DEF Safely
<1>13. health' # "buried" => Ordered(disk')
  BY <1>3, <1>9, <1>11 DEF DurableInv
<1>14. health' # "buried" =>
         \A f \in flushed' : f.index > meta'.index => Safely(disk', synced', f)
  BY <1>1, <1>3, <1>12
<1>15. /\ meta' \in Record /\ flushed' \subseteq Record /\ \A f \in flushed' : f.index > 0
  BY <1>1 DEF StoreInv
<1>16. health' \in {"clean", "failed", "buried"} /\ (health' = "clean" => Asked(disk', meta', want'))
  BY <1>11
<1>17. DiskOK(disk') /\ Sized(disk', synced') /\ Reopen
  BY <1>1, <1>3, <1>8, <1>10
<1> QED BY <1>11, <1>13, <1>14, <1>15, <1>16, <1>17, Restarts

(***************************************************************************)
(* The theorems.                                                           *)
(***************************************************************************)
LogInv == StoreInv /\ DurableInv /\ CleanInv

LEMMA InitInv == Init => LogInv
<1> SUFFICES ASSUME Init PROVE LogInv
  OBVIOUS
<1>1. /\ disk = <<>> /\ synced = <<>> /\ meta = Torn /\ mem = Empty /\ health = "clean" /\ want = <<>>
      /\ flushed = {}
  BY DEF Init
<1>2. DOMAIN disk = {} /\ \A p \in Place : ~In(disk, p)
  <2>1. DOMAIN disk = {}
    BY <1>1
  <2> QED BY <2>1 DEF In
<1>3. DiskOK(disk)
  <2>1. disk \in [{} -> Seq(Record)]
    BY <1>1
  <2> QED BY <1>2, <2>1 DEF DiskOK
<1>4. mem \in Mem /\ ScanOK(disk, mem, 0)
  BY <1>1, <1>3, EmptyScanned
<1>5. /\ mem.base = 0 /\ mem.entries = <<>> /\ mem.lastIndex = 0 /\ mem.anchor = Torn
      /\ mem.loc = <<>> /\ mem.seg = 0 /\ Len(mem.entries) = 0 /\ DOMAIN mem.loc = {}
  BY <1>1 DEF Empty
<1>6. MemOK(disk, mem)
  BY <1>2, <1>4, <1>5, LogBoundAssumption DEF MemOK, ScanOK, WriterOK
<1>7. StoreInv
  <2>1. Torn \in Record
    BY DEF Torn, Record
  <2>2. synced \in [DOMAIN disk -> Nat]
    BY <1>1, <1>2
  <2>3. want \in Seq(Nat)
    BY <1>1
  <2> QED BY <1>1, <1>2, <1>3, <1>6, <2>1, <2>2, <2>3 DEF StoreInv
<1>8. DurableInv
  BY <1>1, <1>2, <1>5 DEF DurableInv, Ordered, Complete, Separates
<1>9. CleanInv
  <2>1. Len(want) = 0
    BY <1>1
  <2>2. meta.index = 0
    BY <1>1 DEF Torn
  <2> QED BY <1>1, <1>2, <1>5, <2>1, <2>2 DEF CleanInv, AsAsked, Based, Contiguous
<1> QED BY <1>7, <1>8, <1>9 DEF LogInv

LEMMA NextInv == LogInv /\ [Next]_logVars => LogInv'
<1> SUFFICES ASSUME StoreInv, DurableInv, CleanInv, [Next]_logVars
             PROVE  StoreInv' /\ DurableInv' /\ CleanInv'
  BY DEF LogInv
<1>1. ASSUME NEW t \in Term, NEW flush \in BOOLEAN, AppendEntry(t, flush)
      PROVE  StoreInv' /\ DurableInv' /\ CleanInv'
  BY <1>1, AppendPreserves
<1>2. CASE Persist
  BY <1>2, PersistPreserves
<1>3. ASSUME NEW k \in 0..MaxIndex, TruncateFrom(k) PROVE StoreInv' /\ DurableInv' /\ CleanInv'
  <2>1. k \in Nat
    BY LogBoundAssumption
  <2> QED BY <1>3, <2>1, ClearPreserves, CutPreserves
<1>4. ASSUME NEW k \in 0..MaxIndex, KillInTruncate(k) PROVE StoreInv' /\ DurableInv' /\ CleanInv'
  <2>1. k \in Nat
    BY LogBoundAssumption
  <2> QED BY <1>4, <2>1, KillInTruncatePreserves
<1>5. ASSUME NEW i \in 1..MaxIndex, CompactLogs(i) PROVE StoreInv' /\ DurableInv' /\ CleanInv'
  <2>1. i \in Nat
    BY LogBoundAssumption
  <2> QED BY <1>5, <2>1, CompactPreserves
<1>6. ASSUME NEW i \in 1..MaxIndex, KillInCompact(i) PROVE StoreInv' /\ DurableInv' /\ CleanInv'
  <2>1. i \in Nat
    BY LogBoundAssumption
  <2> QED BY <1>6, <2>1, KillInCompactPreserves
<1>7. CASE Kill
  BY <1>7, KillPreserves
<1>8. CASE KillInAppend
  BY <1>8, KillInAppendPreserves
<1>9. CASE PowerFail
  BY <1>9, PowerFailPreserves
<1>10. CASE UNCHANGED logVars
  BY <1>10 DEF logVars, history, StoreInv, DurableInv, CleanInv
<1> QED BY <1>1, <1>2, <1>3, <1>4, <1>5, <1>6, <1>7, <1>8, <1>9, <1>10 DEF Next

\* The inductive invariant, for any number of entries, segments and failures.
THEOREM LogInvariant == Spec => []LogInv
<1>1. Init => LogInv
  BY InitInv
<1>2. LogInv /\ [Next]_logVars => LogInv'
  BY NextInv
<1> QED BY <1>1, <1>2, PTL DEF Spec

\* Every entry beyond the base is where the WalIndex says, so that TruncateFrom
\* cuts its file behind the right record, after any failure.
THEOREM EntriesWhereIndexed == Spec => []LocationsExact
<1>1. LogInv => LocationsExact
  <2> SUFFICES ASSUME LogInv, NEW r \in Beyond(Range(mem.entries), mem.base)
               PROVE  /\ r.index \in DOMAIN mem.loc /\ mem.loc[r.index].seg \in DOMAIN disk
                      /\ mem.loc[r.index].off \in DOMAIN disk[mem.loc[r.index].seg]
                      /\ disk[mem.loc[r.index].seg][mem.loc[r.index].off] = r
    BY DEF LocationsExact
  <2>1. mem \in Mem /\ EntriesOK(disk, mem) /\ DiskOK(disk)
    BY DEF LogInv, StoreInv, MemOK
  <2>2. DOMAIN mem.entries = 1..Len(mem.entries)
    BY <2>1, MemTypes, RecordTypes
  <2>3. PICK j \in 1..Len(mem.entries) : mem.entries[j] = r
    BY <2>2 DEF Beyond, Range
  <2>4. r.index > mem.base
    BY DEF Beyond
  <2>5. Exact(disk, mem, r)
    BY <2>1, <2>3, <2>4 DEF EntriesOK
  <2>6. PICK p : p = mem.loc[r.index]
    OBVIOUS
  <2>7. /\ r.index \in DOMAIN mem.loc /\ p.seg \in DOMAIN disk /\ p.off \in Nat \ {0}
        /\ p.off <= Len(disk[p.seg]) /\ disk[p.seg][p.off] = r
    BY <2>5, <2>6 DEF Exact, In, At, Place
  <2>8. DOMAIN disk[p.seg] = 1..Len(disk[p.seg]) /\ Len(disk[p.seg]) \in Nat
    <3>1. disk[p.seg] \in Seq(Record)
      BY <2>1, <2>7 DEF DiskOK
    <3> QED BY <3>1, RecordTypes
  <2>9. p.off \in DOMAIN disk[p.seg]
    BY <2>7, <2>8
  <2> QED BY <2>6, <2>7, <2>9
<1> QED BY <1>1, LogInvariant, PTL

\* A log that is not empty has its writer: Append never meets a missing one.
THEOREM WriterAlwaysReady == Spec => []WriterReady
<1>1. LogInv => WriterReady
  BY DEF LogInv, StoreInv, MemOK, WriterOK, WriterReady
<1> QED BY <1>1, LogInvariant, PTL

\* An Append that synced its record is kept through kills and power failures
\* until a record is written behind a torn one.
THEOREM FlushedEntriesKept == Spec => []FlushedUnlessTorn
<1>1. LogInv => FlushedUnlessTorn
  <2> SUFFICES ASSUME LogInv, health # "buried", NEW f \in flushed, f.index > meta.index
               PROVE  f \in Range(mem.entries)
    BY DEF FlushedUnlessTorn, Beyond
  <2>1. PICK p \in Place : In(disk, p) /\ At(disk, p) = f
    BY DEF LogInv, DurableInv, Safely
  <2>2. f # Torn
    <3>1. f.index > 0
      BY DEF LogInv, StoreInv
    <3> QED BY <3>1 DEF Torn
  <2>3. PICK j \in 1..Len(mem.entries) : mem.entries[j] = f
    BY <2>1, <2>2 DEF LogInv, DurableInv, Complete
  <2>4. DOMAIN mem.entries = 1..Len(mem.entries)
    BY MemTypes, RecordTypes DEF LogInv, StoreInv, MemOK
  <2> QED BY <2>3, <2>4 DEF Range
<1> QED BY <1>1, LogInvariant, PTL

\* Through kills, truncations, rolls and compactions the log ends where its
\* callers left it and holds the terms they appended.
THEOREM LogHoldsWhatWasAsked == Spec => []LogAsAsked
<1>1. LogInv => LogAsAsked
  <2> SUFFICES ASSUME LogInv, health = "clean"
               PROVE  /\ mem.lastIndex = Len(want)
                      /\ \A i \in (meta.index + 1)..Len(want) : GetTerm(mem, i) = want[i]
    BY DEF LogAsAsked
  <2>1. /\ AsAsked(disk, want) /\ mem.lastIndex = Len(want) /\ Based(mem, meta) /\ Contiguous(mem)
    BY DEF LogInv, CleanInv
  <2>2. mem \in Mem /\ EntriesOK(disk, mem) /\ meta \in Record
    BY DEF LogInv, StoreInv, MemOK
  <2>3. /\ mem.base = meta.index /\ mem.anchor = meta /\ meta.index \in Nat /\ mem.lastIndex \in Nat
        /\ Len(mem.entries) \in Nat
    BY <2>1, <2>2, MemTypes DEF Based, Record
  <2>4. ASSUME NEW i \in (meta.index + 1)..Len(want) PROVE GetTerm(mem, i) = want[i]
    <3>1. i \in Nat /\ i > meta.index /\ i <= mem.lastIndex
      BY <2>1, <2>3
    <3>2. i - mem.base \in 1..Len(mem.entries) /\ mem.base + (i - mem.base) = i
      BY <2>1, <2>3, <3>1 DEF Contiguous
    <3>3. mem.entries[i - mem.base].index = i
      BY <2>1, <3>2 DEF Contiguous
    <3>4. PICK k \in 1..Len(mem.entries) : mem.entries[k].index = i /\ GetTerm(mem, i) = mem.entries[k].term
      <4>1. i # mem.anchor.index /\ mem.base <= i
        BY <2>3, <3>1
      <4> QED BY <2>2, <3>1, <3>2, <3>3, <4>1, TermOf
    <3>5. Exact(disk, mem, mem.entries[k])
      BY <2>2, <2>3, <3>1, <3>4 DEF EntriesOK
    <3>6. mem.entries[k].term = want[i]
      BY <2>1, <3>4, <3>5 DEF Exact, AsAsked, In
    <3> QED BY <3>4, <3>6
  <2> QED BY <2>1, <2>4
<1> QED BY <1>1, LogInvariant, PTL

\* While clean, GetRange from an index beyond the snapshot returns the entries
\* from that index to the last, none left out.
THEOREM RangesLeaveNothingOut == Spec => []RangesContiguous
<1>1. LogInv => RangesContiguous
  <2> SUFFICES ASSUME LogInv, health = "clean", NEW i \in (meta.index + 1)..mem.lastIndex
               PROVE  /\ Len(GetRange(mem, i)) = mem.lastIndex - i + 1
                      /\ \A j \in 1..Len(GetRange(mem, i)) : GetRange(mem, i)[j].index = i + j - 1
    BY DEF RangesContiguous
  <2>1. Based(mem, meta) /\ Contiguous(mem) /\ mem \in Mem /\ meta \in Record
    BY DEF LogInv, CleanInv, StoreInv, MemOK
  <2>2. /\ mem.base = meta.index /\ meta.index \in Nat /\ mem.lastIndex \in Nat
        /\ Len(mem.entries) \in Nat /\ mem.entries \in Seq(Record)
    BY <2>1, MemTypes DEF Based, Record
  <2>3. /\ Len(mem.entries) = mem.lastIndex - mem.base
        /\ \A j \in 1..Len(mem.entries) : mem.entries[j].index = mem.base + j
    BY <2>1 DEF Contiguous
  <2>4. i \in Nat /\ i > mem.base /\ i <= mem.lastIndex
    BY <2>2
  <2>5. mem.entries # <<>>
    BY <2>2, <2>3, <2>4
  <2>6. FirstIndex(mem) = mem.base + 1
    BY <2>2, <2>4, <2>5 DEF FirstIndex
  <2>7. PICK n : n = i - mem.base - 1
    OBVIOUS
  <2>8. n \in 0..Len(mem.entries) /\ n + 1 = i - mem.base
    <3>1. \A a, b, c, x \in Nat :
            a > b /\ a <= c /\ x = c - b => a - b - 1 \in 0..x /\ (a - b - 1) + 1 = a - b
      OBVIOUS
    <3>2. mem.base \in Nat
      BY <2>2
    <3> QED BY <2>2, <2>3, <2>4, <2>7, <3>1, <3>2
  <2>9. PICK r : r = GetRange(mem, i)
    OBVIOUS
  <2>10. r = SubSeq(mem.entries, n + 1, Len(mem.entries))
    <3>1. mem.base \in Nat /\ ~(i < mem.base + 1) /\ ~(i > mem.lastIndex)
      BY <2>2, <2>4
    <3> QED BY <2>6, <2>8, <2>9, <3>1 DEF GetRange
  <2>11. Len(r) = Len(mem.entries) - n /\ \A j \in 1..Len(r) : r[j] = mem.entries[n + j]
    <3>1. PICK z : z = mem.entries
      OBVIOUS
    <3>2. z \in Seq(Record) /\ n \in 0..Len(z) /\ r = SubSeq(z, n + 1, Len(z))
      BY <2>2, <2>8, <2>10, <3>1
    <3>3. Len(r) = Len(z) - n /\ \A j \in 1..(Len(z) - n) : r[j] = z[n + j]
      BY <3>2, SuffixIs
    <3> QED BY <3>1, <3>3
  <2>12. Len(r) = mem.lastIndex - i + 1
    BY <2>2, <2>3, <2>4, <2>7, <2>11
  <2>13. ASSUME NEW j \in 1..Len(r) PROVE r[j].index = i + j - 1
    <3>1. n + j \in 1..Len(mem.entries)
      BY <2>2, <2>8, <2>11
    <3>2. r[j].index = mem.base + (n + j)
      BY <2>3, <2>11, <3>1
    <3> QED BY <2>2, <2>4, <2>7, <3>2
  <2> QED BY <2>9, <2>12, <2>13
<1> QED BY <1>1, LogInvariant, PTL

=============================================================================
