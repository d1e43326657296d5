------------------------------ MODULE KvState ------------------------------
(***************************************************************************)
(* The key-value state machine: DbSlice (storage/db_slice.cc) and the      *)
(* commands KvStateMachine applies to it, as operators on a table.         *)
(*                                                                         *)
(* A table maps every key to an entry or to Absent.  A value is a number,  *)
(* 0 the empty string; exp is expire_ms, 0 for none.  Expired entries stay *)
(* in the table until an access finds them.                                *)
(***************************************************************************)
EXTENDS Integers

CONSTANTS Key

Absent   == [val |-> -1, exp |-> 0]
NewEntry == [val |-> 0, exp |-> 0]
EmptyTable == [k \in Key |-> Absent]

\* A write command.  id is the value a SET writes; ttl is what EX or EXPIRE
\* gives, -1 for none.
NoTtl == -1
Command(op, keys, opt, ttl, id) ==
  [op |-> op, keys |-> keys, opt |-> opt, ttl |-> ttl, id |-> id]

Expired(e, now) == e.exp # 0 /\ e.exp <= now

\* What Find returns.
Find(t, k, now) == IF Expired(t[k], now) THEN Absent ELSE t[k]

\* AddOrFind: whether it inserts, and the entry it returns.
Inserts(t, k, now)   == Find(t, k, now) = Absent
AddOrFind(t, k, now) == IF Inserts(t, k, now) THEN NewEntry ELSE t[k]

\* The deadline is computed from the local clock when the entry is applied.
ExpireAt(ttl, now) == IF ttl = NoTtl THEN 0 ELSE now + ttl

Refused(t, k, c, now) ==
  \/ c.opt = "nx" /\ ~Inserts(t, k, now)
  \/ c.opt = "xx" /\ Inserts(t, k, now)

\* FAULT: a SET leaves the value of a key that exists.
SetKeepsOld(t, k, c, now) ==
  LET e == AddOrFind(t, k, now)
  IN [t EXCEPT ![k] = IF Inserts(t, k, now) THEN [e EXCEPT !.val = c.id] ELSE e]

\* A refused XX leaves the entry AddOrFind made, empty; a SET without EX
\* leaves the expiry of the old value.
ApplySet(t, k, c, now) ==
  LET e == AddOrFind(t, k, now)
      d == ExpireAt(c.ttl, now)
  IN [t EXCEPT ![k] =
        IF Refused(t, k, c, now) THEN e
        ELSE [val |-> c.id, exp |-> IF d > 0 THEN d ELSE e.exp]]

Del(t, keys) == [k \in Key |-> IF k \in keys THEN Absent ELSE t[k]]

\* SetExpire looks at the raw table: it revives an entry that is expired but
\* not yet erased.
SetExpire(t, k, d) == IF t[k] = Absent THEN t ELSE [t EXCEPT ![k].exp = d]

TheKey(c) == CHOOSE k \in c.keys : TRUE

ApplyLogEntry(t, c, now) ==
  CASE c.op = "set"    -> ApplySet(t, TheKey(c), c, now)
    [] c.op = "del"    -> Del(t, c.keys)
    [] c.op = "expire" -> SetExpire(t, TheKey(c), ExpireAt(c.ttl, now))

\* StateSerializer::Import: Export's entries replace what the table has, the
\* expired ones included.
Import(t, entries) ==
  [k \in Key |-> IF entries[k] = Absent THEN t[k] ELSE entries[k]]

=============================================================================
