----------------------------- MODULE RpcProofs -----------------------------
(***************************************************************************)
(* RpcChannel implements Rpc, and a failure costs at most three calls, for *)
(* every number of callers and failures.                                   *)
(***************************************************************************)
EXTENDS RpcChannel, FiniteSetTheorems, SequenceTheorems, TLAPS

(***************************************************************************)
(* What a step does to the connections: it appends a new one, lets one     *)
(* lose what it holds, or writes a request or an answer to one.            *)
(***************************************************************************)
Loses(r, q) ==
  /\ InOrder(r) => InOrder(q)
  /\ Waiting(q) \subseteq Waiting(r)
  /\ Frames(q) \subseteq Frames(r)

NetLoses ==
  /\ conn' \in Seq(ConnType) /\ DOMAIN conn \subseteq DOMAIN conn'
  /\ \A k \in DOMAIN conn : Loses(conn[k], conn'[k])
  /\ \A k \in DOMAIN conn' \ DOMAIN conn : conn'[k] = NewConn

LEMMA LosesSome ==
  ASSUME NEW r \in ConnType, NEW q \in ConnType,
         q.up \in {r.up, <<>>}, q.busy \in {r.busy, {}}, q.down \in {r.down, <<>>}
  PROVE  Loses(r, q)
<1>1. 1..Len(<<>>) = {}
  OBVIOUS
<1>2. Frames(q) \subseteq Frames(r)
  BY <1>1 DEF Frames
<1>3. q.up = r.up \/ (q.up = <<>> /\ 1..Len(q.up) = {})
  BY <1>1
<1>4. Waiting(q) \subseteq Waiting(r)
  BY <1>3 DEF Waiting
<1>5. InOrder(r) => InOrder(q)
  BY <1>3 DEF InOrder
<1> QED BY <1>2, <1>4, <1>5 DEF Loses

LEMMA LosesAnswer ==
  ASSUME NEW r \in ConnType, NEW q \in ConnType, r.down # <<>>,
         q.up = r.up, q.busy = r.busy, q.down = Tail(r.down)
  PROVE  Loses(r, q)
<1>1. Frames(q) \subseteq Frames(r)
  <2>1. r.down \in Seq([seq : Nat, served : BOOLEAN])
    BY DEF ConnType
  <2>2. /\ Len(q.down) = Len(r.down) - 1 /\ Len(r.down) \in Nat
        /\ \A a \in 1..Len(q.down) : q.down[a] = r.down[a + 1]
    BY <2>1
  <2> QED BY <2>2 DEF Frames
<1> QED BY <1>1 DEF Loses, InOrder, Waiting

LEMMA LosesRequest ==
  ASSUME NEW r \in ConnType, NEW q \in ConnType, r.up # <<>>, r.busy = {},
         q.up = Tail(r.up), q.busy = {Head(r.up)}, q.down = r.down
  PROVE  Loses(r, q)
<1>1. r.up \in Seq(Nat)
  BY DEF ConnType
<1>2. /\ Len(q.up) = Len(r.up) - 1 /\ Len(r.up) \in Nat \ {0}
      /\ \A a \in 1..Len(q.up) : q.up[a] = r.up[a + 1]
      /\ Head(r.up) = r.up[1]
  BY <1>1
<1>3. Waiting(q) \subseteq Waiting(r)
  BY <1>2 DEF Waiting
<1>4. ASSUME InOrder(r) PROVE InOrder(q)
  BY <1>2, <1>4 DEF InOrder
<1> QED BY <1>3, <1>4 DEF Loses, Frames

LEMMA LosesNothing == \A r : Loses(r, r)
  BY DEF Loses

LEMMA ConnFields ==
  ASSUME conn \in Seq(ConnType), NEW k \in DOMAIN conn
  PROVE  /\ conn[k] \in ConnType /\ conn[k].up \in Seq(Nat)
         /\ conn[k].down \in Seq([seq : Nat, served : BOOLEAN])
         /\ conn[k].busy \in SUBSET Nat
         /\ conn[k].mine \in BOOLEAN /\ conn[k].theirs \in BOOLEAN /\ conn[k].reset \in BOOLEAN
<1>1. conn[k] \in ConnType
  OBVIOUS
<1> QED BY <1>1 DEF ConnType

LEMMA SeqNarrow ==
  ASSUME NEW S, NEW T, NEW s \in Seq(S), \A a \in 1..Len(s) : s[a] \in T
  PROVE  s \in Seq(T)
<1>1. s = [a \in 1..Len(s) |-> s[a]] /\ Len(s) \in Nat
  OBVIOUS
<1> QED BY <1>1, SeqDef

LEMMA AppendFacts ==
  ASSUME NEW S, NEW s \in Seq(S), NEW e \in S
  PROVE  /\ Append(s, e) \in Seq(S) /\ Len(s) \in Nat /\ Len(Append(s, e)) = Len(s) + 1
         /\ \A a \in 1..Len(s) : Append(s, e)[a] = s[a]
         /\ Append(s, e)[Len(s) + 1] = e
  OBVIOUS

\* One connection is changed.
LEMMA ConnEdit ==
  ASSUME conn \in Seq(ConnType), NEW k \in DOMAIN conn, NEW q \in ConnType,
         conn' = [conn EXCEPT ![k] = q]
  PROVE  /\ conn' \in Seq(ConnType) /\ DOMAIN conn' = DOMAIN conn
         /\ Len(conn') = Len(conn) /\ conn'[k] = q
         /\ \A l \in DOMAIN conn \ {k} : conn'[l] = conn[l]
  OBVIOUS

LEMMA EditLoses ==
  ASSUME conn \in Seq(ConnType), NEW k \in DOMAIN conn, NEW q \in ConnType,
         conn' = [conn EXCEPT ![k] = q], Loses(conn[k], q)
  PROVE  NetLoses
<1>1. /\ conn' \in Seq(ConnType) /\ DOMAIN conn' = DOMAIN conn
      /\ conn'[k] = q /\ \A l \in DOMAIN conn \ {k} : conn'[l] = conn[l]
  BY ConnEdit
<1> QED BY <1>1, LosesNothing DEF NetLoses

LEMMA SameConn ==
  ASSUME conn \in Seq(ConnType), conn' = conn
  PROVE  NetLoses
  BY LosesNothing DEF NetLoses

LEMMA NewConnLoses ==
  ASSUME conn \in Seq(ConnType), conn' = Append(conn, NewConn)
  PROVE  /\ NetLoses /\ Len(conn') = Len(conn) + 1 /\ Len(conn) \in Nat
         /\ conn'[Len(conn) + 1] = NewConn
         /\ \A l \in DOMAIN conn : conn'[l] = conn[l]
<1>1. NewConn \in ConnType
  BY DEF NewConn, ConnType
<1>2. /\ conn' \in Seq(ConnType) /\ Len(conn') = Len(conn) + 1 /\ Len(conn) \in Nat
      /\ conn'[Len(conn) + 1] = NewConn
      /\ \A l \in DOMAIN conn : conn'[l] = conn[l]
      /\ DOMAIN conn' = DOMAIN conn \cup {Len(conn) + 1}
  BY <1>1
<1> QED BY <1>2, LosesNothing DEF NetLoses

(***************************************************************************)
(* The actions as edits of one connection.                                 *)
(***************************************************************************)
LEMMA ClosedEdit ==
  ASSUME conn \in Seq(ConnType), NEW k \in DOMAIN conn, NEW heard \in BOOLEAN,
         conn' = Closed(k, heard)
  PROVE  NetLoses /\ DOMAIN conn' = DOMAIN conn /\ Len(conn') = Len(conn)
         /\ \A l \in DOMAIN conn : conn'[l].reset = conn[l].reset
                                   /\ conn'[l].theirs = conn[l].theirs
<1> DEFINE q == [conn[k] EXCEPT !.mine = FALSE, !.down = <<>>,
                                !.up = IF heard THEN @ ELSE <<>>]
<1>1. conn[k] \in ConnType
  OBVIOUS
<1>2. /\ q \in ConnType /\ q.down = <<>> /\ q.up \in {conn[k].up, <<>>}
      /\ q.busy = conn[k].busy /\ q.reset = conn[k].reset /\ q.theirs = conn[k].theirs
  <2> DEFINE new == IF heard THEN conn[k].up ELSE <<>>
  <2>1. new \in Seq(Nat) /\ new \in {conn[k].up, <<>>}
    BY <1>1 DEF ConnType
  <2>2. <<>> \in Seq([seq : Nat, served : BOOLEAN])
    OBVIOUS
  <2>3. q = [conn[k] EXCEPT !.mine = FALSE, !.down = <<>>, !.up = new]
    OBVIOUS
  <2> HIDE DEF new, q
  <2> QED BY <1>1, <2>1, <2>2, <2>3 DEF ConnType
<1>3. conn' = [conn EXCEPT ![k] = q]
  BY <1>1 DEF Closed, ConnType
<1> HIDE DEF q
<1>4. Loses(conn[k], q)
  BY <1>1, <1>2, LosesSome
<1> QED BY <1>2, <1>3, <1>4, EditLoses, ConnEdit

LEMMA ReadEdit ==
  ASSUME conn \in Seq(ConnType), NEW k \in DOMAIN conn, conn[k].down # <<>>,
         conn' = [conn EXCEPT ![k].down = Tail(conn[k].down)]
  PROVE  /\ NetLoses /\ DOMAIN conn' = DOMAIN conn /\ Len(conn') = Len(conn)
         /\ conn'[k].down = Tail(conn[k].down)
         /\ \A l \in DOMAIN conn : /\ conn'[l].reset = conn[l].reset
                                   /\ conn'[l].theirs = conn[l].theirs
                                   /\ conn'[l].mine = conn[l].mine
<1> DEFINE q == [conn[k] EXCEPT !.down = Tail(conn[k].down)]
<1>1. conn[k] \in ConnType
  OBVIOUS
<1>2. /\ q \in ConnType /\ q.down = Tail(conn[k].down) /\ q.up = conn[k].up
      /\ q.busy = conn[k].busy /\ q.reset = conn[k].reset /\ q.theirs = conn[k].theirs
      /\ q.mine = conn[k].mine
  <2> DEFINE new == Tail(conn[k].down)
  <2>1. conn[k].down \in Seq([seq : Nat, served : BOOLEAN])
    BY <1>1 DEF ConnType
  <2>2. new \in Seq([seq : Nat, served : BOOLEAN])
    BY <2>1
  <2> HIDE DEF new
  <2> QED BY <1>1, <2>2 DEF ConnType, new
<1>3. conn' = [conn EXCEPT ![k] = q]
  OBVIOUS
<1> HIDE DEF q
<1>4. Loses(conn[k], q)
  BY <1>1, <1>2, LosesAnswer
<1> QED BY <1>2, <1>3, <1>4, EditLoses, ConnEdit

LEMMA ReceiveEdit ==
  ASSUME conn \in Seq(ConnType), NEW k \in DOMAIN conn, Receive(k)
  PROVE  /\ NetLoses /\ DOMAIN conn' = DOMAIN conn /\ Len(conn') = Len(conn)
         /\ \A l \in DOMAIN conn : /\ conn'[l].reset = conn[l].reset
                                   /\ conn'[l].theirs = conn[l].theirs
                                   /\ conn'[l].mine = conn[l].mine
<1> DEFINE q == [conn[k] EXCEPT !.up = Tail(@), !.busy = {Head(conn[k].up)}]
<1>1. conn[k] \in ConnType /\ conn[k].up # <<>> /\ conn[k].busy = {}
  BY DEF Receive
<1>2. /\ q \in ConnType /\ q.down = conn[k].down /\ q.up = Tail(conn[k].up)
      /\ q.busy = {Head(conn[k].up)}
      /\ q.reset = conn[k].reset /\ q.theirs = conn[k].theirs
      /\ q.mine = conn[k].mine
  <2> DEFINE new == Tail(conn[k].up)
             first == Head(conn[k].up)
  <2>1. conn[k].up \in Seq(Nat)
    BY <1>1 DEF ConnType
  <2>2. new \in Seq(Nat) /\ first \in Nat
    BY <1>1, <2>1
  <2>3. q = [conn[k] EXCEPT !.up = new, !.busy = {first}]
    OBVIOUS
  <2>4. new = Tail(conn[k].up) /\ first = Head(conn[k].up)
    OBVIOUS
  <2> HIDE DEF new, first, q
  <2> QED BY <1>1, <2>2, <2>3, <2>4 DEF ConnType
<1>3. conn' = [conn EXCEPT ![k] = q]
  BY DEF Receive
<1> HIDE DEF q
<1>4. Loses(conn[k], q)
  BY <1>1, <1>2, LosesRequest
<1> QED BY <1>2, <1>3, <1>4, EditLoses, ConnEdit

\* A connection dies.
Kills(k) ==
  /\ NetLoses /\ Len(conn') = Len(conn)
  /\ conn'[k].theirs = FALSE /\ conn'[k].mine = conn[k].mine
  /\ \A l \in DOMAIN conn \ {k} : conn'[l] = conn[l]

LEMMA KillEdit ==
  ASSUME conn \in Seq(ConnType), NEW k \in DOMAIN conn, NEW q \in ConnType,
         conn' = [conn EXCEPT ![k] = q],
         q.theirs = FALSE, q.up = <<>>, q.mine = conn[k].mine,
         q.busy \in {conn[k].busy, {}}, q.down \in {conn[k].down, <<>>}
  PROVE  Kills(k)
<1>1. Loses(conn[k], q)
  BY LosesSome
<1> QED BY <1>1, EditLoses, ConnEdit DEF Kills

LEMMA BreakEdit ==
  ASSUME conn \in Seq(ConnType), NEW k \in DOMAIN conn, Break(k)
  PROVE  Kills(k)
<1>1. PICK told \in BOOLEAN :
        conn' = [conn EXCEPT ![k].reset = told, ![k].up = <<>>,
                             ![k].theirs = FALSE, ![k].down = <<>>]
  BY DEF Break
<1> DEFINE q == [conn[k] EXCEPT !.reset = told, !.up = <<>>, !.theirs = FALSE, !.down = <<>>]
<1>2. <<>> \in Seq(Nat) /\ <<>> \in Seq([seq : Nat, served : BOOLEAN])
  OBVIOUS
<1>3. /\ q \in ConnType /\ q.theirs = FALSE /\ q.up = <<>> /\ q.mine = conn[k].mine
      /\ q.busy = conn[k].busy /\ q.down = <<>>
  <2>1. conn[k] \in ConnType
    BY ConnFields
  <2> QED BY <1>2, <2>1 DEF ConnType
<1>4. conn' = [conn EXCEPT ![k] = q]
  BY <1>1
<1> HIDE DEF q
<1> QED BY <1>3, <1>4, KillEdit

LEMMA HangUpEdit ==
  ASSUME conn \in Seq(ConnType), NEW k \in DOMAIN conn, HangUp(k)
  PROVE  Kills(k)
<1> DEFINE q == [conn[k] EXCEPT !.theirs = FALSE, !.up = <<>>]
<1>2. <<>> \in Seq(Nat)
  OBVIOUS
<1>3. /\ q \in ConnType /\ q.theirs = FALSE /\ q.up = <<>> /\ q.mine = conn[k].mine
      /\ q.busy = conn[k].busy /\ q.down = conn[k].down
  <2>1. conn[k] \in ConnType
    BY ConnFields
  <2> QED BY <1>2, <2>1 DEF ConnType
<1>4. conn' = [conn EXCEPT ![k] = q]
  BY DEF HangUp
<1> HIDE DEF q
<1> QED BY <1>3, <1>4, KillEdit

LEMMA PeerExitsEdit ==
  ASSUME conn \in Seq(ConnType), PeerExits
  PROVE  /\ NetLoses /\ Len(conn') = Len(conn)
         /\ \A k \in DOMAIN conn : conn'[k].theirs = FALSE /\ conn'[k].mine = conn[k].mine
<1>1. PICK sent \in BOOLEAN :
        conn' = [k \in DOMAIN conn |->
                  [conn[k] EXCEPT !.theirs = FALSE, !.up = <<>>, !.busy = {},
                                  !.down = IF sent THEN @ ELSE <<>>]]
  BY DEF PeerExits
<1>2. ASSUME NEW k \in DOMAIN conn
      PROVE  /\ conn'[k] \in ConnType /\ conn'[k].theirs = FALSE
             /\ conn'[k].mine = conn[k].mine /\ Loses(conn[k], conn'[k])
  <2> DEFINE left == IF sent THEN conn[k].down ELSE <<>>
             q == [conn[k] EXCEPT !.theirs = FALSE, !.up = <<>>, !.busy = {}, !.down = left]
  <2>1. conn[k] \in ConnType /\ conn[k].down \in Seq([seq : Nat, served : BOOLEAN])
    BY ConnFields
  <2>2. /\ left \in {conn[k].down, <<>>} /\ left \in Seq([seq : Nat, served : BOOLEAN])
        /\ <<>> \in Seq(Nat)
    BY <2>1
  <2>3. conn'[k] = q
    BY <1>1
  <2> HIDE DEF left
  <2>4. /\ q \in ConnType /\ q.theirs = FALSE /\ q.mine = conn[k].mine /\ q.up = <<>>
        /\ q.busy = {} /\ q.down = left
    BY <2>1, <2>2 DEF ConnType
  <2> HIDE DEF q
  <2>5. Loses(conn[k], q)
    BY <2>1, <2>2, <2>4, LosesSome
  <2> QED BY <2>3, <2>4, <2>5
<1>3. Len(conn) \in Nat /\ DOMAIN conn = 1..Len(conn) /\ DOMAIN conn' = DOMAIN conn
  <2>1. DOMAIN conn' = DOMAIN conn
    BY <1>1
  <2>2. Len(conn) \in Nat /\ DOMAIN conn = 1..Len(conn)
    OBVIOUS
  <2> QED BY <2>1, <2>2
<1>4. conn' \in [1..Len(conn) -> ConnType]
  <2>1. conn' = [k \in 1..Len(conn) |-> conn'[k]]
    BY <1>1, <1>3
  <2> QED BY <1>2, <1>3, <2>1
<1>5. conn' \in Seq(ConnType) /\ Len(conn') = Len(conn)
  BY <1>3, <1>4
<1> QED BY <1>2, <1>3, <1>5 DEF NetLoses

\* An answer is written to connection k, or has nowhere to go.
Answers(k, f) ==
  /\ conn' \in Seq(ConnType) /\ Len(conn') = Len(conn)
  /\ \A l \in DOMAIN conn \ {k} : conn'[l] = conn[l]
  /\ conn'[k].mine = conn[k].mine /\ conn'[k].theirs = conn[k].theirs
  /\ conn'[k].reset = conn[k].reset
  /\ conn'[k].up = conn[k].up /\ conn'[k].busy = {}
  /\ Frames(conn'[k]) \subseteq Frames(conn[k]) \cup {f}

LEMMA ReplyEdit ==
  ASSUME conn \in Seq(ConnType), NEW k \in DOMAIN conn, NEW seq \in Nat,
         NEW served \in BOOLEAN, Reply(k, seq, served)
  PROVE  \/ Answers(k, [seq |-> seq, served |-> served])
         \/ Kills(k) /\ ~conn[k].mine /\ conn'[k].up = <<>> /\ conn'[k].busy = {}
<1> DEFINE f == [seq |-> seq, served |-> served]
           down == IF conn[k].mine /\ conn[k].theirs THEN Append(conn[k].down, f)
                   ELSE conn[k].down
           q == [conn[k] EXCEPT !.busy = {}, !.down = down]
           x == [conn[k] EXCEPT !.busy = {}, !.theirs = FALSE, !.up = <<>>]
<1>1. conn[k] \in ConnType /\ conn[k].down \in Seq([seq : Nat, served : BOOLEAN])
  BY ConnFields
<1>2. \/ conn' = [conn EXCEPT ![k] = q]
      \/ ~conn[k].mine /\ conn' = [conn EXCEPT ![k] = x]
  BY DEF Reply
<1>3. CASE conn' = [conn EXCEPT ![k] = q]
  <2>1. f \in [seq : Nat, served : BOOLEAN]
    OBVIOUS
  <2> HIDE DEF f
  <2>2. /\ down \in Seq([seq : Nat, served : BOOLEAN])
        /\ \/ down = conn[k].down
           \/ /\ Len(down) = Len(conn[k].down) + 1 /\ Len(conn[k].down) \in Nat
              /\ \A a \in 1..Len(conn[k].down) : down[a] = conn[k].down[a]
              /\ down[Len(conn[k].down) + 1] = f
    <3>1. down = Append(conn[k].down, f) \/ down = conn[k].down
      OBVIOUS
    <3> HIDE DEF down
    <3>2. CASE down = conn[k].down
      BY <1>1, <3>2
    <3>3. CASE down = Append(conn[k].down, f)
      <4> DEFINE S == [seq : Nat, served : BOOLEAN]
      <4>1. conn[k].down \in Seq(S) /\ f \in S
        BY <1>1, <2>1
      <4> HIDE DEF S
      <4>2. /\ down \in Seq(S) /\ Len(down) = Len(conn[k].down) + 1 /\ Len(conn[k].down) \in Nat
            /\ \A a \in 1..Len(conn[k].down) : down[a] = conn[k].down[a]
            /\ down[Len(conn[k].down) + 1] = f
        BY <3>3, <4>1, AppendFacts
      <4> QED BY <4>2 DEF S
    <3> QED BY <3>1, <3>2, <3>3
  <2> HIDE DEF down
  <2>3. /\ q \in ConnType /\ q.mine = conn[k].mine /\ q.theirs = conn[k].theirs
        /\ q.reset = conn[k].reset /\ q.up = conn[k].up /\ q.busy = {} /\ q.down = down
    BY <1>1, <2>2 DEF ConnType
  <2> HIDE DEF q
  <2>4. Frames(q) \subseteq Frames(conn[k]) \cup {f}
    BY <2>2, <2>3, SMTT(30) DEF Frames
  <2>5. /\ conn' \in Seq(ConnType) /\ Len(conn') = Len(conn) /\ conn'[k] = q
        /\ \A l \in DOMAIN conn \ {k} : conn'[l] = conn[l]
    BY <1>3, <2>3, ConnEdit
  <2>6. Answers(k, f)
    BY <2>3, <2>4, <2>5 DEF Answers
  <2> QED BY <2>6 DEF f
<1>4. CASE ~conn[k].mine /\ conn' = [conn EXCEPT ![k] = x]
  <2>1. <<>> \in Seq(Nat)
    OBVIOUS
  <2>2. /\ x \in ConnType /\ x.theirs = FALSE /\ x.up = <<>> /\ x.mine = conn[k].mine
        /\ x.busy = {} /\ x.down = conn[k].down
    BY <1>1, <2>1 DEF ConnType
  <2> HIDE DEF x
  <2>3. conn'[k] = x
    BY <1>4, <2>2, ConnEdit
  <2> QED BY <1>4, <2>2, <2>3, KillEdit
<1> QED BY <1>2, <1>3, <1>4

\* A request is written to connection k, or to nobody.
Requests(k, n) ==
  /\ conn' \in Seq(ConnType) /\ Len(conn') = Len(conn)
  /\ \A l \in DOMAIN conn \ {k} : conn'[l] = conn[l]
  /\ conn'[k].mine = conn[k].mine /\ conn'[k].theirs = conn[k].theirs
  /\ conn'[k].reset <=> ~conn[k].theirs
  /\ conn'[k].down = conn[k].down
  /\ Waiting(conn'[k]) \subseteq Waiting(conn[k]) \cup {n}
  /\ InOrder(conn[k]) /\ (\A i \in Waiting(conn[k]) : i < n) => InOrder(conn'[k])

LEMMA WriteEdit ==
  ASSUME conn \in Seq(ConnType), NEW k \in DOMAIN conn, NEW n \in Nat,
         conn' = [conn EXCEPT ![k].up = IF conn[k].theirs THEN Append(@, n) ELSE @,
                              ![k].reset = ~conn[k].theirs]
  PROVE  Requests(k, n)
<1> DEFINE up == IF conn[k].theirs THEN Append(conn[k].up, n) ELSE conn[k].up
           gone == ~conn[k].theirs
           q == [conn[k] EXCEPT !.up = up, !.reset = gone]
<1>1. /\ conn[k] \in ConnType /\ conn[k].up \in Seq(Nat) /\ conn[k].theirs \in BOOLEAN
      /\ conn[k].busy \in SUBSET Nat
  BY ConnFields
<1>2. conn' = [conn EXCEPT ![k] = q]
  OBVIOUS
<1>3. up = Append(conn[k].up, n) \/ up = conn[k].up
  OBVIOUS
<1>4. gone \in BOOLEAN /\ (gone <=> ~conn[k].theirs)
  BY Zenon
<1> HIDE DEF up, gone
<1>5. /\ up \in Seq(Nat)
      /\ \/ up = conn[k].up
         \/ /\ Len(up) = Len(conn[k].up) + 1 /\ Len(conn[k].up) \in Nat
            /\ \A a \in 1..Len(conn[k].up) : up[a] = conn[k].up[a]
            /\ up[Len(conn[k].up) + 1] = n
  <2>1. CASE up = conn[k].up
    BY <1>1, <2>1
  <2>2. CASE up = Append(conn[k].up, n)
    BY <1>1, <2>2, AppendFacts
  <2> QED BY <1>3, <2>1, <2>2
<1>6. /\ q \in ConnType /\ q.mine = conn[k].mine /\ q.theirs = conn[k].theirs
      /\ q.reset = gone /\ q.up = up /\ q.busy = conn[k].busy /\ q.down = conn[k].down
  BY <1>1, <1>4, <1>5 DEF ConnType
<1> HIDE DEF q
<1>7. Waiting(q) \subseteq Waiting(conn[k]) \cup {n}
  <2> DEFINE L == Len(conn[k].up)
  <2>1. ASSUME NEW a \in 1..Len(up) PROVE up[a] = n \/ (a \in 1..L /\ up[a] = conn[k].up[a])
    <3>1. CASE up = conn[k].up
      BY <3>1
    <3>2. CASE up # conn[k].up
      <4>1. /\ Len(up) = L + 1 /\ L \in Nat /\ up[L + 1] = n
            /\ \A b \in 1..L : up[b] = conn[k].up[b]
        BY <1>5, <3>2
      <4> HIDE DEF L
      <4> QED BY <4>1
    <3> QED BY <3>1, <3>2
  <2> QED BY <1>6, <2>1 DEF Waiting
<1>8. ASSUME InOrder(conn[k]), \A i \in Waiting(conn[k]) : i < n PROVE InOrder(q)
  <2>1. CASE up = conn[k].up
    BY <1>6, <1>8, <2>1 DEF InOrder
  <2>2. CASE up # conn[k].up
    <3> DEFINE L == Len(conn[k].up)
    <3>1. /\ Len(up) = L + 1 /\ L \in Nat /\ up[L + 1] = n
          /\ \A a \in 1..L : up[a] = conn[k].up[a]
      BY <1>5, <2>2
    <3>2. \A a \in 1..L : conn[k].up[a] < n
      BY <1>8 DEF Waiting
    <3>3. \A i \in conn[k].busy : i < n
      BY <1>8 DEF Waiting
    <3>4. /\ \A a, b \in 1..L : a < b => conn[k].up[a] < conn[k].up[b]
          /\ \A i, j \in conn[k].busy : i = j
          /\ \A i \in conn[k].busy, a \in 1..L : i < conn[k].up[a]
      BY <1>8 DEF InOrder
    <3> HIDE DEF L
    <3>5. \A a, b \in 1..Len(up) : a < b => up[a] < up[b]
      BY <3>1, <3>2, <3>4
    <3>6. \A i \in conn[k].busy, a \in 1..Len(up) : i < up[a]
      BY <3>1, <3>3, <3>4
    <3> QED BY <1>6, <3>4, <3>5, <3>6 DEF InOrder
  <2> QED BY <2>1, <2>2
<1>9. /\ conn' \in Seq(ConnType) /\ Len(conn') = Len(conn) /\ conn'[k] = q
      /\ \A l \in DOMAIN conn \ {k} : conn'[l] = conn[l]
  BY <1>2, <1>6, ConnEdit
<1> QED BY <1>4, <1>6, <1>7, <1>8, <1>9 DEF Requests

(***************************************************************************)
(* Requests are handled once.                                              *)
(***************************************************************************)
LEMMA HandledKept ==
  ASSUME ChannelInv, NetLoses, handled' = handled, seqCounter' \in Nat,
         seqCounter' >= seqCounter, \A i \in answered' : handled[i] = 1
  PROVE  HandledOnce'
<1>0. conn \in Seq(ConnType) /\ seqCounter \in Nat /\ HandledOnce
  BY DEF ChannelInv, TypeOK
<1>1. \A i \in 1..seqCounter : i \in 1..seqCounter'
  BY <1>0
<1>2. Waiting(NewConn) = {} /\ Frames(NewConn) = {} /\ InOrder(NewConn)
  BY DEF NewConn, Waiting, Frames, InOrder
<1>3. ASSUME NEW k \in DOMAIN conn'
      PROVE  /\ InOrder(conn'[k])
             /\ \A i \in Waiting(conn'[k]) : i \in 1..seqCounter' /\ handled[i] = 0
             /\ \A f \in Frames(conn'[k]) :
                  f.seq \in 1..seqCounter' /\ (f.served => handled[f.seq] = 1)
  <2>1. CASE k \in DOMAIN conn
    BY <1>0, <1>1, <2>1 DEF NetLoses, Loses, HandledOnce
  <2>2. CASE k \notin DOMAIN conn
    BY <1>2, <2>2 DEF NetLoses
  <2> QED BY <2>1, <2>2
<1>4. ASSUME NEW k \in DOMAIN conn', NEW l \in DOMAIN conn', k # l
      PROVE  Waiting(conn'[k]) \cap Waiting(conn'[l]) = {}
  <2>1. CASE k \in DOMAIN conn /\ l \in DOMAIN conn
    <3>1. Waiting(conn[k]) \cap Waiting(conn[l]) = {}
      BY <1>0, <1>4, <2>1 DEF HandledOnce
    <3> QED BY <2>1, <3>1 DEF NetLoses, Loses
  <2>2. CASE k \notin DOMAIN conn \/ l \notin DOMAIN conn
    BY <1>2, <2>2 DEF NetLoses
  <2> QED BY <2>1, <2>2
<1>5. \A i \in 1..MaxCalls : handled[i] \in {0, 1} /\ (i > seqCounter' => handled[i] = 0)
  <2>1. \A i \in 1..MaxCalls : i \in Int /\ (i > seqCounter' => i > seqCounter)
    BY <1>0
  <2> QED BY <1>0, <2>1 DEF HandledOnce
<1> QED BY <1>3, <1>4, <1>5 DEF HandledOnce

LEMMA HandledWrite ==
  ASSUME ChannelInv, NEW k \in DOMAIN conn, Requests(k, seqCounter + 1),
         handled' = handled, answered' = answered, seqCounter' = seqCounter + 1,
         seqCounter' <= MaxCalls, MaxCalls \in Nat
  PROVE  HandledOnce'
<1>0. conn \in Seq(ConnType) /\ seqCounter \in Nat /\ HandledOnce
  BY DEF ChannelInv, TypeOK
<1> DEFINE n == seqCounter + 1
<1>1. n \in 1..MaxCalls /\ n \notin 1..seqCounter /\ n > seqCounter
  BY <1>0
<1>2. handled[n] = 0
  BY <1>0, <1>1 DEF HandledOnce
<1>3. \A i \in 1..seqCounter : i \in 1..n /\ i < n
  BY <1>0
<1>3a. n \in 1..n
  BY <1>0
<1>4. /\ DOMAIN conn' = DOMAIN conn
      /\ \A l \in DOMAIN conn \ {k} : conn'[l] = conn[l]
      /\ Frames(conn'[k]) = Frames(conn[k])
      /\ Waiting(conn'[k]) \subseteq Waiting(conn[k]) \cup {n}
      /\ InOrder(conn[k]) /\ (\A i \in Waiting(conn[k]) : i < n) => InOrder(conn'[k])
  <2>1. conn' \in Seq(ConnType) /\ Len(conn') = Len(conn)
    BY DEF Requests
  <2> QED BY <1>0, <2>1 DEF Requests, Frames
<1> HIDE DEF n
<1>5. ASSUME NEW l \in DOMAIN conn
      PROVE  /\ InOrder(conn'[l])
             /\ \A i \in Waiting(conn'[l]) : i \in 1..n /\ handled[i] = 0
             /\ \A f \in Frames(conn'[l]) :
                  f.seq \in 1..n /\ (f.served => handled[f.seq] = 1)
  <2>1. /\ InOrder(conn[l])
        /\ \A i \in Waiting(conn[l]) : i \in 1..seqCounter /\ handled[i] = 0
        /\ \A f \in Frames(conn[l]) :
             f.seq \in 1..seqCounter /\ (f.served => handled[f.seq] = 1)
    BY <1>0 DEF HandledOnce
  <2>2. CASE l # k
    BY <1>3, <1>4, <2>1, <2>2
  <2>3. CASE l = k
    <3>1. \A i \in Waiting(conn[k]) : i < n
      BY <1>3, <2>1, <2>3
    <3> QED BY <1>2, <1>3, <1>3a, <1>4, <2>1, <2>3, <3>1
  <2> QED BY <2>2, <2>3
<1>6. ASSUME NEW x \in DOMAIN conn, NEW y \in DOMAIN conn, x # y
      PROVE  Waiting(conn'[x]) \cap Waiting(conn'[y]) = {}
  <2>1. Waiting(conn[x]) \cap Waiting(conn[y]) = {}
    BY <1>0, <1>6 DEF HandledOnce
  <2>2. n \notin Waiting(conn[x]) /\ n \notin Waiting(conn[y])
    BY <1>0, <1>1 DEF HandledOnce
  <2> QED BY <1>4, <1>6, <2>1, <2>2
<1>7. \A i \in 1..MaxCalls : handled[i] \in {0, 1} /\ (i > n => handled[i] = 0)
  <2>1. \A i \in 1..MaxCalls : i \in Int /\ (i > n => i > seqCounter)
    BY <1>0 DEF n
  <2> QED BY <1>0, <2>1 DEF HandledOnce
<1>8. \A i \in answered : handled[i] = 1
  BY <1>0 DEF HandledOnce
<1> QED BY <1>4, <1>5, <1>6, <1>7, <1>8 DEF HandledOnce, n

\* The handler runs for the request in progress, which leaves its place.
LEMMA HandledReply ==
  ASSUME ChannelInv, NEW k \in DOMAIN conn, NEW seq \in conn[k].busy, NEW served \in BOOLEAN,
         Reply(k, seq, served), UNCHANGED <<seqCounter, answered>>,
         handled' = IF served THEN [handled EXCEPT ![seq] = @ + 1] ELSE handled
  PROVE  HandledOnce'
<1>0. /\ conn \in Seq(ConnType) /\ seqCounter \in Nat /\ seqCounter <= MaxCalls
      /\ MaxCalls \in Nat /\ HandledOnce /\ handled \in [1..MaxCalls -> Nat]
      /\ answered \subseteq 1..seqCounter
  <2>1. MaxCalls \in Nat
    BY CallerAssumption, FailureAssumption, FS_CardinalityType DEF MaxCalls
  <2> QED BY <2>1 DEF ChannelInv, TypeOK
<1>1. seq \in Waiting(conn[k]) /\ seq \in 1..seqCounter /\ seq \in 1..MaxCalls /\ handled[seq] = 0
  <2>1. seq \in Waiting(conn[k])
    BY DEF Waiting
  <2>2. seq \in 1..seqCounter /\ handled[seq] = 0
    BY <1>0, <2>1 DEF HandledOnce
  <2> QED BY <1>0, <2>1, <2>2
<1>2. /\ handled'[seq] = IF served THEN 1 ELSE 0
      /\ \A i \in 1..MaxCalls \ {seq} : handled'[i] = handled[i]
  BY <1>0, <1>1
<1>3. \A i \in 1..seqCounter : i \in 1..MaxCalls
  BY <1>0
<1>4. \A l \in DOMAIN conn : seq \in Waiting(conn[l]) => l = k
  BY <1>0, <1>1 DEF HandledOnce
<1>5. \A a \in 1..Len(conn[k].up) : conn[k].up[a] # seq
  <2>1. \A a \in 1..Len(conn[k].up) : seq < conn[k].up[a]
    BY <1>0 DEF HandledOnce, InOrder
  <2>2. conn[k].up \in Seq(Nat) /\ seq \in Nat
    BY <1>0, ConnFields
  <2>3. \A a \in 1..Len(conn[k].up) : conn[k].up[a] \in Nat
    BY <2>2
  <2> QED BY <2>1, <2>2, <2>3
<1> DEFINE f == [seq |-> seq, served |-> served]
<1>6. /\ DOMAIN conn' = DOMAIN conn
      /\ \A l \in DOMAIN conn \ {k} : conn'[l] = conn[l]
      /\ Frames(conn'[k]) \subseteq Frames(conn[k]) \cup {f}
      /\ Waiting(conn'[k]) \subseteq Waiting(conn[k]) \ {seq}
      /\ InOrder(conn'[k])
  <2>1. seq \in Nat
    BY <1>0, ConnFields
  <2>2. CASE Answers(k, f)
    <3>1. conn' \in Seq(ConnType) /\ Len(conn') = Len(conn)
      BY <2>2 DEF Answers
    <3>2. DOMAIN conn' = DOMAIN conn
      BY <1>0, <3>1
    <3>3. conn'[k].up = conn[k].up /\ conn'[k].busy = {}
      BY <2>2 DEF Answers
    <3>4. InOrder(conn[k])
      BY <1>0 DEF HandledOnce
    <3>5. InOrder(conn'[k])
      BY <3>3, <3>4 DEF InOrder
    <3>6. Waiting(conn'[k]) \subseteq Waiting(conn[k]) \ {seq}
      BY <1>5, <3>3 DEF Waiting
    <3> QED BY <2>2, <3>2, <3>5, <3>6 DEF Answers
  <2>3. CASE Kills(k) /\ conn'[k].up = <<>> /\ conn'[k].busy = {}
    <3>1. conn' \in Seq(ConnType) /\ Len(conn') = Len(conn)
      BY <2>3 DEF Kills, NetLoses
    <3>2. DOMAIN conn' = DOMAIN conn
      BY <1>0, <3>1
    <3>3. Waiting(conn'[k]) = {} /\ InOrder(conn'[k])
      BY <2>3 DEF Waiting, InOrder
    <3>4. Frames(conn'[k]) \subseteq Frames(conn[k])
      BY <2>3 DEF Kills, NetLoses, Loses
    <3> QED BY <2>3, <3>2, <3>3, <3>4 DEF Kills
  <2> QED BY <1>0, <2>1, <2>2, <2>3, ReplyEdit
<1>7. ASSUME NEW l \in DOMAIN conn
      PROVE  /\ InOrder(conn'[l])
             /\ \A i \in Waiting(conn'[l]) : i \in 1..seqCounter /\ handled'[i] = 0
             /\ \A g \in Frames(conn'[l]) :
                  g.seq \in 1..seqCounter /\ (g.served => handled'[g.seq] = 1)
  <2>1. /\ InOrder(conn[l])
        /\ \A i \in Waiting(conn[l]) : i \in 1..seqCounter /\ handled[i] = 0
        /\ \A g \in Frames(conn[l]) :
             g.seq \in 1..seqCounter /\ (g.served => handled[g.seq] = 1)
    BY <1>0 DEF HandledOnce
  <2>2. InOrder(conn'[l]) /\ Waiting(conn'[l]) \subseteq Waiting(conn[l]) \ {seq}
    BY <1>4, <1>6, <2>1
  <2>3. \A i \in Waiting(conn'[l]) : i \in 1..seqCounter /\ handled'[i] = 0
    BY <1>2, <1>3, <2>1, <2>2
  <2>4. ASSUME NEW g \in Frames(conn[l])
        PROVE  g.seq \in 1..seqCounter /\ (g.served => handled'[g.seq] = 1)
    <3>1. g.seq = seq => ~g.served
      BY <1>1, <2>1
    <3> QED BY <1>2, <1>3, <2>1, <3>1
  <2>5. f.seq \in 1..seqCounter /\ (f.served => handled'[f.seq] = 1)
    BY <1>1, <1>2
  <2> HIDE DEF f
  <2> QED BY <1>6, <2>2, <2>3, <2>4, <2>5
<1>8. ASSUME NEW x \in DOMAIN conn, NEW y \in DOMAIN conn, x # y
      PROVE  Waiting(conn'[x]) \cap Waiting(conn'[y]) = {}
  <2>1. Waiting(conn[x]) \cap Waiting(conn[y]) = {}
    BY <1>0, <1>8 DEF HandledOnce
  <2> QED BY <1>6, <2>1
<1>9. \A i \in 1..MaxCalls : handled'[i] \in {0, 1} /\ (i > seqCounter => handled'[i] = 0)
  <2>1. ~(seq > seqCounter)
    BY <1>0, <1>1
  <2>2. \A i \in 1..MaxCalls : handled[i] \in {0, 1} /\ (i > seqCounter => handled[i] = 0)
    BY <1>0 DEF HandledOnce
  <2> QED BY <1>2, <2>1, <2>2
<1>10. \A i \in answered : handled'[i] = 1
  BY <1>0, <1>1, <1>2, <1>3 DEF HandledOnce
<1> QED BY <1>6, <1>7, <1>8, <1>9, <1>10 DEF HandledOnce

(***************************************************************************)
(* The callers.                                                            *)
(***************************************************************************)
Place == {"idle", "wait", "have", "read", "done"}

LEMMA BasicTypes ==
  ASSUME ChannelInv
  PROVE  /\ caller \in [Caller -> [at : Place, seq : Nat]] /\ holder \subseteq Caller
         /\ seqCounter \in Nat /\ pooled \in 0..Len(conn) /\ conn \in Seq(ConnType)
         /\ Len(conn) \in Nat /\ DOMAIN conn = 1..Len(conn)
         /\ failures \in Nat /\ MaxFailures \in Nat /\ failures <= MaxFailures
         /\ handled \in [1..MaxCalls -> Nat] /\ answered \subseteq 1..seqCounter
         /\ MaxCalls \in Nat /\ seqCounter <= MaxCalls
         /\ (pooled # NoConn => pooled \in DOMAIN conn)
<1>1. MaxCalls \in Nat /\ MaxFailures \in Nat
  BY CallerAssumption, FailureAssumption, FS_CardinalityType DEF MaxCalls
<1>2. /\ caller \in [Caller -> [at : Place, seq : 0..MaxCalls]]
      /\ holder \subseteq Caller /\ seqCounter \in 0..MaxCalls /\ pooled \in 0..Len(conn)
      /\ conn \in Seq(ConnType) /\ failures \in 0..MaxFailures
      /\ handled \in [1..MaxCalls -> Nat] /\ answered \subseteq 1..seqCounter
  BY DEF ChannelInv, TypeOK, Place
<1>3. caller \in [Caller -> [at : Place, seq : Nat]]
  <2>1. 0..MaxCalls \subseteq Nat
    BY <1>1
  <2> QED BY <1>2, <2>1
<1>4. Len(conn) \in Nat /\ DOMAIN conn = 1..Len(conn)
  BY <1>2
<1> QED BY <1>1, <1>2, <1>3, <1>4 DEF NoConn

LEMMA OneHolder ==
  ASSUME ChannelInv, NEW c \in Caller, caller[c].at \in {"have", "read"}
  PROVE  /\ holder = {c} /\ \A d \in Caller \ {c} : caller[d].at \notin {"have", "read"}
         /\ Open = IF caller[c].at = "read" THEN {c} ELSE {}
<1>1. Serialised /\ c \in holder /\ holder \subseteq Caller
  BY BasicTypes DEF ChannelInv, Serialised
<1>2. holder = {c} /\ \A d \in Caller \ {c} : caller[d].at \notin {"have", "read"}
  BY <1>1 DEF Serialised
<1> QED BY <1>2 DEF Open

LEMMA MovedSets ==
  ASSUME caller \in [Caller -> [at : Place, seq : Nat]], NEW c \in Caller, NEW r,
         caller' = [caller EXCEPT ![c] = r]
  PROVE  /\ Open' = IF r.at = "read" THEN Open \cup {c} ELSE Open \ {c}
         /\ Finished' = IF r.at = "done" THEN Finished \cup {c} ELSE Finished \ {c}
  BY DEF Open, Finished

\* Caller c goes on to r.
Goes(c, r) ==
  /\ caller' = [caller EXCEPT ![c] = r]
  /\ r \in [at : Place, seq : Nat]
  /\ holder' = IF r.at \in {"have", "read"} THEN holder \cup {c} ELSE holder \ {c}
  /\ r.at \in {"have", "read"} => holder \subseteq {c}
  /\ r.at = "read" => r.seq \in 1..seqCounter' /\ r.seq \notin answered'
  /\ r.seq \in 0..seqCounter' \/ r.seq = caller[c].seq
  /\ seqCounter' \in Nat /\ seqCounter' >= seqCounter
  /\ \/ answered' = answered /\ r.at # "done" /\ caller[c].at # "done"
     \/ r.at = "done" /\ caller[c].at = "read" /\ answered' = answered \cup {caller[c].seq}

LEMMA FinishedFinite == IsFiniteSet(Finished)
<1>1. Finished \subseteq Caller
  BY DEF Finished
<1> QED BY <1>1, CallerAssumption, FS_Subset

LEMMA AnsweredFinite ==
  ASSUME ChannelInv
  PROVE  IsFiniteSet(answered) /\ Cardinality(answered) \in Nat
<1>1. answered \subseteq 1..seqCounter /\ seqCounter \in Int
  BY BasicTypes
<1>2. IsFiniteSet(1..seqCounter)
  BY <1>1, FS_Interval
<1>3. IsFiniteSet(answered)
  BY <1>1, <1>2, FS_Subset
<1> QED BY <1>3, FS_CardinalityType

LEMMA GoesSerialised ==
  ASSUME ChannelInv, NEW c \in Caller, NEW r, Goes(c, r)
  PROVE  Serialised'
<1>0. /\ caller \in [Caller -> [at : Place, seq : Nat]] /\ holder \subseteq Caller
      /\ seqCounter \in Nat /\ answered \subseteq 1..seqCounter /\ Serialised
  BY BasicTypes DEF ChannelInv
<1>1. caller'[c] = r /\ \A d \in Caller \ {c} : caller'[d] = caller[d]
  BY <1>0 DEF Goes
<1>2. \A x, y \in holder' : x = y
  BY <1>0 DEF Goes, Serialised
<1>3. ASSUME NEW d \in Caller PROVE caller'[d].at \in {"have", "read"} <=> d \in holder'
  BY <1>0, <1>1 DEF Goes, Serialised
<1>4. ASSUME NEW d \in Open' PROVE caller'[d].seq \in 1..seqCounter' /\ caller'[d].seq \notin answered'
  <2>1. CASE d = c
    BY <1>1, <1>4, <2>1 DEF Goes, Open
  <2>2. CASE d # c
    <3>1. d \in Open /\ caller'[d] = caller[d] /\ d \in Caller
      BY <1>1, <1>4, <2>2 DEF Open
    <3>2. caller[d].seq \in 1..seqCounter /\ caller[d].seq \notin answered
      BY <1>0, <3>1 DEF Serialised
    <3>3. caller[c].at # "read"
      BY <2>2, <3>1, OneHolder DEF Open
    <3>4. answered' = answered
      BY <3>3 DEF Goes
    <3>5. 1..seqCounter \subseteq 1..seqCounter'
      BY <1>0 DEF Goes
    <3> QED BY <3>1, <3>2, <3>4, <3>5
  <2> QED BY <2>1, <2>2
<1>5. Cardinality(answered') = Cardinality(Finished')
  <2>1. CASE answered' = answered /\ r.at # "done" /\ caller[c].at # "done"
    <3>1. Finished' = Finished
      BY <1>0, <2>1, MovedSets DEF Goes, Finished
    <3> QED BY <1>0, <2>1, <3>1 DEF Serialised
  <2>2. CASE r.at = "done" /\ caller[c].at = "read" /\ answered' = answered \cup {caller[c].seq}
    <3>1. Finished' = Finished \cup {c} /\ c \notin Finished
      BY <1>0, <2>2, MovedSets DEF Goes, Finished
    <3>2. caller[c].seq \notin answered
      BY <1>0, <2>2 DEF Serialised, Open
    <3>3. Cardinality(answered') = Cardinality(answered) + 1
      BY <2>2, <3>2, AnsweredFinite, FS_AddElement
    <3>4. Cardinality(Finished') = Cardinality(Finished) + 1
      BY <3>1, FinishedFinite, FS_AddElement
    <3> QED BY <1>0, <3>3, <3>4 DEF Serialised
  <2> QED BY <2>1, <2>2 DEF Goes
<1> QED BY <1>2, <1>3, <1>4, <1>5 DEF Serialised

(***************************************************************************)
(* What failures cost.                                                     *)
(***************************************************************************)
LEMMA CountType == \A S : Count(S) \in {0, 1}
  BY DEF Count

LEMMA DebtType == Debt \in 0..3
<1>1. Count(RefusedCalls) \in {0, 1} /\ Count(Open) \in {0, 1}
  BY CountType
<1> QED BY <1>1 DEF Debt

LEMMA DebtTypePrimed == Debt' \in 0..3
<1>1. Count(RefusedCalls)' \in {0, 1} /\ Count(Open)' \in {0, 1}
  BY DEF Count
<1> QED BY <1>1 DEF Debt

\* The pooled connection lives as before.
LEMMA DebtKept ==
  ASSUME UNCHANGED pooled, Open' = Open, \A c \in Open : caller'[c] = caller[c],
         pooled # NoConn => /\ conn'[pooled].theirs = conn[pooled].theirs
                            /\ conn'[pooled].reset = conn[pooled].reset
                            /\ Frames(conn'[pooled]) \subseteq Frames(conn[pooled])
  PROVE  Debt' <= Debt
<1>1. CASE pooled = NoConn
  BY <1>1 DEF Debt, NoConn
<1>2. CASE pooled # NoConn
  <2>1. RefusedCalls' \subseteq RefusedCalls
    BY <1>2 DEF RefusedCalls
  <2>2. Count(RefusedCalls') <= Count(RefusedCalls)
    BY <2>1 DEF Count
  <2> QED BY <1>2, <2>2, CountType DEF Debt
<1> QED BY <1>1, <1>2

\* The open call ends.
LEMMA DebtPaid ==
  ASSUME UNCHANGED pooled, Open' = {}, NEW c \in Open, pooled # NoConn,
         conn'[pooled].theirs = conn[pooled].theirs,
         conn'[pooled].reset = conn[pooled].reset
  PROVE  /\ Debt' <= Debt
         /\ (~conn[pooled].theirs \/ c \in RefusedCalls) => Debt' <= Debt - 1
<1>1. RefusedCalls' = {}
  BY DEF RefusedCalls
<1>2. Count(RefusedCalls') = 0 /\ Count(Open') = 0 /\ Count(Open) = 1
  BY <1>1 DEF Count
<1>3. c \in RefusedCalls => Count(RefusedCalls) = 1
  BY DEF Count
<1>4. CASE conn[pooled].theirs
  <2>1. Debt' = 0 /\ Debt = Count(RefusedCalls)
    BY <1>2, <1>4 DEF Debt
  <2> QED BY <1>3, <1>4, <2>1, CountType
<1>5. CASE ~conn[pooled].theirs
  BY <1>2, <1>5 DEF Debt
<1> QED BY <1>4, <1>5

\* Callers and failures bound the calls.
LEMMA CallsBounded ==
  ASSUME holder' \subseteq Caller, seqCounter' \in Nat, failures' \in 0..MaxFailures,
         Serialised', Solvent'
  PROVE  seqCounter' <= MaxCalls
<1>1. Finished' \subseteq Caller /\ Open' \subseteq Caller /\ Finished' \cap Open' = {}
  BY DEF Finished, Open
<1>2. IsFiniteSet(Finished') /\ Cardinality(Finished') \in Nat /\ Cardinality(Caller) \in Nat
  BY <1>1, CallerAssumption, FS_Subset, FS_CardinalityType
<1>3. Cardinality(Finished') + Count(Open') <= Cardinality(Caller)
  <2>1. CASE Open' = {}
    <3>1. Cardinality(Finished') <= Cardinality(Caller)
      BY <1>1, CallerAssumption, FS_Subset
    <3> QED BY <1>2, <2>1, <3>1 DEF Count
  <2>2. CASE Open' # {}
    <3>1. PICK c : c \in Open'
      BY <2>2
    <3>2. Cardinality(Finished' \cup {c}) = Cardinality(Finished') + 1
      BY <1>1, <1>2, <3>1, FS_AddElement
    <3>3. Cardinality(Finished' \cup {c}) <= Cardinality(Caller)
      <4>1. Finished' \cup {c} \subseteq Caller
        BY <1>1, <3>1
      <4> QED BY <4>1, CallerAssumption, FS_Subset
    <3> QED BY <2>2, <3>2, <3>3 DEF Count
  <2> QED BY <2>1, <2>2
<1>4. /\ seqCounter' + Debt' <= Cardinality(answered') + Count(Open') + 3 * failures'
      /\ Cardinality(answered') = Cardinality(Finished')
  BY DEF Solvent, Serialised
<1>5. Debt' \in 0..3 /\ MaxFailures \in Nat /\ Count(Open') \in {0, 1}
  BY DebtTypePrimed, FailureAssumption, CountType
<1> QED BY <1>2, <1>3, <1>4, <1>5 DEF MaxCalls

\* The step of one caller, or of none, preserves the invariant.
LEMMA StepInv ==
  ASSUME ChannelInv,
         \/ \E c \in Caller, r \in [at : Place, seq : Nat] : Goes(c, r)
         \/ UNCHANGED <<caller, holder, seqCounter, answered>>,
         pooled' \in 0..Len(conn'), conn' \in Seq(ConnType), peerUp' \in BOOLEAN,
         failures' \in 0..MaxFailures, handled' \in [1..MaxCalls -> Nat],
         seqCounter' <= MaxCalls => HandledOnce', Solvent'
  PROVE  ChannelInv'
<1>0. /\ caller \in [Caller -> [at : Place, seq : Nat]] /\ holder \subseteq Caller
      /\ seqCounter \in Nat /\ answered \subseteq 1..seqCounter /\ Serialised
      /\ MaxCalls \in Nat /\ \A c \in Caller : caller[c].seq \in 0..MaxCalls
  BY BasicTypes DEF ChannelInv, TypeOK
<1>1. Serialised'
  <2>1. CASE UNCHANGED <<caller, holder, seqCounter, answered>>
    BY <1>0, <2>1 DEF Serialised, Open, Finished
  <2> QED BY <2>1, GoesSerialised
<1>2. holder' \subseteq Caller /\ seqCounter' \in Nat /\ seqCounter' >= seqCounter
  BY <1>0 DEF Goes
<1>3. seqCounter' <= MaxCalls
  BY <1>1, <1>2, CallsBounded
<1>4. HandledOnce'
  BY <1>3
<1>5. caller' \in [Caller -> [at : Place, seq : 0..MaxCalls]]
  <2>1. caller \in [Caller -> [at : Place, seq : 0..MaxCalls]]
    BY <1>0
  <2>2. CASE UNCHANGED caller
    BY <2>1, <2>2
  <2>3. ASSUME NEW c \in Caller, NEW r \in [at : Place, seq : Nat], Goes(c, r)
        PROVE  caller' \in [Caller -> [at : Place, seq : 0..MaxCalls]]
    <3>1. r.seq \in 0..MaxCalls
      BY <1>0, <1>2, <1>3, <2>3 DEF Goes
    <3>2. r \in [at : Place, seq : 0..MaxCalls]
      BY <2>3, <3>1
    <3> QED BY <2>1, <2>3, <3>2 DEF Goes
  <2> QED BY <2>2, <2>3
<1>6. answered' \subseteq 1..seqCounter'
  <2>1. 1..seqCounter \subseteq 1..seqCounter'
    BY <1>0, <1>2
  <2>2. ASSUME NEW c \in Caller, caller[c].at = "read" PROVE caller[c].seq \in 1..seqCounter
    BY <1>0, <2>2 DEF Serialised, Open
  <2> QED BY <1>0, <2>1, <2>2 DEF Goes
<1>7. ASSUME NEW k \in DOMAIN conn'
      PROVE  /\ {conn'[k].mine, conn'[k].theirs, conn'[k].reset} \subseteq BOOLEAN
             /\ conn'[k].up \in Seq(1..seqCounter')
             /\ conn'[k].down \in Seq([seq : 1..seqCounter', served : BOOLEAN])
             /\ conn'[k].busy \subseteq 1..seqCounter'
  <2>1. conn'[k] \in ConnType
    OBVIOUS
  <2>2. /\ {conn'[k].mine, conn'[k].theirs, conn'[k].reset} \subseteq BOOLEAN
        /\ conn'[k].up \in Seq(Nat) /\ conn'[k].down \in Seq([seq : Nat, served : BOOLEAN])
    BY <2>1 DEF ConnType
  <2>3. /\ \A i \in Waiting(conn'[k]) : i \in 1..seqCounter'
        /\ \A f \in Frames(conn'[k]) : f.seq \in 1..seqCounter'
    BY <1>4 DEF HandledOnce
  <2>4. \A a \in 1..Len(conn'[k].up) : conn'[k].up[a] \in 1..seqCounter'
    BY <2>3 DEF Waiting
  <2>5. ASSUME NEW a \in 1..Len(conn'[k].down)
        PROVE  conn'[k].down[a] \in [seq : 1..seqCounter', served : BOOLEAN]
    <3>1. conn'[k].down[a] \in [seq : Nat, served : BOOLEAN]
      BY <2>2, ElementOfSeq, Zenon
    <3>2. conn'[k].down[a].seq \in 1..seqCounter'
      BY <2>3 DEF Frames
    <3> QED BY <3>1, <3>2
  <2>6. conn'[k].busy \subseteq 1..seqCounter'
    BY <2>3 DEF Waiting
  <2>7. conn'[k].up \in Seq(1..seqCounter')
    BY <2>2, <2>4, SeqNarrow, Zenon
  <2>8. conn'[k].down \in Seq([seq : 1..seqCounter', served : BOOLEAN])
    <3> DEFINE x == conn'[k].down
               S == [seq : Nat, served : BOOLEAN]
               T == [seq : 1..seqCounter', served : BOOLEAN]
    <3>1. x \in Seq(S) /\ \A a \in 1..Len(x) : x[a] \in T
      BY <2>2, <2>5
    <3> HIDE DEF x, S, T
    <3>2. x \in Seq(T)
      BY <3>1, SeqNarrow
    <3> QED BY <3>2 DEF x, T
  <2> QED BY <2>2, <2>6, <2>7, <2>8, Zenon
<1>8. TypeOK'
  BY <1>2, <1>3, <1>5, <1>6, <1>7 DEF TypeOK, Place
<1> QED BY <1>1, <1>4, <1>8 DEF ChannelInv

(***************************************************************************)
(* The actions of a caller.                                                *)
(***************************************************************************)

LEMMA StillSolvent ==
  \A s, a, f, g \in Nat, d, e \in 0..3, o \in {0, 1} :
    s + d <= a + o + 3 * f /\ e <= d /\ f <= g => s + e <= a + o + 3 * g
  OBVIOUS

LEMMA OneMoreOpen ==
  \A s, a, f \in Nat, d, e \in 0..3 :
    s + d <= a + 0 + 3 * f /\ e <= d => (s + 1) + e <= a + 1 + 3 * f
  OBVIOUS

\* Nothing is answered or numbered, and the connections stay as they are.
LEMMA IdleStep ==
  ASSUME ChannelInv, NEW c \in Caller, NEW r \in [at : Place, seq : Nat], Goes(c, r),
         caller[c].at # "read", r.at \notin {"read", "done"},
         UNCHANGED <<seqCounter, pooled, conn, peerUp, handled, answered>>,
         failures' \in Nat, failures' >= failures, failures' <= MaxFailures
  PROVE  ChannelInv'
<1>0. /\ caller \in [Caller -> [at : Place, seq : Nat]] /\ seqCounter \in Nat
      /\ failures \in Nat /\ conn \in Seq(ConnType) /\ Solvent /\ HandledOnce
      /\ MaxFailures \in Nat /\ pooled \in 0..Len(conn) /\ handled \in [1..MaxCalls -> Nat]
      /\ peerUp \in BOOLEAN
  BY BasicTypes DEF ChannelInv, TypeOK
<1>1. Open' = Open /\ \A d \in Open : caller'[d] = caller[d]
  <2>1. c \notin Open
    BY DEF Open
  <2> QED BY <1>0, <2>1, MovedSets DEF Goes, Open
<1>2. Debt' <= Debt
  BY <1>1, DebtKept
<1>3. Solvent'
  <2>1. Debt \in 0..3 /\ Debt' \in 0..3 /\ Cardinality(answered) \in Nat /\ Count(Open) \in {0, 1}
    BY DebtType, DebtTypePrimed, AnsweredFinite, CountType
  <2>2. seqCounter' + Debt' <= Cardinality(answered') + Count(Open') + 3 * failures'
    <3>1. seqCounter + Debt <= Cardinality(answered) + Count(Open) + 3 * failures
      BY <1>0 DEF Solvent
    <3> QED BY <1>0, <1>1, <1>2, <2>1, <3>1, StillSolvent
  <2> QED BY <1>0, <2>2 DEF Solvent
<1>4. HandledOnce'
  BY <1>0 DEF HandledOnce
<1> QED BY <1>0, <1>3, <1>4, StepInv

LEMMA CallInv ==
  ASSUME ChannelInv, NEW c \in Caller, Call(c) \/ Lock(c)
  PROVE  ChannelInv'
<1>0. /\ caller \in [Caller -> [at : Place, seq : Nat]] /\ seqCounter \in Nat /\ failures \in Nat
      /\ failures <= MaxFailures /\ caller[c] \in [at : Place, seq : Nat]
  BY BasicTypes
<1>1. CASE Call(c)
  <2> DEFINE r == [caller[c] EXCEPT !.at = "wait"]
  <2>1. /\ r \in [at : Place, seq : Nat] /\ r.at = "wait" /\ r.seq = caller[c].seq
        /\ caller[c].at = "idle"
    BY <1>0, <1>1 DEF Place, Call, Idle
  <2>2. caller' = [caller EXCEPT ![c] = r]
    BY <1>1 DEF Call
  <2> HIDE DEF r
  <2>3. holder' = holder \ {c}
    <3>1. c \notin holder
      BY <2>1 DEF ChannelInv, Serialised
    <3> QED BY <1>1, <3>1 DEF Call
  <2>4. UNCHANGED <<seqCounter, pooled, conn, peerUp, failures, handled, answered>>
    BY <1>1 DEF Call, netVars, history
  <2>5. Goes(c, r)
    BY <1>0, <2>1, <2>2, <2>3, <2>4 DEF Goes
  <2> QED BY <1>0, <2>1, <2>4, <2>5, IdleStep
<1>2. CASE Lock(c)
  <2> DEFINE r == [caller[c] EXCEPT !.at = "have"]
  <2>1. /\ r \in [at : Place, seq : Nat] /\ r.at = "have" /\ r.seq = caller[c].seq
        /\ caller[c].at = "wait"
    BY <1>0, <1>2 DEF Place, Lock
  <2>2. caller' = [caller EXCEPT ![c] = r] /\ holder = {} /\ holder' = holder \cup {c}
    BY <1>2 DEF Lock, MutexFree
  <2> HIDE DEF r
  <2>4. UNCHANGED <<seqCounter, pooled, conn, peerUp, failures, handled, answered>>
    BY <1>2 DEF Lock, netVars, history
  <2>5. Goes(c, r)
    BY <1>0, <2>1, <2>2, <2>4 DEF Goes
  <2> QED BY <1>0, <2>1, <2>4, <2>5, IdleStep
<1> QED BY <1>1, <1>2

LEMMA IdleRecord == Idle \in [at : Place, seq : Nat] /\ Idle.at = "idle" /\ Idle.seq = 0
  BY DEF Idle, Place

LEMMA DoneRecord == Done \in [at : Place, seq : Nat] /\ Done.at = "done" /\ Done.seq = 0
  BY DEF Done, Place

LEMMA ReturnGoes ==
  ASSUME ChannelInv, NEW c \in Caller, ReturnFailed(c), caller[c].at # "done",
         answered' = answered, seqCounter' \in Nat, seqCounter' >= seqCounter
  PROVE  Goes(c, Idle)
  BY IdleRecord DEF ReturnFailed, Goes

LEMMA ConnectInv ==
  ASSUME ChannelInv, NEW c \in Caller, Connect(c)
  PROVE  ChannelInv'
<1>0. /\ caller \in [Caller -> [at : Place, seq : Nat]] /\ seqCounter \in Nat /\ failures \in Nat
      /\ failures <= MaxFailures /\ MaxFailures \in Nat /\ conn \in Seq(ConnType)
      /\ handled \in [1..MaxCalls -> Nat] /\ Solvent /\ HandledOnce /\ peerUp \in BOOLEAN
      /\ DOMAIN conn = 1..Len(conn) /\ Len(conn) \in Nat
  BY BasicTypes DEF ChannelInv, TypeOK
<1>1. caller[c].at = "have" /\ pooled = NoConn /\ UNCHANGED <<seqCounter, peerUp, handled, answered>>
  BY DEF Connect, history
<1>2. CASE /\ conn' = Append(conn, NewConn) /\ pooled' = Len(conn')
           /\ UNCHANGED <<caller, holder, failures>>
  <2>1. /\ NetLoses /\ Len(conn') = Len(conn) + 1 /\ conn'[Len(conn) + 1] = NewConn
        /\ \A l \in DOMAIN conn : conn'[l] = conn[l]
    BY <1>0, <1>2, NewConnLoses
  <2>2. Open = {} /\ Open' = {}
    BY <1>1, <1>2, OneHolder DEF Open
  <2>3. conn' \in Seq(ConnType) /\ DOMAIN conn' = 1..(Len(conn) + 1)
    BY <2>1 DEF NetLoses
  <2>4. /\ conn'[pooled'].mine = TRUE /\ conn'[pooled'].theirs = TRUE
        /\ conn'[Len(conn) + 1].reset = FALSE
    BY <1>2, <2>1 DEF NewConn
  <2>5. Debt' = 0 /\ Debt = 0
    <3>1. RefusedCalls' = {}
      BY <2>2 DEF RefusedCalls
    <3>2. Debt' = 0
      BY <1>0, <1>2, <2>1, <2>4, <3>1 DEF Debt, Count, NoConn
    <3> QED BY <1>1, <3>2 DEF Debt
  <2>6. \A k \in DOMAIN conn' : conn'[k].reset => ~conn'[k].theirs
    <3>1. \A k \in DOMAIN conn' : k \in DOMAIN conn \/ k = Len(conn) + 1
      BY <1>0, <2>3
    <3> QED BY <1>0, <2>1, <2>4, <3>1 DEF Solvent
  <2>7. Solvent'
    <3>1. seqCounter' + Debt' <= Cardinality(answered') + Count(Open') + 3 * failures'
      BY <1>0, <1>1, <1>2, <2>2, <2>5 DEF Solvent
    <3> QED BY <2>4, <2>6, <3>1 DEF Solvent
  <2>8. HandledOnce'
    BY <1>0, <1>1, <2>1, HandledKept DEF HandledOnce
  <2>9. pooled' \in 0..Len(conn')
    BY <1>0, <1>2, <2>1
  <2> QED BY <1>0, <1>1, <1>2, <2>3, <2>7, <2>8, <2>9, StepInv
<1>3. CASE ReturnFailed(c) /\ UNCHANGED <<pooled, conn>> /\ (UNCHANGED failures \/ Costs)
  <2>1. failures' \in Nat /\ failures' >= failures /\ failures' <= MaxFailures
    BY <1>0, <1>3 DEF Costs
  <2> QED BY <1>0, <1>1, <1>3, <2>1, ReturnGoes, IdleRecord, IdleStep
<1> QED BY <1>2, <1>3 DEF Connect

LEMMA WriteInv ==
  ASSUME ChannelInv, NEW c \in Caller, Write(c)
  PROVE  ChannelInv'
<1> DEFINE n == seqCounter + 1
           r == [at |-> "read", seq |-> n]
<1>0. /\ caller \in [Caller -> [at : Place, seq : Nat]] /\ seqCounter \in Nat /\ failures \in Nat
      /\ failures <= MaxFailures /\ MaxFailures \in Nat /\ conn \in Seq(ConnType)
      /\ handled \in [1..MaxCalls -> Nat] /\ Solvent /\ HandledOnce /\ peerUp \in BOOLEAN
      /\ DOMAIN conn = 1..Len(conn) /\ Len(conn) \in Nat /\ pooled \in 0..Len(conn)
      /\ answered \subseteq 1..seqCounter /\ MaxCalls \in Nat
  BY BasicTypes DEF ChannelInv, TypeOK
<1>1. /\ caller[c].at = "have" /\ pooled # NoConn /\ pooled \in DOMAIN conn /\ seqCounter' = n
      /\ UNCHANGED <<peerUp, failures, handled, answered>>
  BY BasicTypes DEF Write, NextSeq, history
<1>2. holder = {c} /\ Open = {}
  BY <1>1, OneHolder
<1>3. /\ conn[pooled].theirs \in BOOLEAN /\ conn[pooled].reset \in BOOLEAN
      /\ Cardinality(answered) \in Nat
  BY <1>0, <1>1, ConnFields, AnsweredFinite
<1>4. CASE /\ ~conn[pooled].reset
           /\ conn' = [conn EXCEPT
                ![pooled].up = IF conn[pooled].theirs THEN Append(@, n) ELSE @,
                ![pooled].reset = ~conn[pooled].theirs]
           /\ caller' = [caller EXCEPT ![c] = r] /\ UNCHANGED <<holder, pooled>>
  <2>0. n \in Nat /\ pooled' = pooled
    BY <1>0, <1>4
  <2>1. Requests(pooled, n)
    <3> HIDE DEF n
    <3> QED BY <1>0, <1>1, <1>4, <2>0, WriteEdit
  <2>2. r \in [at : Place, seq : Nat] /\ r.at = "read" /\ r.seq = n
    BY <1>0 DEF Place
  <2> HIDE DEF r
  <2>3. n \in 1..n /\ n \in 0..n /\ n \notin answered /\ n \in Nat /\ n >= seqCounter
    BY <1>0
  <2>4. Goes(c, r)
    BY <1>1, <1>2, <1>4, <2>2, <2>3 DEF Goes
  <2>5. Open' = {c} /\ caller'[c] = r
    BY <1>0, <1>2, <1>4, <2>2, MovedSets
  <2>6. /\ conn' \in Seq(ConnType) /\ Len(conn') = Len(conn) /\ DOMAIN conn' = DOMAIN conn
        /\ \A l \in DOMAIN conn \ {pooled} : conn'[l] = conn[l]
        /\ conn'[pooled].mine = conn[pooled].mine
        /\ conn'[pooled].theirs = conn[pooled].theirs
        /\ conn'[pooled].reset <=> ~conn[pooled].theirs
        /\ Frames(conn'[pooled]) = Frames(conn[pooled])
    <3>1. conn' \in Seq(ConnType) /\ Len(conn') = Len(conn)
      BY <2>1 DEF Requests
    <3>2. DOMAIN conn' = DOMAIN conn
      BY <1>0, <3>1
    <3> QED BY <2>1, <3>1, <3>2 DEF Requests, Frames
  <2>7. RefusedCalls' = {}
    <3> DEFINE f == [seq |-> n, served |-> FALSE]
    <3>1. f.seq = n
      OBVIOUS
    <3>2. n \notin 1..seqCounter
      BY <1>0
    <3> HIDE DEF f, n
    <3>3. f \notin Frames(conn[pooled])
      BY <1>0, <1>1, <3>1, <3>2 DEF HandledOnce
    <3> QED BY <1>4, <2>2, <2>5, <2>6, <3>3 DEF RefusedCalls, f
  <2>8. Count(RefusedCalls') = 0 /\ Count(Open') = 1 /\ Count(Open) = 0
        /\ Count(RefusedCalls) \in {0, 1}
    BY <1>2, <2>5, <2>7, CountType DEF Count
  <2>9. Debt' <= Debt /\ Debt \in 0..3 /\ Debt' \in 0..3
    <3>1. CASE conn[pooled].theirs
      BY <1>1, <2>0, <2>6, <2>8, <3>1 DEF Debt
    <3>2. CASE ~conn[pooled].theirs
      <4>1. conn[pooled].reset = FALSE /\ conn'[pooled].reset = TRUE
        BY <1>3, <1>4, <2>6, <3>2, ConnFields
      <4> QED BY <1>1, <2>0, <2>6, <2>8, <3>2, <4>1 DEF Debt
    <3> QED BY <3>1, <3>2, DebtType, DebtTypePrimed
  <2>10. Solvent'
    <3>1. seqCounter' + Debt' <= Cardinality(answered') + Count(Open') + 3 * failures'
      <4>1. seqCounter + Debt <= Cardinality(answered) + 0 + 3 * failures
        BY <1>0, <2>8 DEF Solvent
      <4>2. (seqCounter + 1) + Debt' <= Cardinality(answered) + 1 + 3 * failures
        BY <1>0, <1>3, <2>9, <4>1, OneMoreOpen
      <4> QED BY <1>1, <2>8, <4>2
    <3>2. \A k \in DOMAIN conn' : conn'[k].reset => ~conn'[k].theirs
      BY <1>0, <2>6 DEF Solvent
    <3> QED BY <1>0, <1>1, <1>4, <2>6, <3>1, <3>2 DEF Solvent
  <2>11. seqCounter' <= MaxCalls => HandledOnce'
    BY <1>0, <1>1, <2>1, HandledWrite
  <2> QED BY <1>0, <1>1, <1>4, <2>2, <2>4, <2>6, <2>10, <2>11, StepInv
<1>5. CASE conn[pooled].reset /\ Retire(pooled) /\ ReturnFailed(c)
  <2>1. PICK heard \in BOOLEAN : conn' = Closed(pooled, heard) /\ pooled' = NoConn
    BY <1>5 DEF Retire
  <2>2. /\ NetLoses /\ DOMAIN conn' = DOMAIN conn /\ Len(conn') = Len(conn)
        /\ \A l \in DOMAIN conn : conn'[l].reset = conn[l].reset
                                  /\ conn'[l].theirs = conn[l].theirs
    BY <1>0, <1>1, <2>1, ClosedEdit
  <2>3. n \in Nat /\ n >= seqCounter
    BY <1>0
  <2>4. Goes(c, Idle)
    BY <1>1, <1>5, <2>3, ReturnGoes
  <2>5. Open' = {}
    BY <1>0, <1>2, <2>4, MovedSets, IdleRecord DEF Goes
  <2>6. Debt' = 0
    BY <2>1 DEF Debt
  <2>7. Debt = 1
    <3>1. ~conn[pooled].theirs
      BY <1>0, <1>1, <1>5 DEF Solvent
    <3> QED BY <1>1, <1>2, <1>5, <3>1 DEF Debt, Count
  <2>8. Solvent'
    <3>1. seqCounter' + Debt' <= Cardinality(answered') + Count(Open') + 3 * failures'
      BY <1>0, <1>1, <1>2, <1>3, <2>5, <2>6, <2>7 DEF Solvent, Count
    <3>2. \A k \in DOMAIN conn' : conn'[k].reset => ~conn'[k].theirs
      BY <1>0, <2>2 DEF Solvent
    <3> QED BY <2>1, <3>1, <3>2 DEF Solvent
  <2>9. HandledOnce'
    BY <1>0, <1>1, <2>2, <2>3, HandledKept DEF HandledOnce
  <2>10. conn' \in Seq(ConnType) /\ pooled' \in 0..Len(conn')
    BY <1>0, <2>1, <2>2 DEF NetLoses, NoConn
  <2> QED BY <1>0, <1>1, <2>4, <2>8, <2>9, <2>10, IdleRecord, StepInv
<1>6. seqCounter' = seqCounter + 1
  BY <1>1
<1> QED BY <1>4, <1>5, <1>6 DEF Write, OnWriteError

LEMMA Balance ==
  \A s, a, f, g \in Nat, d, e \in 0..3 :
    s + d <= a + 1 + 3 * f =>
      /\ e + 3 * f < d + 3 * g => s + e <= a + 0 + 3 * g
      /\ e + 3 * f <= d + 3 * g => s + e <= (a + 1) + 0 + 3 * g
  OBVIOUS

LEMMA Saved == \A f \in Nat, d, e \in 0..3 : e <= d - 1 => e + 3 * f < d + 3 * f
  OBVIOUS

LEMMA FailurePays ==
  \A s, a, f \in Nat, o \in {0, 1}, d, e \in 0..3 :
    s + d <= a + o + 3 * f => s + e <= a + o + 3 * (f + 1)
  OBVIOUS

\* The read of one caller, once its costs are known.
LEMMA ReadDone ==
  ASSUME ChannelInv, NEW c \in Caller, caller[c].at = "read",
         \/ Goes(c, Idle) /\ answered' = answered
                          /\ Debt' + 3 * failures < Debt + 3 * failures'
         \/ Goes(c, Done) /\ answered' = answered \cup {caller[c].seq}
                          /\ handled[caller[c].seq] = 1
                          /\ Debt' + 3 * failures <= Debt + 3 * failures',
         UNCHANGED <<seqCounter, peerUp, handled>>, failures' \in 0..MaxFailures,
         NetLoses, Len(conn') = Len(conn), pooled' \in 0..Len(conn),
         \A k \in DOMAIN conn : /\ conn'[k].reset = conn[k].reset
                                /\ conn'[k].theirs = conn[k].theirs,
         pooled' # NoConn => conn'[pooled'].mine
  PROVE  ChannelInv'
<1>0. /\ caller \in [Caller -> [at : Place, seq : Nat]] /\ seqCounter \in Nat /\ failures \in Nat
      /\ MaxFailures \in Nat /\ conn \in Seq(ConnType) /\ handled \in [1..MaxCalls -> Nat]
      /\ Solvent /\ HandledOnce /\ peerUp \in BOOLEAN /\ failures' \in Nat
      /\ conn' \in Seq(ConnType) /\ Serialised
  <2>1. MaxFailures \in Nat /\ failures' \in 0..MaxFailures
    BY BasicTypes
  <2>2. failures' \in Nat
    BY <2>1
  <2>3. peerUp \in BOOLEAN /\ Solvent /\ HandledOnce /\ Serialised
    BY DEF ChannelInv, TypeOK
  <2>4. conn' \in Seq(ConnType)
    BY DEF NetLoses
  <2> QED BY <2>1, <2>2, <2>3, <2>4, BasicTypes
<1>1. Open = {c} /\ caller[c].seq \notin answered
  BY <1>0, OneHolder DEF Serialised
<1>2. Open' = {}
  <2>1. PICK r : Goes(c, r) /\ r.at # "read"
    BY IdleRecord, DoneRecord
  <2>2. Open' = Open \ {c}
    BY <1>0, <2>1, MovedSets DEF Goes
  <2> QED BY <1>1, <2>2
<1>3. /\ Count(Open) = 1 /\ Count(Open') = 0 /\ IsFiniteSet(answered)
      /\ Cardinality(answered) \in Nat /\ Debt \in 0..3 /\ Debt' \in 0..3
  BY <1>1, <1>2, AnsweredFinite, DebtType, DebtTypePrimed DEF Count
<1>4. seqCounter + Debt <= Cardinality(answered) + Count(Open) + 3 * failures
  BY <1>0 DEF Solvent
<1>5. seqCounter' + Debt' <= Cardinality(answered') + Count(Open') + 3 * failures'
  <2>1. CASE answered' = answered /\ Debt' + 3 * failures < Debt + 3 * failures'
    BY <1>0, <1>3, <1>4, <2>1, Balance
  <2>2. CASE /\ answered' = answered \cup {caller[c].seq}
             /\ Debt' + 3 * failures <= Debt + 3 * failures'
    <3>1. Cardinality(answered') = Cardinality(answered) + 1
      BY <1>1, <1>3, <2>2, FS_AddElement
    <3>2. seqCounter + Debt <= Cardinality(answered) + 1 + 3 * failures
      BY <1>3, <1>4
    <3>3. seqCounter + Debt' <= (Cardinality(answered) + 1) + 0 + 3 * failures'
      BY <1>0, <1>3, <2>2, <3>2, Balance
    <3> QED BY <1>3, <3>1, <3>3
  <2> QED BY <2>1, <2>2
<1>6. DOMAIN conn' = DOMAIN conn
  BY <1>0
<1>7. Solvent'
  BY <1>0, <1>5, <1>6 DEF Solvent
<1>8. \A i \in answered' : handled[i] = 1
  BY <1>0 DEF HandledOnce
<1>9. HandledOnce'
  BY <1>0, <1>8, HandledKept
<1> QED BY <1>0, <1>7, <1>9, IdleRecord, DoneRecord, StepInv

LEMMA ReadFrameInv ==
  ASSUME ChannelInv, NEW c \in Caller, ReadFrame(c)
  PROVE  ChannelInv'
<1> DEFINE frame == Head(conn[pooled].down)
           mine  == frame.seq = caller[c].seq
<1>0. /\ caller \in [Caller -> [at : Place, seq : Nat]] /\ seqCounter \in Nat /\ failures \in Nat
      /\ failures \in 0..MaxFailures /\ conn \in Seq(ConnType) /\ handled \in [1..MaxCalls -> Nat]
      /\ Solvent /\ HandledOnce /\ peerUp \in BOOLEAN /\ DOMAIN conn = 1..Len(conn)
      /\ Len(conn) \in Nat /\ pooled \in 0..Len(conn) /\ Serialised
  BY BasicTypes DEF ChannelInv, TypeOK
<1>1. /\ caller[c].at = "read" /\ pooled # NoConn /\ pooled \in DOMAIN conn
      /\ conn[pooled].down # <<>>
      /\ conn' = [conn EXCEPT ![pooled].down = Tail(conn[pooled].down)]
      /\ UNCHANGED <<seqCounter, pooled, peerUp, failures, handled>>
  BY BasicTypes DEF ReadFrame, Reading
<1>2. holder = {c} /\ Open = {c}
  BY <1>1, OneHolder
<1>3. /\ NetLoses /\ DOMAIN conn' = DOMAIN conn /\ Len(conn') = Len(conn)
      /\ \A l \in DOMAIN conn : /\ conn'[l].reset = conn[l].reset
                                /\ conn'[l].theirs = conn[l].theirs
                                /\ conn'[l].mine = conn[l].mine
  BY <1>0, <1>1, ReadEdit
<1>4. frame \in Frames(conn[pooled]) /\ frame \in [seq : Nat, served : BOOLEAN]
  <2>1. conn[pooled].down \in Seq([seq : Nat, served : BOOLEAN])
    BY <1>0, <1>1, ConnFields
  <2>2. frame = conn[pooled].down[1] /\ 1 \in 1..Len(conn[pooled].down)
    BY <1>1, <2>1
  <2>3. frame \in [seq : Nat, served : BOOLEAN]
    <3> DEFINE x == conn[pooled].down
               S == [seq : Nat, served : BOOLEAN]
    <3>1. x \in Seq(S) /\ frame = x[1] /\ 1 \in 1..Len(x)
      BY <2>1, <2>2
    <3> HIDE DEF x, S, frame
    <3>2. frame \in S
      BY <3>1, ElementOfSeq
    <3> QED BY <3>2 DEF S
  <2> QED BY <2>2, <2>3 DEF Frames
<1>5. conn'[pooled'].mine /\ Debt \in 0..3 /\ Debt' \in 0..3
  BY <1>0, <1>1, <1>3, DebtType, DebtTypePrimed DEF Solvent
<1>6. \/ /\ mine /\ frame.served /\ caller' = [caller EXCEPT ![c] = Done]
         /\ holder' = holder \ {c} /\ answered' = answered \cup {caller[c].seq}
      \/ mine /\ ~frame.served /\ ReturnFailed(c) /\ UNCHANGED answered
      \/ ~mine /\ UNCHANGED <<caller, holder, answered>>
  BY DEF ReadFrame, Matches
<1> HIDE DEF frame
<1>7. CASE /\ mine /\ frame.served /\ caller' = [caller EXCEPT ![c] = Done]
           /\ holder' = holder \ {c} /\ answered' = answered \cup {caller[c].seq}
  <2>1. Goes(c, Done)
    BY <1>0, <1>1, <1>7, DoneRecord DEF Goes
  <2>2. Open' = {}
    BY <1>0, <1>2, <1>7, MovedSets, DoneRecord
  <2>3. Debt' <= Debt
    BY <1>1, <1>2, <1>3, <2>2, DebtPaid
  <2>4. handled[caller[c].seq] = 1
    BY <1>0, <1>1, <1>4, <1>7 DEF HandledOnce
  <2>5. Debt' + 3 * failures <= Debt + 3 * failures'
    BY <1>0, <1>1, <1>5, <2>3
  <2> QED BY <1>0, <1>1, <1>3, <1>5, <1>7, <2>1, <2>4, <2>5, ReadDone
<1>8. CASE mine /\ ~frame.served /\ ReturnFailed(c) /\ UNCHANGED answered
  <2>1. Goes(c, Idle)
    BY <1>0, <1>1, <1>8, ReturnGoes
  <2>2. Open' = {}
    BY <1>0, <1>2, <2>1, MovedSets, IdleRecord DEF Goes
  <2>3. frame = [seq |-> caller[c].seq, served |-> FALSE]
    BY <1>4, <1>8
  <2>4. c \in RefusedCalls
    BY <1>2, <1>4, <2>3 DEF RefusedCalls
  <2>5. Debt' <= Debt - 1
    BY <1>1, <1>2, <1>3, <2>2, <2>4, DebtPaid
  <2>6. Debt' + 3 * failures < Debt + 3 * failures'
    BY <1>0, <1>1, <1>5, <2>5
  <2> QED BY <1>0, <1>1, <1>3, <1>5, <1>8, <2>1, <2>6, ReadDone
<1>9. CASE ~mine /\ UNCHANGED <<caller, holder, answered>>
  <2>1. Open' = Open /\ Frames(conn'[pooled]) \subseteq Frames(conn[pooled])
    BY <1>1, <1>3, <1>9 DEF Open, NetLoses, Loses
  <2>2. Debt' <= Debt
    BY <1>1, <1>3, <1>9, <2>1, DebtKept
  <2>3. Cardinality(answered) \in Nat /\ Count(Open) \in {0, 1}
    BY AnsweredFinite, CountType
  <2>4. seqCounter' + Debt' <= Cardinality(answered') + Count(Open') + 3 * failures'
    <3>1. seqCounter + Debt <= Cardinality(answered) + Count(Open) + 3 * failures
      BY <1>0 DEF Solvent
    <3>2. seqCounter + Debt' <= Cardinality(answered) + Count(Open) + 3 * failures
      BY <1>0, <1>5, <2>2, <2>3, <3>1, StillSolvent
    <3> QED BY <1>0, <1>1, <1>9, <2>1, <3>2
  <2>5. Solvent'
    BY <1>0, <1>3, <1>5, <2>4 DEF Solvent
  <2>6. \A i \in answered' : handled[i] = 1
    BY <1>0, <1>9 DEF HandledOnce
  <2>7. HandledOnce'
    BY <1>0, <1>1, <1>3, <2>6, HandledKept
  <2>8. conn' \in Seq(ConnType) /\ pooled' \in 0..Len(conn')
    BY <1>0, <1>1, <1>3 DEF NetLoses
  <2> QED BY <1>0, <1>1, <1>9, <2>5, <2>7, <2>8, StepInv
<1> QED BY <1>6, <1>7, <1>8, <1>9

LEMMA CostsTypes ==
  ASSUME ChannelInv, Costs
  PROVE  failures' \in 0..MaxFailures /\ failures' = failures + 1 /\ failures \in Nat
<1>1. failures \in Nat /\ MaxFailures \in Nat
  BY BasicTypes
<1> QED BY <1>1 DEF Costs

LEMMA ReadNothingInv ==
  ASSUME ChannelInv, NEW c \in Caller, ReadNothing(c)
  PROVE  ChannelInv'
<1>0. /\ caller \in [Caller -> [at : Place, seq : Nat]] /\ seqCounter \in Nat /\ failures \in Nat
      /\ failures \in 0..MaxFailures /\ conn \in Seq(ConnType) /\ Solvent
      /\ pooled \in 0..Len(conn)
  BY BasicTypes DEF ChannelInv, TypeOK
<1>1. /\ caller[c].at = "read" /\ pooled # NoConn /\ pooled \in DOMAIN conn
      /\ UNCHANGED <<seqCounter, pooled, conn, peerUp, handled, answered>> /\ ReturnFailed(c)
      /\ Costs \/ (~conn[pooled].theirs /\ UNCHANGED failures)
  BY BasicTypes DEF ReadNothing, Reading, netVars, history
<1>2. Open = {c} /\ Goes(c, Idle)
  BY <1>0, <1>1, OneHolder, ReturnGoes
<1>3. Open' = {}
  BY <1>0, <1>2, MovedSets, IdleRecord DEF Goes
<1>4. Debt' <= Debt /\ (~conn[pooled].theirs => Debt' <= Debt - 1)
  BY <1>1, <1>2, <1>3, DebtPaid
<1>5. Debt \in 0..3 /\ Debt' \in 0..3
  BY DebtType, DebtTypePrimed
<1>6. failures' \in 0..MaxFailures /\ Debt' + 3 * failures < Debt + 3 * failures'
  <2>1. CASE Costs
    BY <1>4, <1>5, <2>1, CostsTypes
  <2>2. CASE ~conn[pooled].theirs /\ UNCHANGED failures
    <3>1. Debt' <= Debt - 1
      BY <1>4, <2>2
    <3>2. failures' = failures
      BY <2>2
    <3> QED BY <1>0, <1>5, <3>1, <3>2, Saved
  <2> QED BY <1>1, <2>1, <2>2
<1>7. NetLoses
  BY <1>0, <1>1, SameConn
<1>8. conn'[pooled'].mine
  BY <1>0, <1>1 DEF Solvent
<1> QED BY <1>0, <1>1, <1>2, <1>6, <1>7, <1>8, ReadDone

LEMMA ReadGarbledInv ==
  ASSUME ChannelInv, NEW c \in Caller, ReadGarbled(c)
  PROVE  ChannelInv'
<1>0. /\ seqCounter \in Nat /\ conn \in Seq(ConnType) /\ Len(conn) \in Nat
  BY BasicTypes
<1>1. /\ caller[c].at = "read" /\ pooled # NoConn /\ pooled \in DOMAIN conn
      /\ UNCHANGED <<seqCounter, peerUp, handled, answered>> /\ ReturnFailed(c)
      /\ Costs /\ Retire(pooled)
  BY BasicTypes DEF ReadGarbled, Reading, history
<1>2. Goes(c, Idle)
  BY <1>0, <1>1, ReturnGoes
<1>3. PICK heard \in BOOLEAN : conn' = Closed(pooled, heard) /\ pooled' = NoConn
  BY <1>1 DEF Retire
<1>4. /\ NetLoses /\ Len(conn') = Len(conn)
      /\ \A l \in DOMAIN conn : conn'[l].reset = conn[l].reset
                                /\ conn'[l].theirs = conn[l].theirs
  BY <1>0, <1>1, <1>3, ClosedEdit
<1>5. Debt' = 0 /\ Debt \in 0..3 /\ pooled' \in 0..Len(conn)
  BY <1>0, <1>3, DebtType DEF Debt, NoConn
<1>6. failures' \in 0..MaxFailures /\ Debt' + 3 * failures < Debt + 3 * failures'
  BY <1>1, <1>5, CostsTypes
<1> QED BY <1>1, <1>2, <1>3, <1>4, <1>5, <1>6, ReadDone

(***************************************************************************)
(* The steps of the peer and of the network.  One that costs nothing       *)
(* leaves the debt as it is; one that counts as a failure pays for any.    *)
(***************************************************************************)
LEMMA NetStep ==
  ASSUME ChannelInv, UNCHANGED <<caller, holder, seqCounter, pooled, answered>>,
         conn' \in Seq(ConnType), Len(conn') = Len(conn), peerUp' \in BOOLEAN,
         handled' \in [1..MaxCalls -> Nat], HandledOnce',
         \A k \in DOMAIN conn : conn'[k].mine = conn[k].mine,
         \A k \in DOMAIN conn : conn'[k].reset => ~conn'[k].theirs,
         Costs \/ (UNCHANGED failures /\ Debt' <= Debt)
  PROVE  ChannelInv'
<1>0. /\ seqCounter \in Nat /\ failures \in 0..MaxFailures /\ conn \in Seq(ConnType) /\ Solvent
      /\ DOMAIN conn = 1..Len(conn) /\ pooled \in 0..Len(conn) /\ failures \in Nat
      /\ pooled # NoConn => pooled \in DOMAIN conn
  BY BasicTypes DEF ChannelInv, TypeOK
<1>1. Open' = Open /\ DOMAIN conn' = DOMAIN conn
  BY <1>0 DEF Open
<1>2. /\ Debt \in 0..3 /\ Debt' \in 0..3 /\ Cardinality(answered) \in Nat /\ Count(Open) \in {0, 1}
      /\ seqCounter + Debt <= Cardinality(answered) + Count(Open) + 3 * failures
  BY <1>0, DebtType, DebtTypePrimed, AnsweredFinite, CountType DEF Solvent
<1>3. /\ failures' \in 0..MaxFailures
      /\ seqCounter + Debt' <= Cardinality(answered) + Count(Open) + 3 * failures'
  <2>1. CASE Costs
    <3>1. failures' \in 0..MaxFailures /\ failures' = failures + 1
      BY <2>1, CostsTypes
    <3> QED BY <1>0, <1>2, <3>1, FailurePays
  <2>2. CASE UNCHANGED failures /\ Debt' <= Debt
    BY <1>0, <1>2, <2>2
  <2> QED BY <2>1, <2>2
<1>4. seqCounter' + Debt' <= Cardinality(answered') + Count(Open') + 3 * failures'
  BY <1>1, <1>3
<1>5. Solvent'
  <2>1. pooled' # NoConn => conn'[pooled'].mine
    BY <1>0 DEF Solvent
  <2> QED BY <1>1, <1>4, <2>1 DEF Solvent
<1> QED BY <1>0, <1>3, <1>5, StepInv

LEMMA HandledStays ==
  ASSUME ChannelInv, NetLoses, UNCHANGED <<seqCounter, handled, answered>>
  PROVE  HandledOnce' /\ handled' \in [1..MaxCalls -> Nat] /\ conn' \in Seq(ConnType)
<1>1. /\ seqCounter \in Nat /\ handled \in [1..MaxCalls -> Nat]
      /\ \A i \in answered : handled[i] = 1
  BY BasicTypes DEF ChannelInv, HandledOnce
<1> QED BY <1>1, HandledKept DEF NetLoses

LEMMA ReceiveInv ==
  ASSUME ChannelInv, NEW k \in DOMAIN conn, Receive(k)
  PROVE  ChannelInv'
<1>0. conn \in Seq(ConnType) /\ Solvent /\ peerUp \in BOOLEAN /\ (pooled # NoConn => pooled \in DOMAIN conn)
  BY BasicTypes DEF ChannelInv, TypeOK
<1>1. UNCHANGED <<caller, holder, seqCounter, pooled, peerUp, failures, handled, answered>>
  BY DEF Receive, callVars, history
<1>2. /\ NetLoses /\ Len(conn') = Len(conn)
      /\ \A l \in DOMAIN conn : /\ conn'[l].reset = conn[l].reset
                                /\ conn'[l].theirs = conn[l].theirs
                                /\ conn'[l].mine = conn[l].mine
  BY <1>0, ReceiveEdit
<1>3. Open' = Open
  BY <1>1 DEF Open
<1>4. pooled # NoConn => Frames(conn'[pooled]) \subseteq Frames(conn[pooled])
  BY <1>0, <1>2 DEF NetLoses, Loses
<1>5. Debt' <= Debt
  BY <1>0, <1>1, <1>2, <1>3, <1>4, DebtKept
<1>6. \A l \in DOMAIN conn : conn'[l].reset => ~conn'[l].theirs
  BY <1>0, <1>2 DEF Solvent
<1> QED BY <1>0, <1>1, <1>2, <1>5, <1>6, HandledStays, NetStep

LEMMA KillsInv ==
  ASSUME ChannelInv, NEW k \in DOMAIN conn, Kills(k),
         UNCHANGED <<caller, holder, seqCounter, pooled, peerUp, answered>>,
         handled' \in [1..MaxCalls -> Nat], HandledOnce',
         Costs \/ (UNCHANGED failures /\ ~conn[k].mine)
  PROVE  ChannelInv'
<1>0. conn \in Seq(ConnType) /\ Solvent /\ peerUp \in BOOLEAN /\ (pooled # NoConn => pooled \in DOMAIN conn)
  BY BasicTypes DEF ChannelInv, TypeOK
<1>1. /\ conn' \in Seq(ConnType) /\ Len(conn') = Len(conn) /\ conn'[k].theirs = FALSE
      /\ conn'[k].mine = conn[k].mine /\ \A l \in DOMAIN conn \ {k} : conn'[l] = conn[l]
  BY DEF Kills, NetLoses
<1>2. \A l \in DOMAIN conn : conn'[l].reset => ~conn'[l].theirs
  BY <1>0, <1>1 DEF Solvent
<1>3. ASSUME ~conn[k].mine PROVE Debt' <= Debt
  <2>1. pooled # NoConn => pooled \in DOMAIN conn \ {k}
    BY <1>0, <1>3 DEF Solvent
  <2>2. Open' = Open
    BY DEF Open
  <2> QED BY <1>1, <2>1, <2>2, DebtKept
<1> QED BY <1>0, <1>1, <1>2, <1>3, NetStep

LEMMA HangUpInv ==
  ASSUME ChannelInv, NEW k \in DOMAIN conn, HangUp(k) \/ Break(k)
  PROVE  ChannelInv'
<1>1. Kills(k)
  BY BasicTypes, HangUpEdit, BreakEdit
<1>2. /\ UNCHANGED <<caller, holder, seqCounter, pooled, peerUp, handled, answered>>
      /\ Costs \/ (UNCHANGED failures /\ ~conn[k].mine)
  BY DEF HangUp, Break, callVars, history
<1>3. HandledOnce' /\ handled' \in [1..MaxCalls -> Nat]
  BY <1>1, <1>2, HandledStays DEF Kills
<1> QED BY <1>1, <1>2, <1>3, KillsInv

LEMMA ReplyInv ==
  ASSUME ChannelInv, NEW k \in DOMAIN conn, NEW seq \in conn[k].busy, NEW served \in BOOLEAN,
         Reply(k, seq, served), UNCHANGED <<caller, holder, seqCounter, pooled, peerUp, answered>>,
         handled' = IF served THEN [handled EXCEPT ![seq] = @ + 1] ELSE handled,
         Costs \/ (UNCHANGED failures /\ served)
  PROVE  ChannelInv'
<1> DEFINE f == [seq |-> seq, served |-> served]
<1>0. conn \in Seq(ConnType) /\ Solvent /\ peerUp \in BOOLEAN /\ (pooled # NoConn => pooled \in DOMAIN conn)
      /\ handled \in [1..MaxCalls -> Nat]
  BY BasicTypes DEF ChannelInv, TypeOK
<1>1. HandledOnce'
  BY HandledReply
<1>2. handled' \in [1..MaxCalls -> Nat]
  <2>1. CASE seq \in 1..MaxCalls
    <3>1. handled[seq] + 1 \in Nat
      BY <1>0, <2>1
    <3> QED BY <1>0, <3>1
  <2>2. CASE seq \notin 1..MaxCalls
    BY <1>0, <2>2
  <2> QED BY <2>1, <2>2
<1>3. seq \in Nat
  BY <1>0, ConnFields
<1>4. CASE Answers(k, f)
  <2>1. /\ conn' \in Seq(ConnType) /\ Len(conn') = Len(conn)
        /\ \A l \in DOMAIN conn : /\ conn'[l].reset = conn[l].reset
                                  /\ conn'[l].theirs = conn[l].theirs
                                  /\ conn'[l].mine = conn[l].mine
                                  /\ Frames(conn'[l]) \subseteq Frames(conn[l]) \cup {f}
    BY <1>4 DEF Answers
  <2>2. \A l \in DOMAIN conn : conn'[l].reset => ~conn'[l].theirs
    BY <1>0, <2>1 DEF Solvent
  <2>3. ASSUME served PROVE Debt' <= Debt
    <3>1. CASE pooled = NoConn
      BY <3>1 DEF Debt, NoConn
    <3>2. CASE pooled # NoConn
      <4>1. /\ pooled \in DOMAIN conn /\ conn'[pooled].theirs = conn[pooled].theirs
            /\ conn'[pooled].reset = conn[pooled].reset
        BY <1>0, <2>1, <3>2
      <4>2. \A n : [seq |-> n, served |-> FALSE] # f
        BY <2>3
      <4> HIDE DEF f
      <4>3. Open' = Open
        BY DEF Open
      <4>4. RefusedCalls' \subseteq RefusedCalls
        BY <2>1, <4>1, <4>2, <4>3 DEF RefusedCalls
      <4>5. Count(RefusedCalls') <= Count(RefusedCalls)
        BY <4>4 DEF Count
      <4> QED BY <3>2, <4>1, <4>3, <4>5, CountType DEF Debt
    <3> QED BY <3>1, <3>2
  <2> QED BY <1>0, <1>1, <1>2, <2>1, <2>2, <2>3, NetStep
<1>5. CASE Kills(k) /\ ~conn[k].mine
  BY <1>1, <1>2, <1>5, KillsInv
<1> QED BY <1>0, <1>3, <1>4, <1>5, ReplyEdit

LEMMA ServeInv ==
  ASSUME ChannelInv, NEW k \in DOMAIN conn, Serve(k) \/ Refuse(k)
  PROVE  ChannelInv'
<1>1. CASE Serve(k)
  <2>1. PICK seq \in conn[k].busy :
          handled' = [handled EXCEPT ![seq] = @ + 1] /\ Reply(k, seq, TRUE)
    BY <1>1 DEF Serve
  <2>2. UNCHANGED <<caller, holder, seqCounter, pooled, peerUp, failures, answered>>
    BY <1>1 DEF Serve, callVars
  <2> QED BY <2>1, <2>2, ReplyInv
<1>2. CASE Refuse(k)
  <2>1. PICK seq \in conn[k].busy : Reply(k, seq, FALSE)
    BY <1>2 DEF Refuse
  <2>2. UNCHANGED <<caller, holder, seqCounter, pooled, peerUp, handled, answered>> /\ Costs
    BY <1>2 DEF Refuse, callVars, history
  <2> QED BY <2>1, <2>2, ReplyInv
<1> QED BY <1>1, <1>2

LEMMA PeerInv ==
  ASSUME ChannelInv, PeerExits \/ PeerStarts
  PROVE  ChannelInv'
<1>0. conn \in Seq(ConnType) /\ Solvent /\ peerUp \in BOOLEAN /\ (pooled # NoConn => pooled \in DOMAIN conn)
  BY BasicTypes DEF ChannelInv, TypeOK
<1>1. UNCHANGED <<caller, holder, seqCounter, pooled, handled, answered>> /\ peerUp' \in BOOLEAN
  BY DEF PeerExits, PeerStarts, callVars, history
<1>2. CASE PeerExits
  <2>1. /\ NetLoses /\ Len(conn') = Len(conn)
        /\ \A k \in DOMAIN conn : conn'[k].theirs = FALSE /\ conn'[k].mine = conn[k].mine
    BY <1>0, <1>2, PeerExitsEdit
  <2>2. Costs
    BY <1>2 DEF PeerExits
  <2>3. \A k \in DOMAIN conn : conn'[k].reset => ~conn'[k].theirs
    BY <2>1
  <2> QED BY <1>1, <2>1, <2>2, <2>3, HandledStays, NetStep
<1>3. CASE PeerStarts
  <2>1. UNCHANGED <<conn, failures>>
    BY <1>3 DEF PeerStarts
  <2>2. NetLoses
    BY <1>0, <2>1, SameConn
  <2>3. Open' = Open
    BY <1>1 DEF Open
  <2>4. Debt' <= Debt
    BY <1>1, <2>1, <2>3, DebtKept
  <2> QED BY <1>0, <1>1, <2>1, <2>2, <2>4, HandledStays, NetStep DEF Solvent
<1> QED BY <1>2, <1>3

(***************************************************************************)
(* The invariant holds.                                                    *)
(***************************************************************************)
LEMMA ChannelInit ==
  ASSUME Init
  PROVE  ChannelInv
<1>1. MaxCalls \in Nat /\ MaxFailures \in Nat
  BY CallerAssumption, FailureAssumption, FS_CardinalityType DEF MaxCalls
<1>2. conn = <<>> /\ DOMAIN conn = {} /\ Len(conn) = 0 /\ conn \in Seq(ConnType)
  BY DEF Init
<1>3. /\ caller \in [Caller -> [at : Place, seq : 0..MaxCalls]]
      /\ \A c \in Caller : caller[c].at = "idle"
  BY <1>1 DEF Init, Idle, Place
<1>4. Open = {} /\ Finished = {} /\ Count(Open) = 0 /\ Debt = 0
  BY <1>3 DEF Open, Finished, Count, Debt, Init
<1>5. Cardinality(Finished) = 0 /\ Cardinality(answered) = 0
  BY <1>4, FS_EmptySet DEF Init
<1>6. TypeOK
  BY <1>1, <1>2, <1>3 DEF TypeOK, Init, NoConn, Place
<1>7. Serialised
  BY <1>3, <1>4, <1>5 DEF Serialised, Init
<1>8. HandledOnce
  BY <1>1, <1>2 DEF HandledOnce, Init
<1>9. Solvent
  BY <1>2, <1>4, <1>5 DEF Solvent, Init
<1> QED BY <1>2, <1>6, <1>7, <1>8, <1>9 DEF ChannelInv

LEMMA ChannelStep ==
  ASSUME ChannelInv, [Next]_vars
  PROVE  ChannelInv'
<1>1. CASE UNCHANGED vars
  <2>1. UNCHANGED <<caller, holder, seqCounter, pooled, conn, peerUp, failures, handled, answered>>
    BY <1>1 DEF vars, callVars, netVars, history
  <2> QED BY <2>1 DEF ChannelInv, TypeOK, Serialised, HandledOnce, Solvent, Open, Finished,
                  RefusedCalls, Debt
<1>2. ASSUME NEW c \in Caller, CallerStep(c) PROVE ChannelInv'
  BY <1>2, CallInv, ConnectInv, WriteInv, ReadFrameInv, ReadNothingInv, ReadGarbledInv
     DEF CallerStep
<1>3. ASSUME NEW k \in DOMAIN conn, ServerStep(k) \/ Break(k) PROVE ChannelInv'
  BY <1>3, ReceiveInv, ServeInv, HangUpInv DEF ServerStep
<1> QED BY <1>1, <1>2, <1>3, PeerInv DEF Next

LEMMA ChannelAlways == Spec => []ChannelInv
  BY ChannelInit, ChannelStep, PTL DEF Spec

\* RpcChannel keeps its types: sequence numbers stay within MaxCalls, so the
\* bound on the calls restricts nothing.
THEOREM ChannelTypes == Spec => []TypeOK
<1>1. ChannelInv => TypeOK
  BY DEF ChannelInv
<1> QED BY <1>1, ChannelAlways, PTL

\* A failure costs at most three calls, whatever was on the way when it
\* happened: DoRpc may keep the connection after an empty read.
THEOREM CheapFailures == Spec => []FailuresAreCheap
<1>1. ASSUME ChannelInv PROVE FailuresAreCheap
  <2>1. /\ seqCounter \in Nat /\ failures \in Nat /\ holder \subseteq Caller /\ Solvent /\ Serialised
    BY <1>1, BasicTypes DEF ChannelInv
  <2>2. IsFiniteSet(holder) /\ Cardinality(holder) \in Nat
    BY <2>1, CallerAssumption, FS_Subset, FS_CardinalityType
  <2>3. Count(Open) <= Cardinality(holder) /\ Count(Open) \in {0, 1}
    <3>1. CASE Open = {}
      BY <2>2, <3>1 DEF Count
    <3>2. CASE Open # {}
      <4>1. holder # {}
        BY <2>1, <3>2 DEF Open, Serialised
      <4>2. Cardinality(holder) # 0
        BY <2>2, <4>1, FS_EmptySet
      <4> QED BY <2>2, <3>2, <4>2 DEF Count
    <3> QED BY <3>1, <3>2
  <2>4. /\ Debt \in 0..3 /\ Cardinality(answered) \in Nat
        /\ seqCounter + Debt <= Cardinality(answered) + Count(Open) + 3 * failures
    BY <1>1, <2>1, DebtType, AnsweredFinite DEF Solvent
  <2> QED BY <2>1, <2>2, <2>3, <2>4 DEF FailuresAreCheap
<1> QED BY <1>1, ChannelAlways, PTL

(***************************************************************************)
(* The refinement: a step of the channel is a step of Rpc, or none.        *)
(***************************************************************************)
Reader(i) == \E c \in Open : caller[c].seq = i

\* What Rpc sees of a call, and of the calls after a step.
LEMMA StatusDef ==
  ASSUME ChannelInv
  PROVE  CallStatus = [i \in 1..MaxCalls |->
           IF i > seqCounter THEN "new" ELSE IF Reader(i) THEN "open"
           ELSE IF i \in answered THEN "answered" ELSE "failed"]
<1>1. ASSUME NEW i
      PROVE  (\E c \in Caller : caller[c] = [at |-> "read", seq |-> i]) <=> Reader(i)
  <2>1. caller \in [Caller -> [at : Place, seq : Nat]]
    BY BasicTypes
  <2>2. \A c \in Caller : caller[c] = [at |-> "read", seq |-> i]
                            <=> caller[c].at = "read" /\ caller[c].seq = i
    BY <2>1
  <2> QED BY <2>2 DEF Reader, Open
<1> QED BY <1>1 DEF CallStatus

LEMMA StatusDefPrimed ==
  ASSUME ChannelInv'
  PROVE  CallStatus' = [i \in 1..MaxCalls |->
           IF i > seqCounter' THEN "new" ELSE IF Reader(i)' THEN "open"
           ELSE IF i \in answered' THEN "answered" ELSE "failed"]
<1>1. ASSUME NEW i
      PROVE  (\E c \in Caller : caller'[c] = [at |-> "read", seq |-> i]) <=> Reader(i)'
  <2>1. caller' \in [Caller -> [at : Place, seq : 0..MaxCalls]]
    BY DEF ChannelInv, TypeOK, Place
  <2>2. \A c \in Caller : caller'[c] = [at |-> "read", seq |-> i]
                            <=> caller'[c].at = "read" /\ caller'[c].seq = i
    BY <2>1
  <2> QED BY <2>2 DEF Reader, Open
<1> QED BY <1>1 DEF CallStatus

LEMMA SameStatus ==
  ASSUME ChannelInv, ChannelInv', UNCHANGED <<seqCounter, answered>>,
         Open' = Open, \A c \in Open : caller'[c] = caller[c]
  PROVE  UNCHANGED CallStatus
<1>1. \A i : Reader(i)' <=> Reader(i)
  BY DEF Reader
<1> QED BY <1>1, StatusDef, StatusDefPrimed

\* Only call n changes, and becomes v.
LEMMA OneStatus ==
  ASSUME ChannelInv, ChannelInv', NEW n \in 1..MaxCalls, NEW v,
         \A i \in 1..MaxCalls \ {n} : /\ i > seqCounter' <=> i > seqCounter
                                      /\ Reader(i)' <=> Reader(i)
                                      /\ i \in answered' <=> i \in answered,
         n <= seqCounter', n \in Nat, seqCounter' \in Nat,
         v = IF Reader(n)' THEN "open" ELSE IF n \in answered' THEN "answered" ELSE "failed"
  PROVE  CallStatus' = [CallStatus EXCEPT ![n] = v]
<1>1. CallStatus'[n] = v
  <2>1. ~(n > seqCounter')
    OBVIOUS
  <2> QED BY <2>1, StatusDefPrimed
<1>2. \A i \in 1..MaxCalls \ {n} : CallStatus'[i] = CallStatus[i]
  BY StatusDef, StatusDefPrimed
<1>3. /\ CallStatus = [i \in 1..MaxCalls |-> CallStatus[i]]
      /\ CallStatus' = [i \in 1..MaxCalls |-> CallStatus'[i]]
  BY StatusDef, StatusDefPrimed
<1> HIDE DEF CallStatus
<1> QED BY <1>1, <1>2, <1>3

LEMMA WriteImplements ==
  ASSUME ChannelInv, ChannelInv', NEW c \in Caller, Write(c)
  PROVE  Abstract!Next
<1>0. PICK n : n = seqCounter + 1
  OBVIOUS
<1>1. /\ caller[c].at = "have" /\ seqCounter' = n /\ UNCHANGED <<handled, answered>>
      /\ \/ caller' = [caller EXCEPT ![c] = [at |-> "read", seq |-> n]]
         \/ caller' = [caller EXCEPT ![c] = Idle]
  BY <1>0 DEF Write, NextSeq, ReturnFailed, history
<1>2. /\ seqCounter \in Nat /\ n \in Nat /\ n \in 1..MaxCalls /\ n > seqCounter
      /\ caller \in [Caller -> [at : Place, seq : Nat]]
      /\ answered \subseteq 1..seqCounter /\ n \notin 1..seqCounter
  <2>1. seqCounter' \in 0..MaxCalls
    BY DEF ChannelInv, TypeOK
  <2> QED BY <1>0, <1>1, <2>1, BasicTypes
<1>3. \A i \in 1..MaxCalls \ {n} : i > n <=> i > seqCounter
  BY <1>0, <1>2
<1>4. Open = {}
  BY <1>1, OneHolder
<1>5. CallStatus[n] = "new"
  BY <1>2, StatusDef
<1>6. CASE caller' = [caller EXCEPT ![c] = [at |-> "read", seq |-> n]]
  <2> DEFINE r == [at |-> "read", seq |-> n]
  <2>1. r.at = "read" /\ r.seq = n /\ caller' = [caller EXCEPT ![c] = r]
    BY <1>6
  <2> HIDE DEF r
  <2>2. Open' = {c} /\ caller'[c].seq = n
    BY <1>2, <1>4, <2>1, MovedSets
  <2>3. Reader(n)' /\ \A i : i # n => (Reader(i)' <=> Reader(i))
    BY <1>4, <2>2 DEF Reader
  <2>4. CallStatus' = [CallStatus EXCEPT ![n] = "open"]
    BY <1>1, <1>2, <1>3, <2>3, OneStatus
  <2>5. Abstract!Begin(n)
    BY <1>1, <1>5, <2>4 DEF Abstract!Begin
  <2> QED BY <1>2, <2>5 DEF Abstract!Next, Abstract!Calls
<1>7. CASE caller' = [caller EXCEPT ![c] = Idle]
  <2>2. Open' = {}
    BY <1>2, <1>4, <1>7, MovedSets, IdleRecord
  <2>3. ~Reader(n)' /\ \A i : Reader(i)' <=> Reader(i)
    BY <1>4, <2>2 DEF Reader
  <2>4. CallStatus' = [CallStatus EXCEPT ![n] = "failed"]
    BY <1>1, <1>2, <1>3, <2>3, OneStatus
  <2>5. Abstract!Fail(n)
    BY <1>1, <1>5, <2>4 DEF Abstract!Fail
  <2> QED BY <1>2, <2>5 DEF Abstract!Next, Abstract!Calls
<1> QED BY <1>1, <1>6, <1>7

\* The call that was read for ends: answered, or failed.
LEMMA ReadImplements ==
  ASSUME ChannelInv, ChannelInv', NEW c \in Caller, caller[c].at = "read",
         UNCHANGED <<seqCounter, handled>>,
         \/ caller' = [caller EXCEPT ![c] = Idle] /\ UNCHANGED answered
         \/ /\ caller' = [caller EXCEPT ![c] = Done] /\ handled[caller[c].seq] = 1
            /\ answered' = answered \cup {caller[c].seq}
  PROVE  Abstract!Next
<1>0. PICK n : n = caller[c].seq
  OBVIOUS
<1>1. Open = {c} /\ Serialised /\ seqCounter \in Nat /\ MaxCalls \in Nat /\ seqCounter <= MaxCalls
      /\ caller \in [Caller -> [at : Place, seq : Nat]]
  BY OneHolder, BasicTypes DEF ChannelInv
<1>2. n \in 1..seqCounter /\ n \notin answered /\ n \in Nat /\ n <= seqCounter /\ n \in 1..MaxCalls
  <2>1. n \in 1..seqCounter /\ n \notin answered
    BY <1>0, <1>1 DEF Serialised
  <2> QED BY <1>1, <2>1
<1>3. Open' = {}
  BY <1>1, MovedSets, IdleRecord, DoneRecord
<1>4. Reader(n) /\ ~Reader(n)' /\ \A i : i # n => (Reader(i)' <=> Reader(i))
  BY <1>0, <1>1, <1>3 DEF Reader
<1>5. CallStatus[n] = "open"
  BY <1>1, <1>2, <1>4, StatusDef
<1>6. CASE UNCHANGED answered
  <2>1. CallStatus' = [CallStatus EXCEPT ![n] = "failed"]
    BY <1>1, <1>2, <1>4, <1>6, OneStatus
  <2>2. Abstract!Fail(n)
    BY <1>5, <2>1 DEF Abstract!Fail
  <2> QED BY <1>2, <2>2 DEF Abstract!Next, Abstract!Calls
<1>7. CASE handled[n] = 1 /\ answered' = answered \cup {n}
  <2>1. CallStatus' = [CallStatus EXCEPT ![n] = "answered"]
    BY <1>1, <1>2, <1>4, <1>7, OneStatus
  <2>2. Abstract!Answer(n)
    BY <1>5, <1>7, <2>1 DEF Abstract!Answer
  <2> QED BY <1>2, <2>2 DEF Abstract!Next, Abstract!Calls
<1> QED BY <1>0, <1>6, <1>7

LEMMA ReadFrameImplements ==
  ASSUME ChannelInv, ChannelInv', NEW c \in Caller, ReadFrame(c)
  PROVE  Abstract!Next \/ UNCHANGED <<CallStatus, handled>>
<1> DEFINE frame == Head(conn[pooled].down)
           mine  == frame.seq = caller[c].seq
<1>1. /\ caller[c].at = "read" /\ conn[pooled].down # <<>> /\ pooled \in DOMAIN conn
      /\ UNCHANGED <<seqCounter, handled>>
      /\ \/ /\ mine /\ frame.served /\ caller' = [caller EXCEPT ![c] = Done]
            /\ answered' = answered \cup {caller[c].seq}
         \/ caller' = [caller EXCEPT ![c] = Idle] /\ UNCHANGED answered
         \/ UNCHANGED <<caller, answered>>
  BY BasicTypes DEF ReadFrame, Reading, Matches, ReturnFailed
<1>2. frame \in Frames(conn[pooled])
  <2>1. conn[pooled].down \in Seq([seq : Nat, served : BOOLEAN])
    BY <1>1, BasicTypes, ConnFields
  <2>2. frame = conn[pooled].down[1] /\ 1 \in 1..Len(conn[pooled].down)
    BY <1>1, <2>1
  <2> QED BY <2>2 DEF Frames
<1> HIDE DEF frame
<1>3. mine /\ frame.served => handled[caller[c].seq] = 1
  BY <1>1, <1>2 DEF ChannelInv, HandledOnce
<1>4. CASE UNCHANGED <<caller, answered>>
  BY <1>1, <1>4, SameStatus DEF Open
<1> QED BY <1>1, <1>3, <1>4, ReadImplements

LEMMA ServeImplements ==
  ASSUME ChannelInv, ChannelInv', NEW k \in DOMAIN conn, Serve(k)
  PROVE  Abstract!Next
<1>1. PICK seq \in conn[k].busy : handled' = [handled EXCEPT ![seq] = @ + 1]
  BY DEF Serve
<1>2. UNCHANGED <<caller, seqCounter, answered>>
  BY DEF Serve, callVars
<1>3. /\ seqCounter \in Nat /\ MaxCalls \in Nat /\ seqCounter <= MaxCalls /\ HandledOnce
      /\ handled \in [1..MaxCalls -> Nat]
  BY BasicTypes DEF ChannelInv
<1>4. seq \in 1..seqCounter /\ handled[seq] = 0
  <2>1. seq \in Waiting(conn[k])
    BY DEF Waiting
  <2> QED BY <1>3, <2>1 DEF HandledOnce
<1>5. seq \notin answered /\ seq \in 1..MaxCalls /\ ~(seq > seqCounter)
  BY <1>3, <1>4 DEF HandledOnce
<1>6. CallStatus[seq] \in {"open", "failed"}
  BY <1>5, StatusDef
<1>7. UNCHANGED CallStatus
  BY <1>2, SameStatus DEF Open
<1>8. handled' = [handled EXCEPT ![seq] = 1]
  BY <1>1, <1>3, <1>4, <1>5
<1>9. Abstract!Handle(seq)
  BY <1>4, <1>6, <1>7, <1>8 DEF Abstract!Handle
<1> QED BY <1>5, <1>9 DEF Abstract!Next, Abstract!Calls

LEMMA ImplementsStep ==
  ASSUME ChannelInv, ChannelInv', [Next]_vars
  PROVE  Abstract!Next \/ UNCHANGED <<CallStatus, handled>>
<1>1. ASSUME UNCHANGED <<caller, seqCounter, answered, handled>>
      PROVE  UNCHANGED <<CallStatus, handled>>
  BY <1>1, SameStatus DEF Open
<1>2. CASE UNCHANGED vars
  BY <1>1, <1>2 DEF vars, callVars, history
<1>3. ASSUME NEW c \in Caller, Call(c) \/ Lock(c) \/ Connect(c)
      PROVE  UNCHANGED <<CallStatus, handled>>
  <2>1. /\ caller[c].at # "read" /\ UNCHANGED <<seqCounter, answered, handled>>
    BY <1>3 DEF Call, Lock, Connect, Idle, history
  <2>2. caller \in [Caller -> [at : Place, seq : Nat]] /\ caller[c] \in [at : Place, seq : Nat]
    BY BasicTypes
  <2>3. UNCHANGED caller \/ \E r : caller' = [caller EXCEPT ![c] = r] /\ r.at # "read"
    <3>1. CASE Call(c)
      <4>1. [caller[c] EXCEPT !.at = "wait"].at # "read"
        BY <2>2
      <4> QED BY <3>1, <4>1 DEF Call
    <3>2. CASE Lock(c)
      <4>1. [caller[c] EXCEPT !.at = "have"].at # "read"
        BY <2>2
      <4> QED BY <3>2, <4>1 DEF Lock
    <3>3. CASE Connect(c)
      BY <3>3, IdleRecord DEF Connect, ReturnFailed
    <3> QED BY <1>3, <3>1, <3>2, <3>3
  <2>4. Open' = Open /\ \A d \in Open : caller'[d] = caller[d]
    <3>1. CASE UNCHANGED caller
      BY <3>1 DEF Open
    <3>2. ASSUME NEW r, caller' = [caller EXCEPT ![c] = r], r.at # "read"
          PROVE  Open' = Open /\ \A d \in Open : caller'[d] = caller[d]
      BY <2>1, <2>2, <3>2, MovedSets DEF Open
    <3> QED BY <2>3, <3>1, <3>2
  <2> QED BY <2>1, <2>4, SameStatus
<1>4. ASSUME NEW c \in Caller, ReadNothing(c) \/ ReadGarbled(c) PROVE Abstract!Next
  <2>1. /\ caller[c].at = "read" /\ UNCHANGED <<seqCounter, handled, answered>>
        /\ caller' = [caller EXCEPT ![c] = Idle]
    BY <1>4 DEF ReadNothing, ReadGarbled, Reading, ReturnFailed, history
  <2> QED BY <2>1, ReadImplements
<1>5. ASSUME NEW k \in DOMAIN conn, Receive(k) \/ Refuse(k) \/ HangUp(k) \/ Break(k)
      PROVE  UNCHANGED <<CallStatus, handled>>
  BY <1>1, <1>5 DEF Receive, Refuse, HangUp, Break, callVars, history
<1>6. CASE PeerExits \/ PeerStarts
  BY <1>1, <1>6 DEF PeerExits, PeerStarts, callVars, history
<1> QED BY <1>2, <1>3, <1>4, <1>5, <1>6, WriteImplements, ReadFrameImplements, ServeImplements
        DEF Next, CallerStep, ServerStep

\* The channel implements Rpc: whatever is late, lost or retried, an answer
\* belongs to its call and no request is handled twice.
THEOREM ChannelImplementsRpc == Spec => ImplementsRpc
<1>1. Init => Abstract!Init
  <2> SUFFICES ASSUME Init PROVE Abstract!Init
    OBVIOUS
  <2>1. seqCounter = 0 /\ handled = [i \in 1..MaxCalls |-> 0]
    BY DEF Init
  <2>2. \A i \in 1..MaxCalls : i > seqCounter
    <3>1. MaxCalls \in Nat
      BY CallerAssumption, FailureAssumption, FS_CardinalityType DEF MaxCalls
    <3> QED BY <2>1, <3>1
  <2>3. CallStatus = [i \in 1..MaxCalls |-> "new"]
    BY <2>2 DEF CallStatus
  <2> QED BY <2>1, <2>3 DEF Abstract!Init, Abstract!Calls
<1>2. ChannelInv /\ ChannelInv' /\ [Next]_vars => [Abstract!Next]_(Abstract!vars)
  BY ImplementsStep DEF Abstract!vars
<1> QED BY <1>1, <1>2, ChannelAlways, PTL DEF Spec, ImplementsRpc, Abstract!Spec

=============================================================================
