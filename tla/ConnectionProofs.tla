-------------------------- MODULE ConnectionProofs --------------------------
(***************************************************************************)
(* Connection keeps program order and answers every command once, for      *)
(* every program the client may pipeline and every number of keys.         *)
(***************************************************************************)
EXTENDS Connection, SequenceTheorems, TLAPS

Places == {"top", "await", "sleep", "parse", "dispatch", "submit",
           "applying", "applied", "reply", "closed"}

LEMMA Basics ==
  ASSUME ConnectionInv
  PROVE  /\ program \in Seq(Command) /\ Len(program) \in Nat /\ Number = 1..Len(program)
         /\ exec \in Nat /\ head \in Nat /\ 1 <= head /\ head <= exec /\ exec <= Len(program) + 1
         /\ async \in [Number -> BOOLEAN] /\ done \in [Number -> BOOLEAN]
         /\ resp \in [Number -> Nat] /\ batch \in Seq(ReplyType) /\ out \in Seq(ReplyType)
         /\ queue \in [Key -> Seq(Nat)] /\ db \in [Key -> Nat] /\ wrote \subseteq Number
         /\ sent \in Nat /\ arrived \in Nat /\ consumed \in Nat /\ threshold \in Nat
         /\ consumed <= arrived /\ arrived <= sent /\ pc \in Places
  BY DEF ConnectionInv, TypeOK, Shapes, Number, Places

LEMMA KeyOf ==
  ASSUME ConnectionInv, NEW i \in Number, Kind(i) \in {"get", "set"}
  PROVE  program[i].key \in Key
<1>1. program[i] \in Command
  BY Basics DEF Number
<1> QED BY <1>1 DEF Command, Kind

(***************************************************************************)
(* Types.                                                                  *)
(***************************************************************************)
LEMMA ReplyTyped ==
  ASSUME NEW i \in Nat, NEW ok \in BOOLEAN, NEW v \in Nat
  PROVE  /\ Reply(i, ok, v) \in ReplyType
         /\ Reply(i, ok, v).cmd = i /\ Reply(i, ok, v).val = v
  BY DEF Reply, ReplyType

\* Batched or sent, a reply comes behind those before it.
Sends(r) ==
  \/ batch' = Append(batch, r) /\ out' = out
  \/ batch' = <<>> /\ out' = out \o Append(batch, r)

LEMMA SendAppends ==
  ASSUME batch \in Seq(ReplyType), out \in Seq(ReplyType), NEW r \in ReplyType, Sends(r)
  PROVE  /\ batch' \in Seq(ReplyType) /\ out' \in Seq(ReplyType)
         /\ Answers' = Append(Answers, r)
<1>1. /\ Append(batch, r) \in Seq(ReplyType) /\ <<>> \in Seq(ReplyType)
      /\ Append(batch, r) = batch \o <<r>> /\ <<r>> \in Seq(ReplyType)
  BY AppendIsConcat
<1>2. out \o Append(batch, r) \in Seq(ReplyType) /\ out \o batch \in Seq(ReplyType)
  BY <1>1, ConcatProperties
<1>3. out \o Append(batch, r) = Append(out \o batch, r)
  <2>1. out \o (batch \o <<r>>) = (out \o batch) \o <<r>>
    BY <1>1, ConcatAssociative
  <2>2. Append(out \o batch, r) = (out \o batch) \o <<r>>
    BY <1>2, AppendIsConcat
  <2> QED BY <1>1, <2>1, <2>2
<1>4. (out \o Append(batch, r)) \o <<>> = out \o Append(batch, r)
  BY <1>2, ConcatEmptySeq
<1>5. CASE batch' = Append(batch, r) /\ out' = out
  BY <1>1, <1>3, <1>5 DEF Answers
<1>6. CASE batch' = <<>> /\ out' = out \o Append(batch, r)
  BY <1>1, <1>2, <1>3, <1>4, <1>6 DEF Answers
<1> QED BY <1>5, <1>6 DEF Sends

LEMMA ParsedToBounds == \A n \in Nat : ParsedTo(n) \in Nat /\ ParsedTo(n) <= n
<1> TAKE n \in Nat
<1>1. n \div 3 \in Int /\ n \div 3 >= 0
  OBVIOUS
<1>2. n % 3 # 0 => 3 * (n \div 3) + 1 <= n
  OBVIOUS
<1>3. ParsedTo(n) = n \/ (n % 3 # 0 /\ ParsedTo(n) = 3 * (n \div 3) + 1)
  BY DEF ParsedTo
<1> QED BY <1>1, <1>2, <1>3

\* The fiber's part of the state, as far as types go.
LEMMA TypesKept ==
  ASSUME ConnectionInv, program' = program, sent' \in Nat, arrived' \in Nat, consumed' \in Nat,
         threshold' \in Nat, consumed' <= arrived', arrived' <= sent',
         head' \in 1..exec', exec' \in 1..(Len(program) + 1), pc' \in Places
  PROVE  TypeOK'
<1>1. program' \in Seq(Command)
  BY Basics
<1> QED BY <1>1 DEF TypeOK, Places

\* An action of the fiber that leaves the list, the replies and the shards
\* alone.
Idles ==
  /\ UNCHANGED <<program, exec, async, done, resp, head, batch, out, queue, db, wrote>>
  /\ pc \notin {"applying", "applied"} \/ pc' = pc
  /\ pc' \in {"submit", "applying", "applied"} => pc' = pc
  /\ pc = "closed" => pc' = "closed"

IdleActions ==
  \/ ClientSends \/ OnRecv \/ LoopTop \/ AwaitDone \/ AwaitSleeps \/ ParseRedis
  \/ NothingToDispatch \/ RepliesDone

LEMMA IdleTypes ==
  ASSUME ConnectionInv, IdleActions
  PROVE  TypeOK' /\ Idles
<1>0. /\ exec \in Nat /\ head \in Nat /\ 1 <= head /\ head <= exec /\ exec <= Len(program) + 1
      /\ Len(program) \in Nat /\ sent \in Nat /\ arrived \in Nat /\ consumed \in Nat
      /\ threshold \in Nat /\ consumed <= arrived /\ arrived <= sent /\ pc \in Places
  BY Basics
<1>1. head \in 1..exec /\ exec \in 1..(Len(program) + 1)
  BY <1>0
<1> USE DEF Places, inputVars, listVars, replyVars, shardVars
<1>2. CASE ClientSends
  <2>1. Idles /\ sent' = sent + 1 /\ UNCHANGED <<arrived, consumed, threshold, pc>>
    BY <1>2 DEF ClientSends, Idles
  <2>2. sent' \in Nat /\ arrived' <= sent'
    BY <1>0, <2>1
  <2> QED BY <1>0, <1>1, <2>1, <2>2, TypesKept DEF Idles
<1>3. CASE OnRecv
  <2>1. Idles /\ arrived' = sent /\ UNCHANGED <<sent, consumed, threshold>> /\ pc' \in Places
    BY <1>0, <1>3 DEF OnRecv, DoRead, Idles, Suspended
  <2>2. consumed' <= arrived'
    BY <1>0, <2>1
  <2> QED BY <1>0, <1>1, <2>1, <2>2, TypesKept DEF Idles
<1>4. CASE LoopTop
  <2>1. Idles /\ UNCHANGED <<sent, consumed, threshold>> /\ pc' \in Places
    BY <1>4 DEF LoopTop, DoRead, Idles
  <2>2. arrived' \in {arrived, sent}
    BY <1>4 DEF LoopTop, DoRead
  <2>3. consumed' <= arrived' /\ arrived' <= sent' /\ arrived' \in Nat
    BY <1>0, <2>1, <2>2
  <2> QED BY <1>0, <1>1, <2>1, <2>3, TypesKept DEF Idles
<1>5. CASE AwaitDone \/ AwaitSleeps \/ NothingToDispatch \/ RepliesDone
  <2>1. Idles /\ UNCHANGED <<sent, arrived, consumed, threshold>> /\ pc' \in Places
    BY <1>5 DEF AwaitDone, AwaitSleeps, NothingToDispatch, RepliesDone, Idles
  <2> QED BY <1>0, <1>1, <2>1, TypesKept DEF Idles
<1>6. CASE ParseRedis
  <2>1. /\ Idles /\ UNCHANGED <<sent, arrived>> /\ pc' \in Places
        /\ consumed' = ParsedTo(arrived) /\ threshold' = arrived - ParsedTo(arrived)
    BY <1>6 DEF ParseRedis, Idles
  <2>2. ParsedTo(arrived) \in Nat /\ ParsedTo(arrived) <= arrived
    BY <1>0, ParsedToBounds
  <2>3. threshold' \in Nat
    BY <1>0, <2>1, <2>2
  <2> QED BY <1>0, <1>1, <2>1, <2>2, <2>3, TypesKept DEF Idles
<1> QED BY <1>2, <1>3, <1>4, <1>5, <1>6 DEF IdleActions

(***************************************************************************)
(* The shards.                                                             *)
(***************************************************************************)
Ordered(q) == \A a, b \in 1..Len(q) : a < b => q[a] < q[b]

LEMMA QueueAppend ==
  ASSUME queue \in [Key -> Seq(Nat)], NEW k \in Key, NEW i \in Nat,
         queue' = [queue EXCEPT ![k] = Append(@, i)],
         \A j \in Queued(k) : j < i, Ordered(queue[k])
  PROVE  /\ queue' \in [Key -> Seq(Nat)] /\ Queued(k)' = Queued(k) \cup {i}
         /\ Ordered(queue'[k]) /\ \A l \in Key \ {k} : queue'[l] = queue[l]
<1> DEFINE q == queue[k]
           p == Append(q, i)
<1>1. q \in Seq(Nat)
  OBVIOUS
<1>2. /\ p \in Seq(Nat) /\ Len(q) \in Nat /\ Len(p) = Len(q) + 1 /\ p[Len(q) + 1] = i
      /\ \A a \in 1..Len(q) : p[a] = q[a]
  BY <1>1, AppendProperties
<1>3. queue'[k] = p /\ \A l \in Key \ {k} : queue'[l] = queue[l]
  OBVIOUS
<1>4. queue' \in [Key -> Seq(Nat)]
  BY <1>2
<1>5. \A a \in 1..Len(q) : q[a] < i
  BY DEF Queued
<1>6. Ordered(q)
  OBVIOUS
<1>7. Queued(k) = {q[a] : a \in 1..Len(q)}
  BY DEF Queued
<1> HIDE DEF p, q
<1>8. ASSUME NEW a \in 1..Len(p), NEW b \in 1..Len(p), a < b PROVE p[a] < p[b]
  <2>1. a \in 1..Len(q) /\ (b \in 1..Len(q) \/ b = Len(q) + 1)
    <3>1. Len(q) \in Nat /\ Len(p) = Len(q) + 1
      BY <1>2
    <3> QED BY <1>8, <3>1
  <2> QED BY <1>2, <1>5, <1>6, <1>8, <2>1 DEF Ordered
<1>9. {p[a] : a \in 1..Len(p)} = {q[a] : a \in 1..Len(q)} \cup {i}
  <2>1. \A a \in 1..Len(p) : a \in 1..Len(q) \/ a = Len(q) + 1
    BY <1>2
  <2>2. Len(q) + 1 \in 1..Len(p) /\ \A a \in 1..Len(q) : a \in 1..Len(p)
    BY <1>2
  <2> QED BY <1>2, <2>1, <2>2
<1>10. Queued(k)' = Queued(k) \cup {i}
  <2>1. Queued(k)' = {p[a] : a \in 1..Len(p)}
    BY <1>3 DEF Queued
  <2> QED BY <1>7, <1>9, <2>1
<1>11. Ordered(queue'[k])
  <2>1. Ordered(p)
    BY <1>8 DEF Ordered
  <2> QED BY <1>3, <2>1
<1> QED BY <1>3, <1>4, <1>10, <1>11

LEMMA QueueTail ==
  ASSUME queue \in [Key -> Seq(Nat)], NEW k \in Key, queue[k] # <<>>,
         queue' = [queue EXCEPT ![k] = Tail(@)], Ordered(queue[k])
  PROVE  /\ queue' \in [Key -> Seq(Nat)] /\ Head(queue[k]) \in Queued(k)
         /\ \A j \in Queued(k)' : j \in Queued(k) /\ Head(queue[k]) < j
         /\ Ordered(queue'[k]) /\ \A l \in Key \ {k} : queue'[l] = queue[l]
<1> DEFINE q == queue[k]
           p == Tail(q)
<1>1. q \in Seq(Nat) /\ q # <<>>
  OBVIOUS
<1>2. /\ p \in Seq(Nat) /\ Len(q) \in Nat \ {0} /\ Len(p) = Len(q) - 1 /\ Head(q) = q[1]
      /\ \A a \in 1..Len(p) : p[a] = q[a + 1]
  BY <1>1
<1>3. queue'[k] = p /\ \A l \in Key \ {k} : queue'[l] = queue[l]
  OBVIOUS
<1>4. queue' \in [Key -> Seq(Nat)]
  BY <1>2
<1>4a. Ordered(q) /\ Queued(k) = {q[a] : a \in 1..Len(q)}
  BY DEF Queued
<1> HIDE DEF p, q
<1>5. \A a \in 1..Len(p) : a + 1 \in 1..Len(q) /\ 1 \in 1..Len(q) /\ 1 < a + 1
  BY <1>2
<1>6. ASSUME NEW a \in 1..Len(p), NEW b \in 1..Len(p), a < b PROVE p[a] < p[b]
  <2>1. a + 1 \in 1..Len(q) /\ b + 1 \in 1..Len(q) /\ a + 1 < b + 1
    BY <1>2, <1>6
  <2> QED BY <1>2, <1>4a, <2>1 DEF Ordered
<1>7. \A a \in 1..Len(p) : p[a] \in Queued(k) /\ Head(q) < p[a]
  BY <1>2, <1>4a, <1>5 DEF Ordered
<1>8. Head(q) \in Queued(k)
  BY <1>2, <1>4a
<1>9. Queued(k)' = {p[a] : a \in 1..Len(p)}
  BY <1>3 DEF Queued
<1>10. \A j \in Queued(k)' : j \in Queued(k) /\ Head(q) < j
  BY <1>7, <1>9
<1>11. Ordered(queue'[k])
  BY <1>3, <1>6 DEF Ordered
<1> QED BY <1>3, <1>4, <1>8, <1>10, <1>11 DEF q

LEMMA MaxIs ==
  ASSUME NEW S \in SUBSET Nat, NEW x \in S, \A y \in S : x >= y
  PROVE  Max(S) = x
<1>1. \A y, z \in S : (\A w \in S : y >= w) /\ (\A w \in S : z >= w) => y = z
  <2> SUFFICES ASSUME NEW y \in S, NEW z \in S, \A w \in S : y >= w, \A w \in S : z >= w
               PROVE  y = z
    OBVIOUS
  <2>1. y >= z /\ z >= y /\ y \in Nat /\ z \in Nat
    OBVIOUS
  <2> QED BY <2>1
<1> QED BY <1>1 DEF Max

ShardInv == InProgress /\ QueuesOrdered /\ ReadsProgramOrder

LEMMA ShardsKept ==
  ASSUME ConnectionInv, UNCHANGED <<program, async, done, resp, queue, db, wrote>>,
         exec' \in Nat, exec' >= exec, pc = "applying" => pc' = pc /\ exec' = exec,
         pc = "applied" => (pc' = pc /\ exec' = exec) \/ exec' > exec,
         pc' \in {"submit", "applying", "applied"} => exec' \in Number /\ Kind(exec)' = "set"
  PROVE  ShardInv'
<1>0. /\ exec \in Nat /\ wrote \subseteq Number /\ Len(program) \in Nat /\ Number = 1..Len(program)
      /\ InProgress /\ QueuesOrdered /\ ReadsProgramOrder
  BY Basics DEF ConnectionInv
<1>1. /\ Number' = Number /\ \A i : Kind(i)' = Kind(i)
      /\ \A k : Queued(k)' = Queued(k) /\ Applied(k)' = Applied(k)
      /\ \A i : LastSet(i)' = LastSet(i)
  BY DEF Number, Kind, Queued, Applied, LastSet
<1>2. InProgress'
  <2>1. \A i \in Number : i < exec => i < exec'
    BY <1>0
  <2>2. \A j \in wrote : j < exec' \/ (j = exec' /\ pc' = "applied")
    <3> TAKE j \in wrote
    <3>1. j \in Nat
      BY <1>0
    <3> QED BY <1>0, <3>1 DEF InProgress
  <2> QED BY <1>0, <1>1, <2>1, <2>2 DEF InProgress
<1>3. QueuesOrdered'
  BY <1>0, <1>1 DEF QueuesOrdered
<1>4. ReadsProgramOrder'
  BY <1>0, <1>1 DEF ReadsProgramOrder
<1> QED BY <1>2, <1>3, <1>4 DEF ShardInv

LEMMA DispatchGetShards ==
  ASSUME ConnectionInv, DispatchGet
  PROVE  ShardInv' /\ queue' \in [Key -> Seq(Nat)]
<1>0. /\ exec \in Nat /\ wrote \subseteq Number /\ Len(program) \in Nat /\ Number = 1..Len(program)
      /\ InProgress /\ QueuesOrdered /\ ReadsProgramOrder /\ async \in [Number -> BOOLEAN]
      /\ done \in [Number -> BOOLEAN] /\ queue \in [Key -> Seq(Nat)]
  BY Basics DEF ConnectionInv
<1>1. PICK i : i = exec
  OBVIOUS
<1>2. PICK k : k = program[i].key
  OBVIOUS
<1>3. /\ pc = "dispatch" /\ pc' = pc /\ i \in Number /\ Kind(i) = "get"
      /\ async' = [async EXCEPT ![i] = TRUE] /\ exec' = exec + 1
      /\ queue' = [queue EXCEPT ![k] = Append(@, i)]
      /\ UNCHANGED <<program, done, resp, db, wrote>>
  BY <1>1, <1>2 DEF DispatchGet, Ready, Listed, inputVars
<1>4. k \in Key /\ i \in Nat
  BY <1>0, <1>1, <1>2, <1>3, KeyOf
<1>5. /\ Number' = Number /\ \A j : Kind(j)' = Kind(j)
      /\ \A l : Applied(l)' = Applied(l)
      /\ \A j : LastSet(j)' = LastSet(j)
  BY <1>3 DEF Number, Kind, Applied, LastSet
<1>6. ~async[i] /\ ~done[i] /\ async'[i] = TRUE /\ \A j \in Number \ {i} : async'[j] = async[j]
  BY <1>0, <1>1, <1>3 DEF InProgress
<1>7. \A l \in Key : \A j \in Queued(l) : j \in Number /\ async[j] /\ ~done[j] /\ Kind(j) = "get" /\ j < i
  BY <1>0, <1>1, <1>3 DEF QueuesOrdered, InProgress
<1>8. \A j \in wrote : j < i
  BY <1>0, <1>1, <1>3 DEF InProgress
<1>9. /\ queue' \in [Key -> Seq(Nat)] /\ Queued(k)' = Queued(k) \cup {i}
      /\ Ordered(queue'[k]) /\ \A l \in Key \ {k} : queue'[l] = queue[l]
  <2>1. Ordered(queue[k])
    BY <1>0, <1>4 DEF QueuesOrdered, Ordered
  <2> QED BY <1>0, <1>3, <1>4, <1>7, <2>1, QueueAppend
<1>10. \A l \in Key \ {k} : Queued(l)' = Queued(l)
  BY <1>9 DEF Queued
<1>11. InProgress'
  <2>1. i < exec' /\ \A j \in Number : j < exec => j < exec'
    BY <1>0, <1>1, <1>3
  <2>2. ASSUME NEW j \in Number
        PROVE  (async'[j] => Kind(j) = "get" /\ j < exec') /\ (done[j] => async'[j])
    BY <1>0, <1>3, <1>6, <2>1 DEF InProgress
  <2>3. \A j \in wrote : j < exec'
    BY <1>0, <1>1, <1>8, <2>1
  <2> QED BY <1>3, <1>5, <2>2, <2>3 DEF InProgress
<1>12. QueuesOrdered'
  <2> SUFFICES ASSUME NEW l \in Key
               PROVE  /\ \A j \in Queued(l)' :
                           /\ j \in Number /\ program[j].key = l
                           /\ Kind(j) = "get" /\ async'[j] /\ ~done[j]
                           /\ \A w \in Applied(l) : w < j
                      /\ Ordered(queue'[l])
                      /\ db[l] = Max({0} \cup Applied(l))
    BY <1>3, <1>5 DEF QueuesOrdered, Ordered
  <2>1. /\ \A j \in Queued(l) : /\ j \in Number /\ program[j].key = l
                                /\ Kind(j) = "get" /\ async'[j] /\ ~done[j]
                                /\ \A w \in Applied(l) : w < j
        /\ Ordered(queue[l]) /\ db[l] = Max({0} \cup Applied(l))
    <3>1. ASSUME NEW j \in Queued(l)
          PROVE  /\ j \in Number /\ program[j].key = l
                 /\ Kind(j) = "get" /\ async'[j] /\ ~done[j]
                 /\ \A w \in Applied(l) : w < j
      <4>1. j \in Number /\ program[j].key = l /\ \A w \in Applied(l) : w < j
        BY <1>0 DEF QueuesOrdered
      <4>2. async[j] /\ ~done[j] /\ Kind(j) = "get" /\ j # i
        BY <1>6, <1>7
      <4>3. async'[j]
        BY <1>6, <4>1, <4>2
      <4> QED BY <4>1, <4>2, <4>3
    <3>2. Ordered(queue[l]) /\ db[l] = Max({0} \cup Applied(l))
      BY <1>0 DEF QueuesOrdered, Ordered
    <3> QED BY <3>1, <3>2
  <2>2. \A w \in Applied(l) : w < i
    BY <1>8 DEF Applied
  <2>3. CASE l = k
    BY <1>2, <1>3, <1>6, <1>9, <2>1, <2>2, <2>3
  <2>4. CASE l # k
    BY <1>9, <1>10, <2>1, <2>4
  <2> QED BY <2>3, <2>4
<1>13. ReadsProgramOrder'
  BY <1>0, <1>3, <1>5 DEF ReadsProgramOrder
<1> QED BY <1>9, <1>11, <1>12, <1>13 DEF ShardInv

LEMMA SubmitShards ==
  ASSUME ConnectionInv, Submit
  PROVE  ShardInv' /\ queue' \in [Key -> Seq(Nat)]
<1>0. /\ exec \in Nat /\ wrote \subseteq Number /\ Len(program) \in Nat /\ Number = 1..Len(program)
      /\ InProgress /\ QueuesOrdered /\ ReadsProgramOrder /\ async \in [Number -> BOOLEAN]
      /\ done \in [Number -> BOOLEAN] /\ queue \in [Key -> Seq(Nat)]
  BY Basics DEF ConnectionInv
<1>1. PICK i : i = exec
  OBVIOUS
<1>2. PICK k : k = program[i].key
  OBVIOUS
<1>3. /\ pc = "submit" /\ pc' = "applying" /\ i \in Number /\ Kind(i) = "set"
      /\ queue' = [queue EXCEPT ![k] = Append(@, i)]
      /\ UNCHANGED <<program, exec, async, done, resp, db, wrote>>
  BY <1>0, <1>1, <1>2 DEF Submit, inputVars, listVars, InProgress
<1>4. k \in Key /\ i \in Nat
  BY <1>0, <1>1, <1>2, <1>3, KeyOf
<1>5. /\ Number' = Number /\ \A j : Kind(j)' = Kind(j)
      /\ \A l : Applied(l)' = Applied(l)
      /\ \A j : LastSet(j)' = LastSet(j)
  BY <1>3 DEF Number, Kind, Applied, LastSet
<1>7. \A l \in Key : \A j \in Queued(l) : j \in Number /\ async[j] /\ ~done[j] /\ Kind(j) = "get" /\ j < i
  BY <1>0, <1>1, <1>3 DEF QueuesOrdered, InProgress
<1>8. \A j \in wrote : j < i
  BY <1>0, <1>1, <1>3 DEF InProgress
<1>9. /\ queue' \in [Key -> Seq(Nat)] /\ Queued(k)' = Queued(k) \cup {i}
      /\ Ordered(queue'[k]) /\ \A l \in Key \ {k} : queue'[l] = queue[l]
  <2>1. Ordered(queue[k])
    BY <1>0, <1>4 DEF QueuesOrdered, Ordered
  <2> QED BY <1>0, <1>3, <1>4, <1>7, <2>1, QueueAppend
<1>10. \A l \in Key \ {k} : Queued(l)' = Queued(l)
  BY <1>9 DEF Queued
<1>11. InProgress'
  BY <1>0, <1>1, <1>3, <1>5, <1>8 DEF InProgress
<1>12. QueuesOrdered'
  <2> SUFFICES ASSUME NEW l \in Key
               PROVE  /\ \A j \in Queued(l)' :
                           /\ j \in Number' /\ program'[j].key = l
                           /\ \/ Kind(j)' = "get" /\ async'[j] /\ ~done'[j]
                              \/ Kind(j)' = "set" /\ j = exec' /\ pc' = "applying"
                           /\ \A w \in Applied(l)' : w < j
                      /\ Ordered(queue'[l])
                      /\ db'[l] = Max({0} \cup Applied(l)')
    BY DEF QueuesOrdered, Ordered
  <2>1. /\ \A j \in Queued(l) : /\ j \in Number /\ program[j].key = l
                                /\ Kind(j) = "get" /\ async[j] /\ ~done[j]
                                /\ \A w \in Applied(l) : w < j
        /\ Ordered(queue[l]) /\ db[l] = Max({0} \cup Applied(l))
    BY <1>0, <1>3, <1>7 DEF QueuesOrdered, Ordered
  <2>2. \A w \in Applied(l) : w < i
    BY <1>8 DEF Applied
  <2>3. CASE l = k
    <3>1. Queued(l)' = Queued(l) \cup {i} /\ Ordered(queue'[l])
      BY <1>9, <2>3
    <3>2. ASSUME NEW j \in Queued(l)
          PROVE  /\ j \in Number' /\ program'[j].key = l
                 /\ Kind(j)' = "get" /\ async'[j] /\ ~done'[j]
                 /\ \A w \in Applied(l)' : w < j
      BY <1>3, <1>5, <2>1
    <3>3. /\ i \in Number' /\ program'[i].key = l
          /\ Kind(i)' = "set" /\ i = exec' /\ pc' = "applying"
          /\ \A w \in Applied(l)' : w < i
      BY <1>1, <1>2, <1>3, <1>5, <2>2, <2>3
    <3>4. db'[l] = Max({0} \cup Applied(l)')
      BY <1>3, <1>5, <2>1
    <3> QED BY <3>1, <3>2, <3>3, <3>4
  <2>4. CASE l # k
    <3>1. Queued(l)' = Queued(l) /\ queue'[l] = queue[l]
      BY <1>9, <1>10, <2>4
    <3>2. ASSUME NEW j \in Queued(l)
          PROVE  /\ j \in Number' /\ program'[j].key = l
                 /\ Kind(j)' = "get" /\ async'[j] /\ ~done'[j]
                 /\ \A w \in Applied(l)' : w < j
      BY <1>3, <1>5, <2>1
    <3>3. Ordered(queue'[l]) /\ db'[l] = Max({0} \cup Applied(l)')
      BY <1>3, <1>5, <2>1, <3>1
    <3> QED BY <3>1, <3>2, <3>3
  <2> QED BY <2>3, <2>4
<1>13. ReadsProgramOrder'
  BY <1>0, <1>3, <1>5 DEF ReadsProgramOrder
<1> QED BY <1>9, <1>11, <1>12, <1>13 DEF ShardInv

LEMMA ShardGetShards ==
  ASSUME ConnectionInv, NEW k \in Key, ShardGet(k)
  PROVE  /\ ShardInv' /\ queue' \in [Key -> Seq(Nat)]
         /\ \E i \in Number : /\ async[i] /\ ~done[i] /\ done' = [done EXCEPT ![i] = TRUE]
                              /\ resp' = [resp EXCEPT ![i] = db[k]]
<1>0. /\ exec \in Nat /\ wrote \subseteq Number /\ Len(program) \in Nat /\ Number = 1..Len(program)
      /\ InProgress /\ QueuesOrdered /\ ReadsProgramOrder /\ async \in [Number -> BOOLEAN]
      /\ done \in [Number -> BOOLEAN] /\ queue \in [Key -> Seq(Nat)] /\ resp \in [Number -> Nat]
  BY Basics DEF ConnectionInv
<1>1. PICK i : i = Head(queue[k])
  OBVIOUS
<1>2. /\ queue[k] # <<>> /\ Kind(i) = "get" /\ queue' = [queue EXCEPT ![k] = Tail(@)]
      /\ done' = [done EXCEPT ![i] = TRUE] /\ resp' = [resp EXCEPT ![i] = db[k]]
      /\ pc' \in {pc, "await"} /\ (pc' = "await" => pc \in {"await", "sleep"})
      /\ UNCHANGED <<program, exec, async, db, wrote>>
  BY <1>1 DEF ShardGet, inputVars
<1>3. Ordered(queue[k])
  BY <1>0 DEF QueuesOrdered, Ordered
<1>4. /\ queue' \in [Key -> Seq(Nat)] /\ i \in Queued(k)
      /\ \A j \in Queued(k)' : j \in Queued(k) /\ i < j
      /\ Ordered(queue'[k]) /\ \A l \in Key \ {k} : queue'[l] = queue[l]
  BY <1>0, <1>1, <1>2, <1>3, QueueTail
<1>5. /\ Number' = Number /\ \A j : Kind(j)' = Kind(j)
      /\ \A l : Applied(l)' = Applied(l)
      /\ \A j : LastSet(j)' = LastSet(j)
  BY <1>2 DEF Number, Kind, Applied, LastSet
<1>6. \A l \in Key \ {k} : Queued(l)' = Queued(l)
  BY <1>4 DEF Queued
<1>7. /\ i \in Number /\ program[i].key = k /\ async[i] /\ ~done[i] /\ \A w \in Applied(k) : w < i
      /\ db[k] = Max({0} \cup Applied(k))
  BY <1>0, <1>2, <1>4 DEF QueuesOrdered
<1>8. /\ done'[i] = TRUE /\ resp'[i] = db[k]
      /\ \A j \in Number \ {i} : done'[j] = done[j] /\ resp'[j] = resp[j]
  BY <1>0, <1>2, <1>7
<1>9. InProgress'
  BY <1>0, <1>2, <1>5, <1>7, <1>8 DEF InProgress
<1>10. QueuesOrdered'
  <2> SUFFICES ASSUME NEW l \in Key
               PROVE  /\ \A j \in Queued(l)' :
                           /\ j \in Number' /\ program'[j].key = l
                           /\ \/ Kind(j)' = "get" /\ async'[j] /\ ~done'[j]
                              \/ Kind(j)' = "set" /\ j = exec' /\ pc' = "applying"
                           /\ \A w \in Applied(l)' : w < j
                      /\ Ordered(queue'[l])
                      /\ db'[l] = Max({0} \cup Applied(l)')
    BY DEF QueuesOrdered, Ordered
  <2>1. /\ \A j \in Queued(l) : /\ j \in Number /\ program[j].key = l
                                /\ \/ Kind(j) = "get" /\ async[j] /\ ~done[j]
                                   \/ Kind(j) = "set" /\ j = exec /\ pc = "applying"
                                /\ \A w \in Applied(l) : w < j
        /\ Ordered(queue[l]) /\ db[l] = Max({0} \cup Applied(l))
    BY <1>0 DEF QueuesOrdered, Ordered
  <2>2. Ordered(queue'[l]) /\ \A j \in Queued(l)' : j \in Queued(l) /\ j # i
    <3>1. CASE l = k
      <4>1. i \in Nat /\ \A j \in Queued(k) : j \in Nat
        BY <1>0, <1>7, <2>1, <3>1
      <4> QED BY <1>4, <3>1, <4>1
    <3>2. CASE l # k
      BY <1>4, <1>6, <1>7, <2>1, <3>2
    <3> QED BY <3>1, <3>2
  <2>3. ASSUME NEW j \in Queued(l)'
        PROVE  \/ Kind(j)' = "get" /\ async'[j] /\ ~done'[j]
               \/ Kind(j)' = "set" /\ j = exec' /\ pc' = "applying"
    BY <1>2, <1>5, <1>8, <2>1, <2>2
  <2> QED BY <1>2, <1>5, <2>1, <2>2, <2>3
<1>11. ReadsProgramOrder'
  <2>1. resp'[i] = LastSet(i)
    <3>1. {j \in wrote : j < i /\ program[j].key = program[i].key} = Applied(k)
      BY <1>7 DEF Applied
    <3> QED BY <1>7, <1>8, <3>1 DEF LastSet
  <2> QED BY <1>0, <1>5, <1>8, <2>1 DEF ReadsProgramOrder
<1> QED BY <1>2, <1>4, <1>7, <1>9, <1>10, <1>11 DEF ShardInv

LEMMA ShardSetShards ==
  ASSUME ConnectionInv, NEW k \in Key, ShardSet(k)
  PROVE  /\ ShardInv' /\ queue' \in [Key -> Seq(Nat)] /\ db' \in [Key -> Nat]
         /\ wrote' \subseteq Number /\ pc = "applying" /\ pc' = "applied"
<1>0. /\ exec \in Nat /\ wrote \subseteq Number /\ Len(program) \in Nat /\ Number = 1..Len(program)
      /\ InProgress /\ QueuesOrdered /\ ReadsProgramOrder /\ async \in [Number -> BOOLEAN]
      /\ done \in [Number -> BOOLEAN] /\ queue \in [Key -> Seq(Nat)] /\ db \in [Key -> Nat]
  BY Basics DEF ConnectionInv
<1>1. PICK i : i = Head(queue[k])
  OBVIOUS
<1>2. /\ queue[k] # <<>> /\ Kind(i) = "set" /\ queue' = [queue EXCEPT ![k] = Tail(@)]
      /\ db' = [db EXCEPT ![k] = i] /\ wrote' = wrote \cup {i}
      /\ pc' = IF pc = "applying" THEN "applied" ELSE pc
      /\ UNCHANGED <<program, exec, async, done, resp>>
  BY <1>1 DEF ShardSet, inputVars, listVars
<1>3. Ordered(queue[k])
  BY <1>0 DEF QueuesOrdered, Ordered
<1>4. /\ queue' \in [Key -> Seq(Nat)] /\ i \in Queued(k)
      /\ \A j \in Queued(k)' : j \in Queued(k) /\ i < j
      /\ Ordered(queue'[k]) /\ \A l \in Key \ {k} : queue'[l] = queue[l]
  BY <1>0, <1>1, <1>2, <1>3, QueueTail
<1>5. Number' = Number /\ \A j : Kind(j)' = Kind(j)
  BY <1>2 DEF Number, Kind
<1>6. \A l \in Key \ {k} : Queued(l)' = Queued(l)
  BY <1>4 DEF Queued
<1>7. /\ i \in Number /\ i \in Nat /\ program[i].key = k /\ i = exec /\ pc = "applying"
      /\ pc' = "applied" /\ \A w \in Applied(k) : w < i
  BY <1>0, <1>2, <1>4 DEF QueuesOrdered
<1>8. Applied(k)' = Applied(k) \cup {i} /\ \A l \in Key \ {k} : Applied(l)' = Applied(l)
  BY <1>2, <1>7 DEF Applied
<1>9. db'[k] = Max({0} \cup Applied(k)')
  <2> DEFINE S == {0} \cup Applied(k)'
  <2>1. S \in SUBSET Nat /\ i \in S /\ \A y \in S : i >= y
    <3>1. Applied(k) \subseteq Nat
      <4>1. Number \subseteq Nat
        BY <1>0
      <4> QED BY <1>0, <4>1 DEF Applied
    <3> QED BY <1>7, <1>8, <3>1
  <2> HIDE DEF S
  <2>2. Max(S) = i
    BY <2>1, MaxIs
  <2> QED BY <1>0, <1>2, <2>2 DEF S
<1>10. InProgress'
  BY <1>0, <1>2, <1>5, <1>7 DEF InProgress
<1>11. ASSUME NEW l \in Key, NEW j \in Queued(l)'
       PROVE  /\ j \in Queued(l) /\ j \in Number /\ program[j].key = l
              /\ Kind(j) = "get" /\ async[j] /\ ~done[j] /\ j < exec
              /\ \A w \in Applied(l) : w < j
  <2>1. j \in Queued(l) /\ (l = k => i < j)
    BY <1>4, <1>6, <1>11
  <2>2. /\ j \in Number /\ program[j].key = l /\ \A w \in Applied(l) : w < j
        /\ \/ Kind(j) = "get" /\ async[j] /\ ~done[j]
           \/ Kind(j) = "set" /\ j = exec
    BY <1>0, <2>1 DEF QueuesOrdered
  <2>3. j # exec
    <3>1. CASE l = k
      BY <1>0, <1>7, <2>1, <2>2, <3>1
    <3>2. CASE l # k
      BY <1>7, <2>2, <3>2
    <3> QED BY <3>1, <3>2
  <2> QED BY <1>0, <2>1, <2>2, <2>3 DEF InProgress
<1>12. \A j : j \notin Queued(k)'
  <2> SUFFICES ASSUME NEW j \in Queued(k)' PROVE FALSE
    OBVIOUS
  <2>1. j < exec /\ i < j /\ j \in Number
    BY <1>4, <1>11
  <2> QED BY <1>0, <1>7, <2>1
<1>13. QueuesOrdered'
  <2> SUFFICES ASSUME NEW l \in Key
               PROVE  /\ \A j \in Queued(l)' :
                           /\ j \in Number' /\ program'[j].key = l
                           /\ \/ Kind(j)' = "get" /\ async'[j] /\ ~done'[j]
                              \/ Kind(j)' = "set" /\ j = exec' /\ pc' = "applying"
                           /\ \A w \in Applied(l)' : w < j
                      /\ Ordered(queue'[l])
                      /\ db'[l] = Max({0} \cup Applied(l)')
    BY DEF QueuesOrdered, Ordered
  <2>1. CASE l = k
    BY <1>4, <1>9, <1>12, <2>1
  <2>2. CASE l # k
    <3>1. db'[l] = db[l] /\ db[l] = Max({0} \cup Applied(l)) /\ Ordered(queue[l])
      BY <1>0, <1>2, <2>2 DEF QueuesOrdered, Ordered
    <3>2. Applied(l)' = Applied(l) /\ queue'[l] = queue[l]
      BY <1>4, <1>8, <2>2
    <3>3. ASSUME NEW j \in Queued(l)'
          PROVE  /\ j \in Number' /\ program'[j].key = l
                 /\ Kind(j)' = "get" /\ async'[j] /\ ~done'[j]
                 /\ \A w \in Applied(l)' : w < j
      BY <1>2, <1>5, <1>11, <3>2
    <3> QED BY <3>1, <3>2, <3>3
  <2> QED BY <2>1, <2>2
<1>14. ReadsProgramOrder'
  <2> SUFFICES ASSUME NEW j \in Number, done[j] PROVE resp[j] = LastSet(j)'
    BY <1>2, <1>5 DEF ReadsProgramOrder
  <2>1. j < exec /\ resp[j] = LastSet(j)
    BY <1>0 DEF InProgress, ReadsProgramOrder
  <2>2. ~(i < j)
    BY <1>0, <1>7, <2>1
  <2>3. {m \in wrote' : m < j /\ program'[m].key = program'[j].key}
          = {m \in wrote : m < j /\ program[m].key = program[j].key}
    BY <1>2, <2>2
  <2> QED BY <2>1, <2>3 DEF LastSet
<1>15. db' \in [Key -> Nat]
  BY <1>0, <1>2, <1>7
<1> QED BY <1>0, <1>2, <1>4, <1>7, <1>10, <1>13, <1>14, <1>15 DEF ShardInv

(***************************************************************************)
(* The answers.                                                            *)
(***************************************************************************)
AnswerInv == AnswersKept /\ OrderWithinKind

LEMMA AnswersTyped ==
  ASSUME ConnectionInv
  PROVE  /\ Answers \in Seq(ReplyType) /\ Len(Answers) \in Nat
         /\ \A a \in 1..Len(Answers) :
              /\ Answers[a].cmd \in Nat /\ Answers[a].cmd < exec
              /\ Answers[a].cmd > 0 => Answers[a].cmd \in Number
<1>0. /\ batch \in Seq(ReplyType) /\ out \in Seq(ReplyType) /\ exec \in Nat /\ AnswersKept
      /\ exec <= Len(program) + 1 /\ Len(program) \in Nat /\ Number = 1..Len(program)
  BY Basics DEF ConnectionInv
<1>1. Answers \in Seq(ReplyType)
  BY <1>0, ConcatProperties DEF Answers
<1>2. Len(Answers) \in Nat /\ \A a \in 1..Len(Answers) : Answers[a] \in ReplyType
  BY <1>1
<1>3. \A a \in 1..Len(Answers) : Answers[a].cmd \in Nat /\ Answers[a].cmd < exec
  BY <1>0, <1>2 DEF ReplyType, AnswersKept
<1> QED BY <1>0, <1>1, <1>2, <1>3

\* No answer is given.  Commands may be served, a command that is answered may
\* leave the list, and a command to answer later may be dispatched.
LEMMA AnswersSame ==
  ASSUME ConnectionInv, UNCHANGED <<out, batch>>,
         \A i \in Number : done[i] => done'[i] /\ resp'[i] = resp[i],
         pc = "closed" => pc' = "closed",
         \/ /\ UNCHANGED <<exec, async>>
            /\ head' = head \/ (head' = head + 1 /\ head < exec /\ ~async[head])
         \/ /\ exec' = exec + 1 /\ exec \in Number /\ head' = head
            /\ async' = [async EXCEPT ![exec] = TRUE]
  PROVE  AnswerInv'
<1>0. /\ exec \in Nat /\ head \in Nat /\ head <= exec /\ 1 <= head /\ exec <= Len(program) + 1
      /\ Len(program) \in Nat /\ Number = 1..Len(program) /\ async \in [Number -> BOOLEAN]
      /\ AnswersKept /\ OrderWithinKind
  BY Basics DEF ConnectionInv
<1>1. Answers' = Answers /\ Answered' = Answered
  BY DEF Answers, Answered
<1>2. /\ exec' \in Nat /\ head' \in Nat /\ exec' >= exec /\ head' >= head
      /\ \A i \in Number : i < exec => async'[i] = async[i]
  BY <1>0
<1>3. ASSUME NEW a \in 1..Len(Answers)
      PROVE  /\ Answers[a].cmd < exec' /\ (Answers[a].cmd = 0 => pc' = "closed")
             /\ Answers[a].cmd > 0 /\ async'[Answers[a].cmd] =>
                  /\ Answers[a].cmd < head' /\ done'[Answers[a].cmd]
                  /\ Answers[a].val = resp'[Answers[a].cmd]
             /\ Answers[a].cmd > 0 => async'[Answers[a].cmd] = async[Answers[a].cmd]
  <2>1. PICK i : i = Answers[a].cmd
    OBVIOUS
  <2>2. i \in Nat /\ i < exec /\ (i > 0 => i \in Number)
    BY <2>1, AnswersTyped
  <2>3. /\ i = 0 => pc = "closed"
        /\ i > 0 /\ async[i] => i < head /\ done[i] /\ Answers[a].val = resp[i]
    BY <1>0, <2>1 DEF AnswersKept
  <2>4. i < exec' /\ (i < head => i < head')
    BY <1>0, <1>2, <2>2
  <2> QED BY <1>2, <2>1, <2>2, <2>3, <2>4
<1>4. ASSUME NEW i \in 1..(exec' - 1), ~async'[i] \/ i < head' PROVE i \in Answered
  <2>1. CASE UNCHANGED <<exec, async>>
    <3>1. i \in 1..(exec - 1) /\ (~async[i] \/ i < head)
      BY <1>0, <1>4, <2>1
    <3> QED BY <1>0, <3>1 DEF AnswersKept
  <2>2. CASE /\ exec' = exec + 1 /\ exec \in Number /\ head' = head
             /\ async' = [async EXCEPT ![exec] = TRUE]
    <3>1. i # exec /\ i \in Number
      BY <1>0, <1>4, <2>2
    <3>2. i \in 1..(exec - 1) /\ async'[i] = async[i]
      BY <1>0, <1>4, <2>2, <3>1
    <3> QED BY <1>0, <1>4, <2>2, <3>2 DEF AnswersKept
  <2> QED BY <2>1, <2>2
<1>5. AnswersKept'
  BY <1>0, <1>1, <1>3, <1>4 DEF AnswersKept
<1>6. OrderWithinKind'
  BY <1>0, <1>1, <1>3 DEF OrderWithinKind
<1> QED BY <1>5, <1>6 DEF AnswerInv

\* An answer is given: by the fiber to the command it dispatches, or for the
\* head of the list, which its shard has served.
LEMMA AnswersNew ==
  ASSUME ConnectionInv, pc # "closed", NEW r \in ReplyType, Answers' = Append(Answers, r),
         UNCHANGED <<program, async, done, resp>>,
         \/ r.cmd = exec /\ exec' = exec + 1 /\ head' = head /\ exec \in Number
         \/ /\ r.cmd = head /\ head' = head + 1 /\ head < exec /\ exec' = exec
            /\ async[head] /\ done[head] /\ r.val = resp[head]
  PROVE  AnswerInv'
<1>0. /\ exec \in Nat /\ head \in Nat /\ head <= exec /\ 1 <= head /\ exec <= Len(program) + 1
      /\ Len(program) \in Nat /\ Number = 1..Len(program) /\ async \in [Number -> BOOLEAN]
      /\ AnswersKept /\ OrderWithinKind /\ InProgress
  BY Basics DEF ConnectionInv
<1>1. PICK L : L = Len(Answers)
  OBVIOUS
<1>2. /\ L \in Nat /\ Len(Answers') = L + 1 /\ Answers'[L + 1] = r
      /\ \A a \in 1..L : Answers'[a] = Answers[a]
  BY <1>1, AnswersTyped, AppendProperties
<1>3. \A a \in 1..Len(Answers') : a \in 1..L \/ a = L + 1
  BY <1>2
<1>4. PICK n : n = r.cmd
  OBVIOUS
<1>5. /\ n \in Nat /\ n > 0 /\ n \in Number /\ n < exec' /\ exec' \in Nat /\ exec' >= exec
      /\ head' \in Nat /\ head' >= head
      /\ async[n] => n < head' /\ done[n] /\ r.val = resp[n]
  BY <1>0, <1>4 DEF InProgress
<1>6. ASSUME NEW a \in 1..L
      PROVE  /\ Answers[a].cmd \in Nat /\ Answers[a].cmd > 0 /\ Answers[a].cmd < exec
             /\ Answers[a].cmd \in Number /\ Answers[a].cmd # n
             /\ async[Answers[a].cmd] => /\ Answers[a].cmd < head /\ done[Answers[a].cmd]
                                         /\ Answers[a].val = resp[Answers[a].cmd]
             /\ async[Answers[a].cmd] = async[n] => Answers[a].cmd < n
  <2>1. PICK i : i = Answers[a].cmd
    OBVIOUS
  <2>2. i \in Nat /\ i < exec /\ (i > 0 => i \in Number)
    BY <1>1, <2>1, AnswersTyped
  <2>3. /\ i # 0
        /\ i > 0 /\ async[i] => i < head /\ done[i] /\ Answers[a].val = resp[i]
    BY <1>0, <1>1, <2>1 DEF AnswersKept
  <2>4. i > 0
    BY <2>2, <2>3
  <2>5. i # n /\ (async[i] = async[n] => i < n)
    BY <1>0, <1>4, <2>2, <2>3, <2>4 DEF InProgress
  <2> QED BY <2>1, <2>2, <2>3, <2>4, <2>5
<1>7. ASSUME NEW a \in 1..Len(Answers')
      PROVE  /\ Answers'[a].cmd < exec' /\ Answers'[a].cmd # 0
             /\ Answers'[a].cmd > 0 /\ async[Answers'[a].cmd] =>
                  /\ Answers'[a].cmd < head' /\ done[Answers'[a].cmd]
                  /\ Answers'[a].val = resp[Answers'[a].cmd]
  <2>1. CASE a \in 1..L
    <3>1. Answers'[a] = Answers[a]
      BY <1>2, <2>1
    <3>2. /\ Answers[a].cmd < exec' /\ Answers[a].cmd # 0
          /\ Answers[a].cmd < head => Answers[a].cmd < head'
      BY <1>0, <1>5, <1>6, <2>1
    <3> QED BY <1>6, <2>1, <3>1, <3>2
  <2>2. CASE a = L + 1
    BY <1>2, <1>4, <1>5, <2>2
  <2> QED BY <1>3, <2>1, <2>2
<1>8. ASSUME NEW a \in 1..Len(Answers'), NEW b \in 1..Len(Answers'),
             Answers'[a].cmd = Answers'[b].cmd
      PROVE  a = b
  <2>1. CASE a \in 1..L /\ b \in 1..L
    BY <1>0, <1>1, <1>2, <1>8, <2>1 DEF AnswersKept
  <2>2. CASE a = L + 1 \/ b = L + 1
    BY <1>2, <1>3, <1>4, <1>6, <1>8, <2>2
  <2> QED BY <1>3, <2>1, <2>2
<1>9. Answered \subseteq Answered' /\ n \in Answered'
  <2>1. L + 1 \in 1..Len(Answers') /\ \A a \in 1..L : a \in 1..Len(Answers')
    BY <1>2
  <2> QED BY <1>1, <1>2, <1>4, <1>5, <2>1 DEF Answered
<1>10. ASSUME NEW i \in 1..(exec' - 1), ~async[i] \/ i < head' PROVE i \in Answered'
  <2>1. i = n \/ (i \in 1..(exec - 1) /\ (~async[i] \/ i < head))
    BY <1>0, <1>4, <1>10
  <2> QED BY <1>0, <1>9, <2>1 DEF AnswersKept
<1>11. AnswersKept'
  BY <1>7, <1>8, <1>10 DEF AnswersKept
<1>12. OrderWithinKind'
  <2> SUFFICES ASSUME NEW a \in 1..Len(Answers'), NEW b \in 1..Len(Answers'), a < b,
                      Answers'[a].cmd > 0, Answers'[b].cmd > 0,
                      async[Answers'[a].cmd] = async[Answers'[b].cmd]
               PROVE  Answers'[a].cmd < Answers'[b].cmd
    BY DEF OrderWithinKind
  <2>1. a \in 1..L /\ (b \in 1..L \/ b = L + 1)
    BY <1>2
  <2>2. CASE b \in 1..L
    BY <1>0, <1>1, <1>2, <2>1, <2>2 DEF OrderWithinKind
  <2>3. CASE b = L + 1
    BY <1>2, <1>4, <1>6, <2>1, <2>3
  <2> QED BY <2>1, <2>2, <2>3
<1> QED BY <1>11, <1>12 DEF AnswerInv

\* The protocol error goes between what was sent and what is batched.
LEMMA AnswersError ==
  ASSUME ConnectionInv, ParseError
  PROVE  AnswerInv' /\ out' \in Seq(ReplyType)
<1>0. /\ exec \in Nat /\ head \in Nat /\ batch \in Seq(ReplyType) /\ out \in Seq(ReplyType)
      /\ AnswersKept /\ OrderWithinKind /\ 1 <= head /\ head <= exec
  BY Basics DEF ConnectionInv
<1>1. PICK r : r = Reply(0, FALSE, 0)
  OBVIOUS
<1>2. r \in ReplyType /\ r.cmd = 0
  BY <1>1, ReplyTyped
<1>3. /\ pc = "parse" /\ pc' = "closed" /\ out' = Append(out, r)
      /\ UNCHANGED <<program, async, done, resp, head, exec, batch>>
  BY <1>1 DEF ParseError, inputVars, listVars
<1>4. PICK m : m = Len(out)
  OBVIOUS
<1>5. PICK n : n = Len(batch)
  OBVIOUS
<1>6. /\ m \in Nat /\ n \in Nat /\ out' \in Seq(ReplyType) /\ Len(out') = m + 1
      /\ out'[m + 1] = r /\ \A a \in 1..m : out'[a] = out[a]
  BY <1>0, <1>2, <1>3, <1>4, <1>5, AppendProperties
<1>7. /\ Len(Answers) = m + n
      /\ \A a \in 1..(m + n) : Answers[a] = IF a <= m THEN out[a] ELSE batch[a - m]
  BY <1>0, <1>4, <1>5, ConcatProperties DEF Answers
<1>8. /\ Len(Answers') = m + 1 + n
      /\ \A a \in 1..(m + 1 + n) : Answers'[a] = IF a <= m + 1 THEN out'[a] ELSE batch[a - (m + 1)]
  <2>1. PICK s : s = out'
    OBVIOUS
  <2>2. s \in Seq(ReplyType) /\ Len(s) = m + 1 /\ Answers' = s \o batch
    BY <1>3, <1>6, <2>1 DEF Answers
  <2>3. PICK t : t = s \o batch
    OBVIOUS
  <2>4. /\ Len(t) = Len(s) + Len(batch)
        /\ \A a \in 1..(Len(s) + Len(batch)) :
             t[a] = IF a <= Len(s) THEN s[a] ELSE batch[a - Len(s)]
    BY <1>0, <2>2, <2>3, ConcatProperties
  <2> QED BY <1>5, <2>1, <2>2, <2>3, <2>4
<1> DEFINE old(a) == IF a <= m THEN a ELSE a - 1
<1>9. Answers'[m + 1] = r /\ m + 1 \in 1..(m + 1 + n)
  BY <1>6, <1>8
<1>10. ASSUME NEW a \in 1..(m + 1 + n), a # m + 1
       PROVE  old(a) \in 1..(m + n) /\ Answers'[a] = Answers[old(a)]
  <2>1. CASE a <= m
    BY <1>6, <1>7, <1>8, <1>10, <2>1
  <2>2. CASE a > m
    <3>1. a - 1 \in 1..(m + n) /\ ~(a - 1 <= m) /\ ~(a <= m + 1) /\ (a - 1) - m = a - (m + 1)
      BY <1>6, <1>10, <2>2
    <3>2. Answers[a - 1] = batch[(a - 1) - m] /\ Answers'[a] = batch[a - (m + 1)]
      BY <1>7, <1>8, <3>1
    <3>3. old(a) = a - 1
      BY <1>6, <2>2
    <3> QED BY <3>1, <3>2, <3>3
  <2> QED BY <1>6, <2>1, <2>2
<1>11. \A a, b \in 1..(m + 1 + n) : a # m + 1 /\ b # m + 1 =>
         /\ old(a) = old(b) => a = b
         /\ a < b => old(a) < old(b)
  BY <1>6
<1>12. \A a \in 1..(m + n) : \E b \in 1..(m + 1 + n) : b # m + 1 /\ old(b) = a
  <2> TAKE a \in 1..(m + n)
  <2>1. CASE a <= m
    BY <1>6, <2>1
  <2>2. CASE a > m
    <3>1. a + 1 \in 1..(m + 1 + n) /\ a + 1 # m + 1 /\ ~(a + 1 <= m) /\ (a + 1) - 1 = a
      BY <1>6, <2>2
    <3> QED BY <3>1
  <2> QED BY <1>6, <2>1, <2>2
<1> HIDE DEF old
<1>13. ASSUME NEW a \in 1..(m + n)
       PROVE  /\ Answers[a].cmd \in Nat /\ Answers[a].cmd < exec /\ Answers[a].cmd # 0
              /\ async[Answers[a].cmd] => /\ Answers[a].cmd < head /\ done[Answers[a].cmd]
                                          /\ Answers[a].val = resp[Answers[a].cmd]
  <2>1. PICK i : i = Answers[a].cmd
    OBVIOUS
  <2>2. i \in Nat /\ i < exec
    BY <1>7, <2>1, AnswersTyped
  <2>3. /\ i # 0
        /\ i > 0 /\ async[i] => i < head /\ done[i] /\ Answers[a].val = resp[i]
    BY <1>0, <1>3, <1>7, <2>1 DEF AnswersKept
  <2> QED BY <2>1, <2>2, <2>3
<1>14. Answered \subseteq Answered'
  BY <1>7, <1>8, <1>10, <1>12 DEF Answered
<1>15. ASSUME NEW a \in 1..(m + 1 + n)
       PROVE  /\ Answers'[a].cmd < exec
              /\ Answers'[a].cmd > 0 /\ async[Answers'[a].cmd] =>
                  /\ Answers'[a].cmd < head /\ done[Answers'[a].cmd]
                  /\ Answers'[a].val = resp[Answers'[a].cmd]
  <2>1. CASE a = m + 1
    BY <1>0, <1>2, <1>9, <2>1
  <2>2. CASE a # m + 1
    BY <1>10, <1>13, <2>2
  <2> QED BY <2>1, <2>2
<1>16. ASSUME NEW a \in 1..(m + 1 + n), NEW b \in 1..(m + 1 + n),
              Answers'[a].cmd = Answers'[b].cmd
       PROVE  a = b
  <2>1. CASE a # m + 1 /\ b # m + 1
    <3>1. old(a) = old(b)
      BY <1>0, <1>7, <1>10, <1>16, <2>1 DEF AnswersKept
    <3> QED BY <1>11, <2>1, <3>1
  <2>2. CASE a = m + 1 \/ b = m + 1
    BY <1>2, <1>9, <1>10, <1>13, <1>16, <2>2
  <2> QED BY <2>1, <2>2
<1>17. AnswersKept'
  <2>1. \A i \in 1..(exec - 1) : ~async[i] \/ i < head => i \in Answered'
    BY <1>0, <1>14 DEF AnswersKept
  <2> QED BY <1>3, <1>8, <1>15, <1>16, <2>1 DEF AnswersKept
<1>18. OrderWithinKind'
  <2> SUFFICES ASSUME NEW a \in 1..(m + 1 + n), NEW b \in 1..(m + 1 + n), a < b,
                      Answers'[a].cmd > 0, Answers'[b].cmd > 0,
                      async[Answers'[a].cmd] = async[Answers'[b].cmd]
               PROVE  Answers'[a].cmd < Answers'[b].cmd
    BY <1>3, <1>8 DEF OrderWithinKind
  <2>1. a # m + 1 /\ b # m + 1
    BY <1>2, <1>9
  <2>2. /\ old(a) < old(b) /\ old(a) \in 1..Len(Answers) /\ old(b) \in 1..Len(Answers)
        /\ Answers'[a] = Answers[old(a)] /\ Answers'[b] = Answers[old(b)]
    BY <1>7, <1>10, <1>11, <2>1
  <2> QED BY <1>0, <2>2 DEF OrderWithinKind
<1> QED BY <1>6, <1>17, <1>18 DEF AnswerInv

(***************************************************************************)
(* Every step preserves the invariant.                                     *)
(***************************************************************************)
LEMMA ShapesKept ==
  ASSUME ConnectionInv, program' = program, async' \in [Number -> BOOLEAN],
         done' \in [Number -> BOOLEAN], resp' \in [Number -> Nat],
         batch' \in Seq(ReplyType), out' \in Seq(ReplyType),
         queue' \in [Key -> Seq(Nat)], db' \in [Key -> Nat], wrote' \subseteq Number,
         TypeOK', ShardInv', AnswerInv'
  PROVE  ConnectionInv'
<1>1. Number' = Number
  BY DEF Number
<1>2. Shapes'
  BY <1>1 DEF Shapes
<1> QED BY <1>2 DEF ConnectionInv, ShardInv, AnswerInv

LEMMA IdleInv ==
  ASSUME ConnectionInv, TypeOK', Idles
  PROVE  ConnectionInv'
<1>1. TypeOK' /\ Idles
  OBVIOUS
<1>2. /\ UNCHANGED <<program, exec, async, done, resp, head, batch, out, queue, db, wrote>>
      /\ pc \notin {"applying", "applied"} \/ pc' = pc
      /\ pc' \in {"submit", "applying", "applied"} => pc' = pc
      /\ pc = "closed" => pc' = "closed"
  BY <1>1 DEF Idles
<1>3. exec \in Nat /\ InProgress
  BY Basics DEF ConnectionInv
<1>4. pc' \in {"submit", "applying", "applied"} => exec' \in Number /\ Kind(exec)' = "set"
  BY <1>2, <1>3 DEF InProgress, Kind
<1>5. ShardInv'
  BY <1>2, <1>3, <1>4, ShardsKept
<1>6. AnswerInv'
  BY <1>2, AnswersSame
<1> QED BY <1>1, <1>2, <1>5, <1>6, Basics, ShapesKept

\* The fiber answers the command it dispatches.
LEMMA AnswerExecInv ==
  ASSUME ConnectionInv, NEW ok \in BOOLEAN, Sends(Reply(exec, ok, 0)), exec \in Number,
         pc \in {"dispatch", "submit", "applied"}, pc' = "dispatch", exec' = exec + 1,
         UNCHANGED <<program, sent, arrived, consumed, threshold, head, async, done, resp,
                     queue, db, wrote>>
  PROVE  ConnectionInv'
<1>0. /\ exec \in Nat /\ head \in Nat /\ 1 <= head /\ head <= exec /\ Len(program) \in Nat
      /\ Number = 1..Len(program) /\ batch \in Seq(ReplyType) /\ out \in Seq(ReplyType)
  BY Basics
<1>1. PICK r : r = Reply(exec, ok, 0)
  OBVIOUS
<1>2. r \in ReplyType /\ r.cmd = exec
  BY <1>0, <1>1, ReplyTyped
<1>3. batch' \in Seq(ReplyType) /\ out' \in Seq(ReplyType) /\ Answers' = Append(Answers, r)
  BY <1>0, <1>1, <1>2, SendAppends
<1>4. head' \in 1..exec' /\ exec' \in 1..(Len(program) + 1) /\ exec' > exec /\ exec' \in Nat
  BY <1>0
<1>5. TypeOK'
  BY <1>4, Basics, TypesKept DEF Places
<1>6. ShardInv'
  BY <1>0, <1>4, ShardsKept
<1>7. AnswerInv'
  BY <1>2, <1>3, AnswersNew
<1> QED BY <1>3, <1>5, <1>6, <1>7, Basics, ShapesKept

LEMMA AnswerActions ==
  ASSUME ConnectionInv, DispatchSync \/ GetRefused \/ SubmitRefused \/ SetStored
  PROVE  ConnectionInv'
<1> USE DEF inputVars, shardVars
<1>1. CASE DispatchSync
  <2>1. PICK ok \in BOOLEAN : ok = (Kind(exec) = "ping")
    BY Zenon
  <2>2. Sends(Reply(exec, ok, 0))
    BY <1>1, <2>1 DEF DispatchSync, Send, Sends
  <2>3. /\ exec \in Number /\ pc = "dispatch" /\ pc' = pc /\ exec' = exec + 1
        /\ UNCHANGED <<program, sent, arrived, consumed, threshold, head, async, done, resp,
                       queue, db, wrote>>
    BY <1>1 DEF DispatchSync, Ready, Listed
  <2> QED BY <2>2, <2>3, AnswerExecInv
<1>2. CASE GetRefused
  <2>1. Sends(Reply(exec, FALSE, 0))
    BY <1>2 DEF GetRefused, Send, Sends
  <2>2. /\ exec \in Number /\ pc = "dispatch" /\ pc' = pc /\ exec' = exec + 1
        /\ UNCHANGED <<program, sent, arrived, consumed, threshold, head, async, done, resp,
                       queue, db, wrote>>
    BY <1>2 DEF GetRefused, Ready, Listed
  <2> QED BY <2>1, <2>2, AnswerExecInv
<1>3. CASE SubmitRefused \/ SetStored
  <2>1. \E ok \in BOOLEAN : SetReplies(ok) /\ pc \in {"submit", "applied"}
    BY <1>3 DEF SubmitRefused, SetStored
  <2>2. PICK ok \in BOOLEAN : SetReplies(ok)
    BY <2>1
  <2>3. exec \in Number
    BY <2>1 DEF ConnectionInv, InProgress
  <2>4. Sends(Reply(exec, ok, 0))
    BY <2>2 DEF SetReplies, Send, Sends
  <2>5. /\ pc' = "dispatch" /\ exec' = exec + 1
        /\ UNCHANGED <<program, sent, arrived, consumed, threshold, head, async, done, resp,
                       queue, db, wrote>>
    BY <2>2 DEF SetReplies
  <2> QED BY <2>1, <2>3, <2>4, <2>5, AnswerExecInv
<1> QED BY <1>1, <1>2, <1>3

LEMMA DispatchGetInv ==
  ASSUME ConnectionInv, DispatchGet
  PROVE  ConnectionInv'
<1>0. /\ exec \in Nat /\ head \in Nat /\ 1 <= head /\ head <= exec /\ Len(program) \in Nat
      /\ Number = 1..Len(program) /\ async \in [Number -> BOOLEAN]
  BY Basics
<1>1. /\ exec \in Number /\ pc = "dispatch" /\ pc' = pc /\ exec' = exec + 1
      /\ async' = [async EXCEPT ![exec] = TRUE]
      /\ UNCHANGED <<program, sent, arrived, consumed, threshold, head, done, resp, batch, out,
                     db, wrote>>
  BY DEF DispatchGet, Ready, Listed, inputVars
<1>2. head' \in 1..exec' /\ exec' \in 1..(Len(program) + 1)
  BY <1>0, <1>1
<1>3. TypeOK'
  BY <1>1, <1>2, Basics, TypesKept
<1>4. async' \in [Number -> BOOLEAN]
  BY <1>0, <1>1
<1>5. AnswerInv'
  BY <1>1, AnswersSame
<1> QED BY <1>1, <1>3, <1>4, <1>5, Basics, DispatchGetShards, ShapesKept

LEMMA SubmitInv ==
  ASSUME ConnectionInv, DispatchSet \/ Submit
  PROVE  ConnectionInv'
<1>0. /\ exec \in Nat /\ head \in Nat /\ 1 <= head /\ head <= exec /\ Len(program) \in Nat
      /\ exec <= Len(program) + 1
  BY Basics
<1>1. /\ pc \in {"dispatch", "submit"} /\ pc' \in Places
      /\ UNCHANGED <<program, sent, arrived, consumed, threshold, head, exec, async, done, resp,
                     batch, out, db, wrote>>
  BY DEF DispatchSet, Submit, inputVars, listVars, replyVars, shardVars, Places
<1>2. head' \in 1..exec' /\ exec' \in 1..(Len(program) + 1)
  BY <1>0, <1>1
<1>3. TypeOK'
  BY <1>1, <1>2, Basics, TypesKept
<1>4. AnswerInv'
  BY <1>1, AnswersSame
<1>5. ShardInv' /\ queue' \in [Key -> Seq(Nat)]
  <2>1. CASE DispatchSet
    <3>1. pc' = "submit" /\ UNCHANGED queue /\ exec \in Number /\ Kind(exec) = "set"
      BY <2>1 DEF DispatchSet, Ready, Listed, shardVars
    <3>2. exec' \in Number /\ Kind(exec)' = "set"
      BY <1>1, <3>1 DEF Kind
    <3>3. exec' \in Nat /\ exec' >= exec
      BY <1>0, <1>1
    <3> QED BY <1>1, <2>1, <3>1, <3>2, <3>3, Basics, ShardsKept DEF DispatchSet
  <2> QED BY <2>1, SubmitShards
<1> QED BY <1>1, <1>3, <1>4, <1>5, Basics, ShapesKept

LEMMA ReplyReadyInv ==
  ASSUME ConnectionInv, ReplyReadyCommand
  PROVE  ConnectionInv'
<1>0. /\ exec \in Nat /\ head \in Nat /\ 1 <= head /\ head <= exec /\ Len(program) \in Nat
      /\ exec <= Len(program) + 1 /\ Number = 1..Len(program) /\ async \in [Number -> BOOLEAN]
      /\ batch \in Seq(ReplyType) /\ out \in Seq(ReplyType) /\ resp \in [Number -> Nat]
  BY Basics
<1>1. /\ pc = "reply" /\ pc' = pc /\ head # exec /\ head' = head + 1
      /\ (async[head] => done[head])
      /\ UNCHANGED <<program, sent, arrived, consumed, threshold, exec, async, done, resp,
                     queue, db, wrote>>
      /\ \/ async[head] /\ Sends(Reply(head, TRUE, resp[head]))
         \/ ~async[head] /\ UNCHANGED <<batch, out>>
  BY DEF ReplyReadyCommand, MayPop, CanReply, Send, Sends, inputVars, shardVars
<1>2. head < exec /\ head' \in 1..exec' /\ exec' \in 1..(Len(program) + 1) /\ head \in Number
      /\ exec' \in Nat /\ exec' >= exec
  BY <1>0, <1>1
<1>3. TypeOK'
  BY <1>1, <1>2, Basics, TypesKept
<1>4. ShardInv'
  BY <1>1, <1>2, ShardsKept
<1>5. AnswerInv' /\ batch' \in Seq(ReplyType) /\ out' \in Seq(ReplyType)
  <2>1. CASE ~async[head] /\ UNCHANGED <<batch, out>>
    BY <1>0, <1>1, <1>2, <2>1, AnswersSame
  <2>2. CASE async[head] /\ Sends(Reply(head, TRUE, resp[head]))
    <3>1. PICK r : r = Reply(head, TRUE, resp[head])
      OBVIOUS
    <3>2. resp[head] \in Nat
      BY <1>0, <1>2
    <3>3. r \in ReplyType /\ r.cmd = head /\ r.val = resp[head]
      BY <1>0, <3>1, <3>2, ReplyTyped
    <3>4. batch' \in Seq(ReplyType) /\ out' \in Seq(ReplyType) /\ Answers' = Append(Answers, r)
      BY <1>0, <2>2, <3>1, <3>3, SendAppends
    <3> QED BY <1>1, <1>2, <2>2, <3>3, <3>4, AnswersNew
  <2> QED BY <1>1, <2>1, <2>2
<1> QED BY <1>1, <1>3, <1>4, <1>5, Basics, ShapesKept

LEMMA ParseErrorInv ==
  ASSUME ConnectionInv, ParseError
  PROVE  ConnectionInv'
<1>0. /\ exec \in Nat /\ head \in Nat /\ 1 <= head /\ head <= exec /\ Len(program) \in Nat
      /\ exec <= Len(program) + 1
  BY Basics
<1>1. /\ pc = "parse" /\ pc' = "closed"
      /\ UNCHANGED <<program, sent, arrived, consumed, threshold, head, exec, async, done, resp,
                     batch, queue, db, wrote>>
  BY DEF ParseError, inputVars, listVars, shardVars
<1>2. head' \in 1..exec' /\ exec' \in 1..(Len(program) + 1) /\ exec' \in Nat /\ exec' >= exec
  BY <1>0, <1>1
<1>3. TypeOK'
  BY <1>1, <1>2, Basics, TypesKept DEF Places
<1>4. ShardInv'
  BY <1>1, <1>2, ShardsKept
<1> QED BY <1>1, <1>3, <1>4, Basics, AnswersError, ShapesKept

LEMMA ShardInvStep ==
  ASSUME ConnectionInv, NEW k \in Key, ShardStep(k)
  PROVE  ConnectionInv'
<1>0. /\ exec \in Nat /\ head \in Nat /\ 1 <= head /\ head <= exec /\ Len(program) \in Nat
      /\ exec <= Len(program) + 1 /\ pc \in Places /\ db \in [Key -> Nat]
      /\ done \in [Number -> BOOLEAN] /\ resp \in [Number -> Nat]
  BY Basics
<1>1. /\ UNCHANGED <<program, sent, arrived, consumed, threshold, head, exec, async, batch, out>>
      /\ pc' \in Places /\ (pc = "closed" => pc' = "closed")
  BY <1>0 DEF ShardStep, ShardGet, ShardSet, inputVars, listVars, replyVars, Places
<1>2. head' \in 1..exec' /\ exec' \in 1..(Len(program) + 1)
  BY <1>0, <1>1
<1>3. TypeOK'
  BY <1>1, <1>2, Basics, TypesKept
<1>4. CASE ShardGet(k)
  <2>1. PICK i \in Number : /\ async[i] /\ ~done[i] /\ done' = [done EXCEPT ![i] = TRUE]
                            /\ resp' = [resp EXCEPT ![i] = db[k]]
    BY <1>4, ShardGetShards
  <2>2. /\ done' \in [Number -> BOOLEAN] /\ resp' \in [Number -> Nat]
        /\ \A j \in Number : done[j] => done'[j] /\ resp'[j] = resp[j]
    BY <1>0, <2>1
  <2>3. AnswerInv'
    BY <1>1, <2>2, AnswersSame
  <2>4. UNCHANGED <<db, wrote>>
    BY <1>4 DEF ShardGet
  <2> QED BY <1>1, <1>3, <1>4, <2>2, <2>3, <2>4, Basics, ShardGetShards, ShapesKept
<1>5. CASE ShardSet(k)
  <2>1. UNCHANGED <<done, resp>>
    BY <1>5 DEF ShardSet, listVars
  <2>2. AnswerInv'
    BY <1>1, <2>1, AnswersSame
  <2> QED BY <1>1, <1>3, <1>5, <2>1, <2>2, Basics, ShardSetShards, ShapesKept
<1> QED BY <1>4, <1>5 DEF ShardStep

LEMMA ConnectionInit ==
  ASSUME Init
  PROVE  ConnectionInv
<1>1. program \in Seq(Command) /\ Len(program) \in Nat /\ Number = 1..Len(program)
  BY ProgramAssumption DEF Init, Number
<1>2. /\ async = [i \in Number |-> FALSE] /\ done = async /\ resp = [i \in Number |-> 0]
      /\ head = 1 /\ exec = 1 /\ pc = "top" /\ batch = <<>> /\ out = <<>>
      /\ queue = [k \in Key |-> <<>>] /\ db = [k \in Key |-> 0] /\ wrote = {}
      /\ sent = 0 /\ arrived = 0 /\ consumed = 0 /\ threshold = 0
  BY DEF Init
<1>3. <<>> \in Seq(ReplyType) /\ <<>> \in Seq(Nat) /\ Len(<<>>) = 0
  OBVIOUS
<1>4. TypeOK
  BY <1>1, <1>2 DEF TypeOK
<1>5. Shapes
  BY <1>2, <1>3 DEF Shapes
<1>6. InProgress
  BY <1>2 DEF InProgress
<1>7. QueuesOrdered
  <2>1. Max({0}) = 0
    BY MaxIs
  <2>2. ASSUME NEW k \in Key PROVE Queued(k) = {} /\ Len(queue[k]) = 0 /\ Applied(k) = {}
    BY <1>2, <1>3 DEF Queued, Applied
  <2>3. \A k \in Key : db[k] = Max({0} \cup Applied(k))
    BY <1>2, <2>1, <2>2
  <2> QED BY <2>2, <2>3 DEF QueuesOrdered
<1>8. Answers = <<>>
  BY <1>2, <1>3, ConcatEmptySeq DEF Answers
<1>9. AnswersKept
  BY <1>2, <1>3, <1>8 DEF AnswersKept
<1>10. OrderWithinKind
  BY <1>3, <1>8 DEF OrderWithinKind
<1>11. ReadsProgramOrder
  BY <1>2 DEF ReadsProgramOrder
<1> QED BY <1>4, <1>5, <1>6, <1>7, <1>9, <1>10, <1>11 DEF ConnectionInv

LEMMA ConnectionStep ==
  ASSUME ConnectionInv, [Next]_vars
  PROVE  ConnectionInv'
<1>1. CASE UNCHANGED vars
  <2>1. UNCHANGED <<program, sent, arrived, consumed, threshold, pc, head, exec, async, done, resp,
                    batch, out, queue, db, wrote>>
    BY <1>1 DEF vars, inputVars, listVars, replyVars, shardVars
  <2>2. Idles
    BY <2>1 DEF Idles
  <2>3. TypeOK
    BY DEF ConnectionInv
  <2>4. TypeOK'
    BY <2>1, <2>3 DEF TypeOK
  <2> QED BY <2>2, <2>4, IdleInv
<1>2. CASE IdleActions
  BY <1>2, IdleTypes, IdleInv
<1> QED BY <1>1, <1>2, AnswerActions, DispatchGetInv, SubmitInv, ReplyReadyInv, ParseErrorInv,
           ShardInvStep DEF Next, FiberStep, IdleActions

LEMMA ConnectionAlways == Spec => []ConnectionInv
  BY ConnectionInit, ConnectionStep, PTL DEF Spec

\* Connection keeps its types: the parser never runs past the buffer and the
\* list pointers stay in order.
THEOREM ConnectionTypes == Spec => []TypeOK
<1>1. ConnectionInv => TypeOK
  BY DEF ConnectionInv
<1> QED BY <1>1, ConnectionAlways, PTL

\* Every GET reads what program order says, whatever the client pipelines and
\* however the shards' threads interleave with the connection's.
THEOREM ProgramOrderKept == Spec => []ReadsProgramOrder
<1>1. ConnectionInv => ReadsProgramOrder
  BY DEF ConnectionInv
<1> QED BY <1>1, ConnectionAlways, PTL

\* Every command is answered once, by the time it leaves the list, and a GET
\* with what its shard found.
THEOREM EveryAnswerOnce == Spec => []AnsweredOnce
<1>1. ASSUME ConnectionInv PROVE AnsweredOnce
  <2>0. AnswersKept /\ exec \in Nat /\ head \in Nat /\ head <= exec
    BY <1>1, Basics DEF ConnectionInv
  <2>1. \A i \in 1..(head - 1) : i \in 1..(exec - 1) /\ i < head
    BY <2>0
  <2>2. 1..(head - 1) \subseteq Answered
    BY <2>0, <2>1 DEF AnswersKept
  <2>3. Answered \subseteq 1..(exec - 1)
    <3>1. ASSUME NEW a \in 1..Len(Answers), Answers[a].cmd # 0
          PROVE  Answers[a].cmd \in 1..(exec - 1)
      <4>1. Answers[a].cmd \in Nat /\ Answers[a].cmd < exec
        BY <1>1, AnswersTyped
      <4> QED BY <2>0, <3>1, <4>1
    <3> QED BY <3>1 DEF Answered
  <2> QED BY <2>0, <2>2, <2>3 DEF AnsweredOnce, AnswersKept
<1> QED BY <1>1, ConnectionAlways, PTL

\* GETs are answered in the order they were asked, and so are the others.
THEOREM OrderWithinKindKept == Spec => []OrderWithinKind
<1>1. ConnectionInv => OrderWithinKind
  BY DEF ConnectionInv
<1> QED BY <1>1, ConnectionAlways, PTL

=============================================================================
