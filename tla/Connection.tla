----------------------------- MODULE Connection -----------------------------
(***************************************************************************)
(* One RESP connection: the input loop of service/dragonfly_connection.cc, *)
(* the list of parsed commands of protocol/conn_context.cc, the reply      *)
(* builder, the handlers of service/main_service.cc the commands reach,    *)
(* and the shard threads that serve them.                                  *)
(*                                                                         *)
(* The client pipelines a program of commands.  SET, PING and errors are   *)
(* answered by the connection's fiber while it dispatches; GET is handed   *)
(* to the shard of its key and answered later, from the list.  The fiber   *)
(* shares its thread with the receive callback, which runs only while the  *)
(* fiber is suspended; the shards run on other threads at any time.        *)
(*                                                                         *)
(* Bytes are abstracted to three units per command: the first completes    *)
(* the header (or the start of an inline line), the third the command.     *)
(***************************************************************************)
EXTENDS Integers, Sequences, FiniteSets, FiniteSetsExt

CONSTANTS
  Key,              \* one shard per key
  Programs,         \* what the client may pipeline: sequences of commands
  Linearizable      \* --linearizable_read: GET asks ReadIndex first

\* PING stands for the commands sent inline, "bad" for an unknown command or
\* a wrong number of arguments, "garbage" for what ParseMultiBulk refuses.
Command ==
  [kind : {"get", "set"}, key : Key]
    \cup [kind : {"ping", "bad", "garbage"}, key : {"none"}]

ASSUME KeyAssumption     == IsFiniteSet(Key) /\ Key # {}
ASSUME ProgramAssumption == Programs \subseteq Seq(Command) /\ Linearizable \in BOOLEAN

VARIABLES
  program,                   \* what the client sends
  sent, arrived, consumed,   \* units sent, in io_buf so far, and parsed
  notice,                    \* a receive notification the thread has not run
  mayRead,                   \* sock_might_have_data
  threshold                  \* min_parse_threshold

VARIABLES
  pc,                        \* where the fiber is in InputLoop
  head, exec,                \* parsed_head, to_execute: command numbers
  async, headReply,          \* execute_async, HEAD_REPLY of each command
  done, resp,                \* EXECUTE_DONE and resp: the value read, or 0
  batchMode, batch, out      \* should_batch_, batch_, what the sink was given

VARIABLES
  queue,                     \* per shard, the tasks it has not run
  db,                        \* per key, the number of the SET it holds, or 0
  wrote                      \* history: the SETs that were applied

inputVars == <<program, sent, arrived, consumed, notice, mayRead, threshold>>
listVars  == <<head, exec, async, headReply, done, resp>>
replyVars == <<batchMode, batch, out>>
shardVars == <<queue, db, wrote>>
vars      == <<inputVars, pc, listVars, replyVars, shardVars>>

Number   == 1..Len(program)
Kind(i)  == program[i].kind
InputLen == arrived - consumed

(***************************************************************************)
(* Parsing.  Every call of ParseRedis runs until the input is used up, so  *)
(* what is parsed is a function of what has arrived.                       *)
(***************************************************************************)

\* A multi-bulk command enters the list with its header, before its
\* arguments; an inline one (PING here) with its line.
Listed(i)   == i \in Number /\ consumed >= IF Kind(i) = "ping" THEN 3 * i ELSE 3 * i - 2
Complete(i) == i \in Number /\ consumed >= 3 * i

\* FAULT: an argument is taken before all of it is in the buffer.
ParsedPast(n) == 3 * ((n + 2) \div 3)

\* The units ParseRedis consumes of the first n: whole commands, the header
\* of a multi-bulk, whatever there is of an inline line (kept in the stash);
\* a bulk string stays in the buffer until all of it is there.
ParsedTo(n) ==
  IF n % 3 = 0 \/ Kind(n \div 3 + 1) = "ping" THEN n ELSE 3 * (n \div 3) + 1

Malformed(n) == \E i \in Number : Kind(i) = "garbage" /\ n >= 3 * i - 2

(***************************************************************************)
(* Replies.                                                                *)
(***************************************************************************)
Reply(i, ok, val) == [cmd |-> i, ok |-> ok, val |-> val]

\* FAULT: the batch is written behind the reply that flushes it.
SendBatchLast(r, batching) ==
  /\ batchMode' = batching
  /\ batch' = IF batching THEN Append(batch, r) ELSE <<>>
  /\ out' = IF batching THEN out ELSE Append(out, r) \o batch

\* BaseSerializer::Send: batched, or sent with everything batched before.
Send(r, batching) ==
  /\ batchMode' = batching
  /\ batch' = IF batching THEN Append(batch, r) ELSE <<>>
  /\ out' = IF batching THEN out ELSE out \o Append(batch, r)

\* CheckIfCanReply without its side effect.
CanReply(i) == Complete(i) /\ (async[i] => done[i])

\* FAULT: the head is looked at without asking for a notification.
PeeksOnly(i) == UNCHANGED headReply

\* The side effect: the shard that completes this command is to notify.
AsksNotice(i) ==
  headReply' = [headReply EXCEPT ![i] = @ \/ (Complete(i) /\ async[i] /\ ~done[i])]

(***************************************************************************)
(* The client and the receive callback.                                    *)
(***************************************************************************)
ClientSends ==
  /\ sent < 3 * Len(program)
  /\ sent' = sent + 1
  /\ notice' = TRUE
  /\ UNCHANGED <<program, arrived, consumed, mayRead, threshold, pc, listVars,
                 replyVars, shardVars>>

\* DoRead takes all there is; if there is nothing the socket "might have
\* data" still.
DoRead == arrived' = sent /\ mayRead' = (arrived = sent)

Suspended == pc \in {"sleep", "submit", "applying"}

\* The callback reads into io_buf and notifies the event count.
OnRecv ==
  /\ notice /\ Suspended
  /\ notice' = FALSE
  /\ DoRead
  /\ pc' = IF pc = "sleep" THEN "await" ELSE pc
  /\ UNCHANGED <<program, sent, consumed, threshold, listVars, replyVars, shardVars>>

(***************************************************************************)
(* InputLoop.                                                              *)
(***************************************************************************)
LoopTop ==
  /\ pc = "top"
  /\ pc' = "await"
  /\ IF mayRead /\ InputLen <= threshold
     THEN DoRead ELSE UNCHANGED <<arrived, mayRead>>
  /\ UNCHANGED <<program, sent, consumed, notice, threshold, listVars, replyVars,
                 shardVars>>

\* The condition of evc_.await.
Awake == InputLen > threshold \/ (Listed(head) /\ CanReply(head))

AwaitDone ==
  /\ pc = "await" /\ Awake
  /\ pc' = "parse"
  /\ UNCHANGED <<inputVars, listVars, replyVars, shardVars>>

\* The condition is false: it has marked the head, and the fiber sleeps.  The
\* event count closes the gap between the check and the sleep.
AwaitSleeps ==
  /\ pc = "await" /\ ~Awake
  /\ pc' = "sleep"
  /\ IF Listed(head) THEN AsksNotice(head) ELSE UNCHANGED headReply
  /\ UNCHANGED <<inputVars, head, exec, async, done, resp, replyVars, shardVars>>

ParseRedis ==
  /\ pc = "parse" /\ ~Malformed(arrived)
  /\ consumed' = ParsedTo(arrived)
  /\ threshold' = arrived - ParsedTo(arrived)
  /\ pc' = "dispatch"
  /\ UNCHANGED <<program, sent, arrived, notice, mayRead, listVars, replyVars,
                 shardVars>>

\* The loop ends: SendProtocolError writes past the reply builder.  Commands
\* parsed before the malformed one but not yet dispatched never are.
ParseError ==
  /\ pc = "parse" /\ Malformed(arrived)
  /\ pc' = "closed"
  /\ out' = Append(out, Reply(0, FALSE, 0))
  /\ UNCHANGED <<inputVars, listVars, batchMode, batch, shardVars>>

Ready(i) == Listed(i) /\ Complete(i)

\* Batch mode while command i is dispatched: the next one is ready too.
BatchAhead(i) == Complete(i + 1) /\ CanReply(i + 1)

\* FAULT: the watermark is taken after the fiber was suspended in SET.
MarksLate ==
  /\ pc = "dispatch" /\ ~Ready(exec)
  /\ pc' = "reply"
  /\ threshold' = InputLen
  /\ UNCHANGED <<program, sent, arrived, consumed, notice, mayRead, listVars,
                 replyVars, shardVars>>

NothingToDispatch ==
  /\ pc = "dispatch" /\ ~Ready(exec)
  /\ pc' = "reply"
  /\ UNCHANGED <<inputVars, listVars, replyVars, shardVars>>

\* PING, an unknown command or a wrong number of arguments: answered at once.
DispatchSync ==
  /\ pc = "dispatch" /\ Ready(exec) /\ Kind(exec) \in {"ping", "bad"}
  /\ Send(Reply(exec, Kind(exec) = "ping", 0), BatchAhead(exec))
  /\ exec' = exec + 1
  /\ UNCHANGED <<inputVars, pc, head, async, headReply, done, resp, shardVars>>

\* Service::Get: the callback goes to the shard's queue.
DispatchGet ==
  LET i == exec IN
  /\ pc = "dispatch" /\ Ready(i) /\ Kind(i) = "get"
  /\ async' = [async EXCEPT ![i] = TRUE]
  /\ queue' = [queue EXCEPT ![program[i].key] = Append(@, i)]
  /\ batchMode' = BatchAhead(i)
  /\ exec' = exec + 1
  /\ UNCHANGED <<inputVars, pc, head, headReply, done, resp, batch, out, db, wrote>>

\* ReadIndex returned 0: an error, answered at once.
GetRefused ==
  /\ Linearizable /\ pc = "dispatch" /\ Ready(exec) /\ Kind(exec) = "get"
  /\ Send(Reply(exec, FALSE, 0), BatchAhead(exec))
  /\ exec' = exec + 1
  /\ UNCHANGED <<inputVars, pc, head, async, headReply, done, resp, shardVars>>

DispatchSet ==
  /\ pc = "dispatch" /\ Ready(exec) /\ Kind(exec) = "set"
  /\ batchMode' = BatchAhead(exec)
  /\ pc' = "submit"
  /\ UNCHANGED <<inputVars, listVars, batch, out, shardVars>>

\* FAULT: the write is made by the connection's thread, past the queue.
SubmitDirect ==
  /\ pc = "submit"
  /\ db' = [db EXCEPT ![program[exec].key] = exec]
  /\ wrote' = wrote \cup {exec}
  /\ pc' = "applied"
  /\ UNCHANGED <<inputVars, listVars, replyVars, queue>>

\* SubmitCommand: the entry commits and its write is queued on the shard; the
\* fiber stays suspended until the shard has run it.
Submit ==
  /\ pc = "submit"
  /\ queue' = [queue EXCEPT ![program[exec].key] = Append(@, exec)]
  /\ pc' = "applying"
  /\ UNCHANGED <<inputVars, listVars, replyVars, db, wrote>>

SetReplies(ok) ==
  /\ Send(Reply(exec, ok, 0), batchMode)
  /\ exec' = exec + 1
  /\ pc' = "dispatch"
  /\ UNCHANGED <<inputVars, head, async, headReply, done, resp, shardVars>>

\* Not the leader: refused before anything is appended.
SubmitRefused == pc = "submit" /\ SetReplies(FALSE)

SetStored == pc = "applied" /\ SetReplies(TRUE)

\* FAULT: the head is dropped whether its answer is there or not.
PopsAnyway(i) == TRUE

MayPop(i) == CanReply(i)

\* ReplyReadyCommands takes the head off the list and sends what its shard
\* answered; a command answered during dispatch has nothing left to send, and
\* sets the batch mode without a send.
ReplyReadyCommand ==
  LET batching == /\ head + 1 < exec /\ Kind(head + 1) # "bad"
                  /\ CanReply(head + 1)
  IN /\ pc = "reply" /\ head # exec /\ MayPop(head)
     /\ head' = head + 1
     /\ IF async[head] THEN Send(Reply(head, TRUE, resp[head]), batching)
        ELSE batchMode' = batching /\ UNCHANGED <<batch, out>>
     /\ UNCHANGED <<inputVars, pc, exec, async, headReply, done, resp, shardVars>>

RepliesDone ==
  /\ pc = "reply" /\ (head = exec \/ ~MayPop(head))
  /\ pc' = "top"
  /\ IF head # exec THEN AsksNotice(head) ELSE UNCHANGED headReply
  /\ UNCHANGED <<inputVars, head, exec, async, done, resp, replyVars, shardVars>>

(***************************************************************************)
(* A shard thread runs the first task of its queue.                        *)
(***************************************************************************)

\* SendGetReply, SendGetNotFound: store the answer, then the done bit; notify
\* if the fiber has marked the command.
ShardGet(k) ==
  LET i == Head(queue[k]) IN
  /\ queue[k] # <<>> /\ Kind(i) = "get"
  /\ queue' = [queue EXCEPT ![k] = Tail(@)]
  /\ done' = [done EXCEPT ![i] = TRUE]
  /\ resp' = [resp EXCEPT ![i] = db[k]]
  /\ pc' = IF headReply[i] /\ pc = "sleep" THEN "await" ELSE pc
  /\ UNCHANGED <<inputVars, head, exec, async, headReply, replyVars, db, wrote>>

ShardSet(k) ==
  LET i == Head(queue[k]) IN
  /\ queue[k] # <<>> /\ Kind(i) = "set"
  /\ queue' = [queue EXCEPT ![k] = Tail(@)]
  /\ db' = [db EXCEPT ![k] = i]
  /\ wrote' = wrote \cup {i}
  /\ pc' = IF pc = "applying" THEN "applied" ELSE pc
  /\ UNCHANGED <<inputVars, listVars, replyVars>>

Init ==
  /\ program \in Programs
  /\ sent = 0 /\ arrived = 0 /\ consumed = 0 /\ threshold = 0
  /\ notice = FALSE /\ mayRead = TRUE
  /\ pc = "top" /\ head = 1 /\ exec = 1
  /\ async = [i \in Number |-> FALSE] /\ headReply = async /\ done = async
  /\ resp = [i \in Number |-> 0]
  /\ batchMode = FALSE /\ batch = <<>> /\ out = <<>>
  /\ queue = [k \in Key |-> <<>>] /\ db = [k \in Key |-> 0] /\ wrote = {}

FiberStep ==
  \/ LoopTop \/ AwaitDone \/ AwaitSleeps \/ ParseRedis \/ ParseError
  \/ NothingToDispatch \/ DispatchSync \/ DispatchGet \/ GetRefused
  \/ DispatchSet \/ Submit \/ SubmitRefused \/ SetStored
  \/ ReplyReadyCommand \/ RepliesDone

ShardStep(k) == ShardGet(k) \/ ShardSet(k)

Next == ClientSends \/ OnRecv \/ FiberStep \/ \E k \in Key : ShardStep(k)

Spec == Init /\ [][Next]_vars

\* Fibers that can run do, shard threads empty their queues, the proactor runs
\* the callback of a notification; the client may stop at any time.
FairSpec ==
  /\ Spec
  /\ WF_vars(FiberStep) /\ WF_vars(OnRecv)
  /\ \A k \in Key : WF_vars(ShardStep(k))

(***************************************************************************)
(* Properties.                                                             *)
(***************************************************************************)

\* The answers given so far, delivered or batched, in the order the client
\* will see them.
Answers    == out \o batch
Answered   == {Answers[i].cmd : i \in 1..Len(Answers)} \ {0}
Longest    == Max({Len(p) : p \in Programs})
LastSet(i) == Max({0} \cup {j \in wrote : j < i /\ program[j].key = program[i].key})

TypeOK ==
  /\ program \in Seq(Command)
  /\ {sent, arrived, consumed, threshold} \subseteq Nat
  /\ consumed <= arrived /\ arrived <= sent
  /\ head \in 1..exec /\ exec \in 1..(Len(program) + 1)
  /\ pc \in {"top", "await", "sleep", "parse", "dispatch", "submit",
             "applying", "applied", "reply", "closed"}

\* Program order: a GET answers with the last SET of its key that the client
\* pipelined before it, although the GET is served later by another thread
\* and SETs behind it run meanwhile (the shard queue's order, and SET
\* suspending the fiber until it is applied).
ReadsProgramOrder ==
  \A i \in Number : done[i] => resp[i] = LastSet(i)

\* Each command taken off the list has been answered exactly once, no command
\* that is not dispatched has been answered, and the answer of a GET is what
\* its shard found, not an answer that was not there yet.
AnsweredOnce ==
  /\ \A a \in 1..Len(Answers) :
       LET i == Answers[a].cmd
       IN i > 0 /\ async[i] => done[i] /\ Answers[a].val = resp[i]
  /\ \A a, b \in 1..Len(Answers) :
       Answers[a].cmd = Answers[b].cmd => a = b
  /\ 1..(head - 1) \subseteq Answered
  /\ Answered \subseteq 1..(exec - 1)

\* GETs are answered in the order they were asked, whichever shard is first,
\* and so are the commands answered during dispatch.
OrderWithinKind ==
  \A a, b \in 1..Len(Answers) :
    /\ a < b /\ Answers[a].cmd > 0 /\ Answers[b].cmd > 0
    /\ async[Answers[a].cmd] = async[Answers[b].cmd]
    => Answers[a].cmd < Answers[b].cmd

\* Why: the inductive invariant behind these four.  The fiber waits for its SET,
\* so the only SET in a queue is the one it waits for;
ReplyType == [cmd : Nat, ok : BOOLEAN, val : Nat]

Shapes ==
  /\ {async, done} \subseteq [Number -> BOOLEAN]
  /\ resp \in [Number -> Nat]
  /\ batch \in Seq(ReplyType) /\ out \in Seq(ReplyType)
  /\ queue \in [Key -> Seq(Nat)] /\ db \in [Key -> Nat] /\ wrote \subseteq Number

InProgress ==
  /\ pc \in {"submit", "applying", "applied"} => exec \in Number /\ Kind(exec) = "set"
  /\ \A i \in Number :
       (async[i] => Kind(i) = "get" /\ i < exec) /\ (done[i] => async[i])
  /\ \A j \in wrote : j < exec \/ (j = exec /\ pc = "applied")

Queued(k)  == {queue[k][a] : a \in 1..Len(queue[k])}
Applied(k) == {j \in wrote : program[j].key = k}

\* a queue is in program order, behind everything applied to its key;
QueuesOrdered ==
  \A k \in Key :
    /\ \A i \in Queued(k) :
         /\ i \in Number /\ program[i].key = k
         /\ \/ Kind(i) = "get" /\ async[i] /\ ~done[i]
            \/ Kind(i) = "set" /\ i = exec /\ pc = "applying"
         /\ \A j \in Applied(k) : j < i
    /\ \A a, b \in 1..Len(queue[k]) : a < b => queue[k][a] < queue[k][b]
    /\ db[k] = Max({0} \cup Applied(k))

\* and what is dispatched is answered at once or, by its shard, before it
\* leaves the list.
AnswersKept ==
  /\ \A a \in 1..Len(Answers) :
       LET i == Answers[a].cmd
       IN /\ i < exec /\ (i = 0 => pc = "closed")
          /\ i > 0 /\ async[i] => i < head /\ done[i] /\ Answers[a].val = resp[i]
  /\ \A i \in 1..(exec - 1) : ~async[i] \/ i < head => i \in Answered
  /\ \A a, b \in 1..Len(Answers) : Answers[a].cmd = Answers[b].cmd => a = b

ConnectionInv ==
  /\ TypeOK /\ Shapes /\ InProgress /\ QueuesOrdered /\ AnswersKept
  /\ ReadsProgramOrder /\ OrderWithinKind

\* No lost wake-up: a GET its shard has served gets its answer, even if the
\* client sends nothing more (the two bits of ParsedCommand::state).
ServedIsAnswered ==
  \A i \in 1..Longest :
    (i \in Number /\ done[i]) ~> (pc = "closed" \/ head > i)

\* No stalled input: a command that is all there is executed, however its
\* bytes were split (the parse threshold and the read hints).
SentIsExecuted ==
  \A i \in 1..Longest :
    (i \in Number /\ sent >= 3 * i) ~> (pc = "closed" \/ exec > i)

\* Responses come in the order of the requests.
RepliesInOrder ==
  \A a, b \in 1..Len(Answers) :
    a < b /\ Answers[b].cmd > 0 => Answers[a].cmd < Answers[b].cmd

\* Once everything is executed and served, everything is sent.
RepliesDelivered ==
  (\A i \in Number : exec > i) ~> (pc = "closed" \/ batch = <<>>)

=============================================================================
