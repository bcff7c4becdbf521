----------------------------- MODULE TgSession -----------------------------
(***************************************************************************)
(* client/client.cpp: the session that polls the Bot API and answers.      *)
(*                                                                         *)
(* One coroutine does everything, in this order: run() connects,           *)
(* handshake() makes a first poll, start_waiting() polls for ever.  Each   *)
(* poll sends the offset on top of update_stack; parse_result records the  *)
(* update it gets in update_stack and updated_set BEFORE send_command      *)
(* answers it over the same stream.  An exception in an answer is          *)
(* swallowed; one in a poll reconnects, or kills the process when it was   *)
(* the poll of handshake().  The process keeps nothing on disk: a new      *)
(* launch starts with an empty stack.                                      *)
(***************************************************************************)
EXTENDS TelegramApi, Sequences, FiniteSets, FiniteSetsExt

CONSTANTS
  Kind,          \* Kind[u]: what update u asks for, see Kinds
  Size,          \* Size[u]: length of update u, serialized
  Parts,         \* Parts[u]: messages an echo is cut into, photos a search finds
  ChunkSize,     \* the 512 of try_parse_message
  MaxLaunches    \* bound: how often the process is started

(***************************************************************************)
(* "foreign": an update without /message, or one send_echo cannot answer.  *)
(* "plain":   no command.      "echo":  /echo and text.                    *)
(* "document": /echo as the caption of a file.                             *)
(* "search":  /search as the caption of a photo.                           *)
(* "lookup":  /search with no photo in the message.                        *)
(***************************************************************************)
Kinds == {"foreign", "plain", "echo", "document", "search", "lookup"}

ASSUME SessionAssumption ==
  /\ Kind \in [Ids -> Kinds]
  /\ Size \in [Ids -> Nat]
  /\ Parts \in [Ids -> Nat]
  /\ ChunkSize \in Nat
  /\ MaxLaunches \in Nat

VARIABLES
  pc,            \* where the coroutine is suspended
  phase,         \* "handshake" in handshake(), "waiting" in start_waiting()
  update_stack,  \* the ids to ask for next; the last one is the top
  updated_set,   \* ids recorded as seen (an update's id plus one)
  cur,           \* the update being answered, 0 if none
  left,          \* messages of the answer still to send
  apology,       \* the answer in progress is the search_error text
  begun,         \* history: answers begun to each update in this launch
  finished,      \* history: updates whose answer ended, however it ended
  launches       \* number of launches so far

replyVars == <<cur, left, apology, begun, finished>>
idVars    == <<update_stack, updated_set>>
vars      == <<apiVars, pc, phase, idVars, replyVars, launches>>

Stopped  == {"off", "exited", "aborted"}
ReplyPcs == {"say", "saying", "askFile", "waitFile", "askBody", "waitBody",
             "hunt"}
Pcs      == Stopped \cup ReplyPcs \cup {"connect", "ask", "await", "shutdown"}

TypeOK ==
  /\ ApiTypeOK
  /\ pc \in Pcs
  /\ phase \in {"handshake", "waiting"}
  /\ update_stack \in Seq(2 .. MaxId + 1)
  /\ updated_set \in SUBSET (2 .. MaxId + 1)
  /\ cur \in Ids \cup {0}
  /\ left \in Nat
  /\ apology \in BOOLEAN
  /\ begun \in [Ids -> Nat]
  /\ finished \in SUBSET Ids
  /\ launches \in 0 .. MaxLaunches

Init ==
  /\ ApiInit
  /\ pc = "off"
  /\ phase = "handshake"
  /\ update_stack = <<>>
  /\ updated_set = {}
  /\ cur = 0
  /\ left = 0
  /\ apology = FALSE
  /\ begun = [u \in Ids |-> 0]
  /\ finished = {}
  /\ launches = 0

-----------------------------------------------------------------------------
(***************************************************************************)
(* The life of the process.                                                *)
(***************************************************************************)
\* main(): a fresh tg_session, with empty storage.
Launch ==
  /\ pc \in Stopped
  /\ launches < MaxLaunches
  /\ launches' = launches + 1
  /\ pc' = "connect"
  /\ phase' = "handshake"
  /\ update_stack' = <<>>
  /\ updated_set' = {}
  /\ cur' = 0
  /\ left' = 0
  /\ apology' = FALSE
  /\ begun' = [u \in Ids |-> 0]
  /\ UNCHANGED <<apiVars, finished>>

\* The process ends; its socket goes with it.
Stop(how) ==
  /\ pc' = how
  /\ conn' = "down"
  /\ wire' = Silence
  /\ UNCHANGED <<posted, queue, forgotten, phase, idVars, replyVars, launches>>

\* run(): the searcher's session, then resolve, connect and the TLS handshake.
Connect ==
  /\ pc = "connect"
  /\ conn' = "up"
  /\ pc' = "ask"
  /\ phase' = "handshake"
  /\ UNCHANGED <<posted, queue, forgotten, wire, idVars, replyVars, launches>>

\* An exception of run() or of shutdown() meets no handler: it ends the
\* detached coroutine, and io_context::run returns.
Exit ==
  /\ pc \in {"connect", "shutdown"}
  /\ Stop("exited")

\* The process is killed from outside.
Kill ==
  /\ pc \notin Stopped
  /\ Stop("exited")

\* start_waiting() after a failed poll: shut the stream down, make a new one.
Shutdown ==
  /\ pc = "shutdown"
  /\ pc' = "connect"
  /\ conn' = "down"
  /\ wire' = Silence
  /\ UNCHANGED <<posted, queue, forgotten, phase, idVars, replyVars, launches>>

-----------------------------------------------------------------------------
(***************************************************************************)
(* Polling.                                                                *)
(***************************************************************************)
\* Mutants: isLast is always set; one too far.
OffsetNewest == -1
OffsetBeyond ==
  IF update_stack = <<>> THEN -1 ELSE update_stack[Len(update_stack)] + 1

\* prepare_getUpdates: the top of the stack, -1 while there is none.
Offset ==
  IF update_stack = <<>> THEN -1 ELSE update_stack[Len(update_stack)]

\* start_getUpdates always writes a request: it passes isForce = true.
AskUpdates ==
  /\ pc = "ask"
  /\ conn = "up"
  /\ wire' = Message("getUpdates", Offset, {})
  /\ pc' = "await"
  /\ UNCHANGED <<posted, queue, forgotten, conn, phase, idVars, replyVars,
                 launches>>

\* parse_jsonArray_as_value glues the elements of "result" together without a
\* separator; try_parse_message then parses the first object of the text, and
\* complains of the rest only when the whole text fits in one chunk.
ParsesOnlyOne(batch) == Cardinality(batch) = 1   \* mutant: no second case

Parses(batch) ==
  \/ Cardinality(batch) = 1
  \/ MapThenSumSet(LAMBDA u : Size[u], batch) >= ChunkSize

Last(batch)  == {u \in batch : \A v \in batch : v <= u}   \* mutant of First
First(batch) == {u \in batch : \A v \in batch : u <= v}

\* parse_result has returned: on to the next round of start_waiting.
NextPoll ==
  /\ pc' = "ask"
  /\ phase' = "waiting"

\* An answer with no update in it.
ReadNothing ==
  /\ pc = "await"
  /\ \/ wire.kind = "refused"
     \/ wire.kind = "updates" /\ wire.batch = {}
  /\ wire' = Silence
  /\ NextPoll
  /\ UNCHANGED <<posted, queue, forgotten, conn, idVars, replyVars, launches>>

\* send_command: where the answer to u starts, and with how many messages.
\* "lookup" throws in find_photo and goes straight to the apology.
SendCommand(u) ==
  /\ cur' = u
  /\ begun' = [begun EXCEPT ![u] = @ + 1]
  /\ apology' = (Kind[u] = "lookup")
  /\ \/ /\ Kind[u] \in {"plain", "lookup"}
        /\ left' = 1
        /\ pc' = "say"
     \/ /\ Kind[u] = "echo"
        /\ left' = Parts[u]
        /\ pc' = "say"
     \/ /\ Kind[u] \in {"document", "search"}
        /\ left' = 0
        /\ pc' = "askFile"
  /\ UNCHANGED <<phase, finished>>

\* mes.value() of an empty optional throws, and parse_result catches.
Unanswerable(u) ==
  /\ Kind[u] = "foreign"
  /\ finished' = finished \cup {u}
  /\ NextPoll
  /\ UNCHANGED <<cur, begun, apology, left>>

OwnId(u) == u          \* mutant of NewId

\* update_id: what the next poll has to ask for.
NewId(u) == u + 1

\* Mutant: nothing is recorded until the update has been answered.
RecordNothing(id) == UNCHANGED idVars

\* update_stack.push(id) and updated_set.insert(id)
Record(id) ==
  /\ update_stack' = Append(update_stack, id)
  /\ updated_set' = updated_set \cup {id}

\* update_id and parse_result: record the id, and answer if it is a new one.
ParseResult ==
  /\ pc = "await"
  /\ wire.kind = "updates"
  /\ wire.batch # {}
  /\ Parses(wire.batch)
  /\ wire' = Silence
  /\ \E u \in First(wire.batch) :
       /\ Record(NewId(u))
       /\ IF NewId(u) \in updated_set
          THEN NextPoll /\ UNCHANGED replyVars
          ELSE SendCommand(u) \/ Unanswerable(u)
  /\ UNCHANGED <<posted, queue, forgotten, conn, launches>>

\* handshake() has no way to go on without its first poll: std::terminate.
\* start_waiting() reconnects.
PollFailed ==
  IF phase = "handshake"
  THEN Stop("aborted")
  ELSE /\ pc' = "shutdown"
       /\ wire' = Silence
       /\ UNCHANGED <<posted, queue, forgotten, conn, phase, idVars, replyVars,
                      launches>>

\* What read_response throws on: a body that is no JSON, an answer that is none
\* to a poll, or elements that do not parse once they are glued together.
Unreadable ==
  \/ wire.kind = "malformed"
  \/ wire.kind = "updates" /\ wire.batch # {} /\ ~ Parses(wire.batch)

ReadGarbled ==
  /\ pc = "await"
  /\ Unreadable
  /\ PollFailed

\* Reading from or writing to the broken stream throws.
PollBroken ==
  /\ pc \in {"ask", "await"}
  /\ conn = "lost"
  /\ PollFailed

-----------------------------------------------------------------------------
(***************************************************************************)
(* Answering: send_echo, send_search, send_message.                        *)
(***************************************************************************)
ReplyStep == UNCHANGED <<posted, queue, forgotten, conn, idVars, begun,
                         launches>>

EndReply ==
  /\ finished' = finished \cup {cur}
  /\ cur' = 0
  /\ left' = 0
  /\ apology' = FALSE
  /\ NextPoll

\* `from` is left for `to`; the answer goes on.
Goto(from, to) ==
  /\ pc = from
  /\ pc' = to
  /\ UNCHANGED <<phase, cur, finished>>

Write(kind) ==
  /\ conn = "up"
  /\ wire' = Request(kind)

\* Start sending n messages, or end when there is nothing to send.
Say(n) ==
  IF n = 0
  THEN EndReply
  ELSE /\ pc' = "say"
       /\ left' = n
       /\ UNCHANGED <<phase, cur, apology, finished>>

SayNext ==
  /\ left > 0
  /\ Goto("say", "saying")
  /\ Write("sendMessage")
  /\ UNCHANGED <<left, apology>>
  /\ ReplyStep

\* An echo of nothing but the command sends no message at all.
SayNothing ==
  /\ pc = "say"
  /\ left = 0
  /\ EndReply
  /\ UNCHANGED wire
  /\ ReplyStep

\* The answers to sendPhoto and getFile are parsed; send_message only waits for
\* one.
IsParsed ==
  \/ pc = "waitFile"
  \/ pc = "saying" /\ Kind[cur] = "search" /\ ~ apology

Said ==
  /\ pc = "saying"
  /\ wire.kind = "result" \/ (wire.kind = "malformed" /\ ~ IsParsed)
  /\ wire' = Silence
  /\ Say(left - 1)
  /\ ReplyStep

AskFile ==
  /\ Goto("askFile", "waitFile")
  /\ Write("getFile")
  /\ UNCHANGED <<left, apology>>
  /\ ReplyStep

\* No file_path: send_search asks again, without a pause; send_echo reads
\* again, though it has not asked for anything.
FileRefused ==
  /\ wire.kind = "refused"
  /\ wire' = Silence
  /\ Goto("waitFile", IF Kind[cur] = "search" THEN "askFile" ELSE "waitFile")
  /\ UNCHANGED <<left, apology>>
  /\ ReplyStep

FileGranted ==
  /\ wire.kind = "path"
  /\ wire' = Silence
  /\ Goto("waitFile", "askBody")
  /\ UNCHANGED <<left, apology>>
  /\ ReplyStep

AskBody ==
  /\ Goto("askBody", "waitBody")
  /\ Write("download")
  /\ UNCHANGED <<left, apology>>
  /\ ReplyStep

\* The file is echoed in parts, or searched for; an empty one ends the answer.
GotBody ==
  /\ pc = "waitBody"
  /\ wire.kind \in {"content", "empty"}
  /\ wire' = Silence
  /\ IF wire.kind = "content" /\ Kind[cur] = "search"
     THEN Goto("waitBody", "hunt") /\ UNCHANGED <<left, apology>>
     ELSE Say(IF wire.kind = "empty" THEN 0 ELSE Parts[cur])
  /\ ReplyStep

\* Commands::Search: the callback sends each photo found, there may be none.
SearchFound ==
  /\ pc = "hunt"
  /\ \E n \in 0 .. Parts[cur] : Say(n)
  /\ UNCHANGED wire
  /\ ReplyStep

\* send_command catches what send_search throws and sends search_error.
Apologise ==
  /\ pc' = "say"
  /\ left' = 1
  /\ apology' = TRUE
  /\ UNCHANGED <<phase, cur, finished>>

SearchFailed ==
  /\ pc = "hunt"
  /\ Apologise
  /\ UNCHANGED wire
  /\ ReplyStep

\* What is thrown in send_search leads to the apology; anywhere else it ends the
\* answer.
ReplyFailed ==
  IF Kind[cur] = "search" /\ ~ apology THEN Apologise ELSE EndReply

\* The stream is gone.
ReplyBroken ==
  /\ pc \in ReplyPcs \ {"hunt"}
  /\ conn = "lost"
  /\ ReplyFailed
  /\ UNCHANGED wire
  /\ ReplyStep

\* read_response cannot make an answer of what it has read.
ReplyGarbled ==
  /\ wire.kind = "malformed"
  /\ pc \in ReplyPcs
  /\ IsParsed
  /\ wire' = Silence
  /\ ReplyFailed
  /\ ReplyStep

-----------------------------------------------------------------------------
Poll  == AskUpdates \/ ReadNothing \/ ParseResult \/ ReadGarbled \/ PollBroken

Reply == \/ SayNext \/ SayNothing \/ Said
         \/ AskFile \/ FileRefused \/ FileGranted \/ AskBody \/ GotBody
         \/ SearchFound \/ SearchFailed \/ ReplyBroken \/ ReplyGarbled

Bot   == Connect \/ Exit \/ Shutdown \/ Poll \/ Reply

Api   == /\ Post \/ AnswerUpdates \/ Garble \/ Refuse \/ AnswerSend
              \/ GrantFile \/ SendFile \/ Sever
         /\ UNCHANGED <<pc, phase, idVars, replyVars, launches>>

Next  == Launch \/ Kill \/ Bot \/ Api

Spec  == Init /\ [][Next]_vars

(***************************************************************************)
(* Fairness.  The coroutine is resumed whenever it can go on.  Of the      *)
(* server: it answers; it does not refuse every poll or every file for     *)
(* ever, and the network does not lose every answer to a poll (SF); it     *)
(* closes a stream nobody speaks on.                                       *)
(***************************************************************************)
IdleClose == pc = "waitFile" /\ wire = Silence /\ Sever
             /\ UNCHANGED <<pc, phase, idVars, replyVars, launches>>

Fairness ==
  /\ WF_vars(Bot)
  /\ WF_vars(Api /\ (AnswerSend \/ SendFile))
  /\ SF_vars(Api /\ AnswerUpdates)
  /\ SF_vars(Api /\ GrantFile)
  /\ SF_vars(ParseResult)
  /\ WF_vars(IdleClose)

LiveSpec == Spec /\ Fairness

-----------------------------------------------------------------------------
(***************************************************************************)
(* Properties.                                                             *)
(***************************************************************************)
\* parse_result begins at most one answer to an update in one launch, however
\* often the stream breaks and the poll is repeated.
AtMostOnce == \A u \in Ids : begun[u] <= 1

\* The offsets on update_stack only go up, so prepare_getUpdates never asks
\* again for what it has passed, and updates are answered in order.
Ascending ==
  \A i, j \in 1 .. Len(update_stack) :
    i < j => update_stack[i] < update_stack[j]

\* An update leaves the server only once its answer has ended: a process that
\* dies in the middle of an answer leaves the update on the server.  The one
\* other way out is a request with offset -1.
Accounted ==
  \A u \in 1 .. posted : u \in queue \/ u \in finished \/ u \in forgotten

\* The server drops unanswered updates only while update_stack is empty, that
\* is, before the first update of a launch.
ForgetsOnlyWhenFresh == [][forgotten' # forgotten => update_stack = <<>>]_vars

\* std::terminate in handshake() needs a broken stream, an answer that is none,
\* or a batch with two short updates: where any two fill a chunk, no number of
\* updates at once kills the bot.
LongBatch ==
  \A u, v \in wire.batch : u # v => Size[u] + Size[v] >= ChunkSize

AbortsOnlyOnFailure ==
  [][LongBatch /\ pc # "aborted" /\ pc' = "aborted"
       => conn = "lost" \/ wire.kind = "malformed"]_vars

\* Whatever is refused, lost or broken on the way, an update sent to a bot that
\* keeps running is answered, given up or forgotten.
EventuallySettled ==
  \A u \in Ids :
    (u <= posted /\ pc \notin Stopped)
      ~> (u \in finished \/ u \in forgotten \/ pc \in Stopped)

(***************************************************************************)
(* The abstract specification: what the bot promises its users.            *)
(***************************************************************************)
Service == INSTANCE UpdateService WITH
  sent    <- posted,
  inbox   <- queue,
  done    <- {u \in Ids : u + 1 \in updated_set},
  current <- cur

\* Polls, streams and their failures implement UpdateService: updates are taken
\* up one at a time, oldest first, none twice in a launch, and the server drops
\* one only after it was dealt with or before the first of a launch.
ServiceSpec == Service!Spec

-----------------------------------------------------------------------------
(***************************************************************************)
(* The inductive invariant.                                                *)
(***************************************************************************)
Top == update_stack[Len(update_stack)]

\* Only a coroutine that waits for it has a poll or its answer on the stream,
\* and the poll asks for what is on top of the stack still.
PollOnWire ==
  /\ wire.kind \in {"getUpdates", "updates"} => pc = "await"
  /\ wire.kind = "getUpdates" => wire.offset = Offset
  /\ wire.kind = "updates" => wire.batch \subseteq queue

\* The server keeps nothing older than what it has just delivered, and delivers
\* nothing older than what it was asked for.
Delivered ==
  wire.kind = "updates" =>
    /\ \A u \in wire.batch, v \in queue \ wire.batch : u < v
    /\ update_stack # <<>> => \A u \in wire.batch : Top <= u

\* An answer is in progress in the steps of an answer, and only there.
Replying ==
  /\ pc \in ReplyPcs <=> cur # 0 /\ pc \notin Stopped
  /\ pc = "saying" => left > 0

\* The top of the stack is behind a sent update, nothing seen is above it, and
\* what was begun has been seen.
Recorded ==
  /\ update_stack # <<>> => Top <= posted + 1
  /\ \A x \in updated_set : update_stack # <<>> /\ x <= Top
  /\ \A u \in Ids : begun[u] = 1 => u + 1 \in updated_set

\* What the next poll will make the server drop has been dealt with, and was
\* taken up in this launch.
DealtWith ==
  update_stack # <<>> =>
    \A u \in queue : u < Top =>
      /\ u \in finished \/ u = cur
      /\ u + 1 \in updated_set

IInv ==
  /\ TypeOK
  /\ queue \subseteq 1 .. posted
  /\ PollOnWire
  /\ Delivered
  /\ Replying
  /\ Ascending
  /\ AtMostOnce
  /\ Recorded
  /\ DealtWith
  /\ Accounted
=============================================================================
