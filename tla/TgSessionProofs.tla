-------------------------- MODULE TgSessionProofs --------------------------
(***************************************************************************)
(* TgSession for every number and kind of updates, however often the       *)
(* process is killed and launched again and the stream breaks.             *)
(***************************************************************************)
EXTENDS TgSession, Arithmetic, SequenceTheorems

\* The initial state: no update was sent, and the bot does not run.
LEMMA InitIInv == Init => IInv
<1> SUFFICES ASSUME Init PROVE IInv
  OBVIOUS
<1> USE MaxIdAssumption, SessionAssumption DEF Init, ApiInit
<1>1. TypeOK
  <2>1. update_stack \in Seq(2 .. MaxId + 1)
    OBVIOUS
  <2>2. wire \in Messages
    BY DEF Messages, Silence, Message
  <2>3. begun \in [Ids -> Nat] /\ pc \in Pcs
    BY DEF Pcs, Stopped
  <2>4. apology \in BOOLEAN
    BY Zenon
  <2>5. posted \in 0 .. MaxId /\ launches \in 0 .. MaxLaunches
    OBVIOUS
  <2>6. QED
    BY <2>1, <2>2, <2>3, <2>4, <2>5 DEF TypeOK, ApiTypeOK
<1>2. PollOnWire /\ Delivered
  BY DEF PollOnWire, Delivered, Silence, Message
<1>3. Replying
  BY DEF Replying, ReplyPcs, Stopped
<1>4. Ascending /\ AtMostOnce /\ Recorded /\ DealtWith /\ Accounted
  BY DEF Ascending, AtMostOnce, Recorded, DealtWith, Accounted
<1>5. QED
  BY <1>1, <1>2, <1>3, <1>4 DEF IInv

\* What the stack says of its top.
LEMMA TopProperties ==
  ASSUME IInv, update_stack # <<>>
  PROVE  /\ Len(update_stack) \in Nat \ {0}
         /\ Top \in 2 .. MaxId + 1
         /\ Offset = Top
         /\ Offset # -1
<1>1. update_stack \in Seq(2 .. MaxId + 1)
  BY DEF IInv, TypeOK
<1>2. Len(update_stack) \in Nat \ {0}
  BY <1>1
<1>3. Top \in 2 .. MaxId + 1
  <2> DEFINE S == 2 .. MaxId + 1
  <2>1. update_stack \in Seq(S) /\ Len(update_stack) \in 1 .. Len(update_stack)
    BY <1>1, <1>2
  <2> HIDE DEF S
  <2>2. Top \in S
    BY <2>1, ElementOfSeq DEF Top
  <2>3. QED
    BY <2>2 DEF S
<1>4. QED
  BY <1>2, <1>3, MaxIdAssumption DEF Offset, Top

(***************************************************************************)
(* Most steps record nothing and touch no poll.                            *)
(***************************************************************************)
Quiet ==
  /\ UNCHANGED <<posted, queue, forgotten, idVars, begun>>
  /\ wire'.kind \notin {"getUpdates", "updates"}
  /\ finished \subseteq finished'
  /\ cur' = cur \/ (cur' = 0 /\ cur \in finished')
  /\ TypeOK'
  /\ Replying'

LEMMA QuietStep ==
  ASSUME IInv, Quiet
  PROVE  IInv'
<1> USE DEF IInv, Quiet, idVars
<1>1. PollOnWire' /\ Delivered'
  BY DEF PollOnWire, Delivered
<1>2. Ascending' /\ AtMostOnce'
  BY DEF Ascending, AtMostOnce
<1>3. Recorded'
  BY DEF Recorded, Top
<1>4. DealtWith'
  BY MaxIdAssumption DEF DealtWith, Top, Ids
<1>5. Accounted'
  BY DEF Accounted
<1>6. QED
  BY <1>1, <1>2, <1>3, <1>4, <1>5

\* What the messages of a stream that is not polled are.
LEMMA NoPoll ==
  ASSUME NEW kind \in {"sendMessage", "getFile", "download", "refused",
                       "result", "path", "content", "empty", "malformed"}
  PROVE  /\ Request(kind) \in Messages
         /\ Request(kind).kind \notin {"getUpdates", "updates"}
         /\ Silence \in Messages
         /\ Silence.kind \notin {"getUpdates", "updates"}
  BY DEF Request, Silence, Message, Messages, Requests, Answers

\* The process stops.
LEMMA StopQuiet ==
  ASSUME IInv, NEW how \in {"exited", "aborted"}, Stop(how)
  PROVE  Quiet
<1>1. Silence \in Messages /\ Silence.kind \notin {"getUpdates", "updates"}
  BY NoPoll
<1>2. TypeOK'
  BY <1>1 DEF IInv, TypeOK, ApiTypeOK, Stop, Pcs, Stopped, idVars, replyVars
<1>3. Replying'
  BY DEF Replying, Stop, Stopped, ReplyPcs
<1>4. QED
  BY <1>1, <1>2, <1>3 DEF Quiet, Stop, idVars, replyVars

\* Steps of the server and the network that carry no update.
LEMMA ApiQuiet ==
  ASSUME IInv, UNCHANGED <<pc, phase, idVars, replyVars, launches>>,
         Refuse \/ AnswerSend \/ GrantFile \/ SendFile \/ Sever
  PROVE  Quiet
<1>1. /\ wire' \in Messages
      /\ wire'.kind \notin {"getUpdates", "updates"}
      /\ conn' \in {"down", "up", "lost"}
      /\ UNCHANGED <<posted, queue, forgotten>>
  BY NoPoll
     DEF IInv, TypeOK, ApiTypeOK, Refuse, AnswerSend, GrantFile, SendFile, Sever
<1>2. TypeOK'
  BY <1>1 DEF IInv, TypeOK, ApiTypeOK, idVars, replyVars
<1>3. Replying'
  BY DEF IInv, Replying, replyVars
<1>4. QED
  BY <1>1, <1>2, <1>3 DEF Quiet, idVars, replyVars

\* Steps between two polls or before the first one.
LEMMA BetweenPolls ==
  ASSUME IInv, Connect \/ Shutdown \/ ReadNothing
  PROVE  Quiet
<1> USE DEF IInv
<1>1. /\ wire' \in Messages
      /\ wire'.kind \notin {"getUpdates", "updates"}
      /\ conn' \in {"down", "up", "lost"}
      /\ UNCHANGED <<posted, queue, forgotten, idVars, replyVars, launches>>
  BY NoPoll DEF TypeOK, ApiTypeOK, PollOnWire, Connect, Shutdown, ReadNothing
<1>2. /\ pc \in {"connect", "shutdown", "await"}
      /\ pc' \in {"connect", "ask"}
      /\ phase' \in {"handshake", "waiting"}
  BY DEF TypeOK, Connect, Shutdown, ReadNothing, NextPoll
<1>3. TypeOK'
  BY <1>1, <1>2 DEF TypeOK, ApiTypeOK, Pcs, idVars, replyVars
<1>4. Replying'
  BY <1>1, <1>2 DEF Replying, ReplyPcs, Stopped, replyVars
<1>5. QED
  BY <1>1, <1>3, <1>4 DEF Quiet, idVars, replyVars

(***************************************************************************)
(* Steps of an answer: what they leave alone, and how they go on.          *)
(***************************************************************************)
LEMMA Answering ==
  ASSUME IInv, pc \in ReplyPcs
  PROVE  cur \in Ids /\ cur # 0 /\ wire.kind \notin {"getUpdates", "updates"}
  BY DEF IInv, TypeOK, Replying, PollOnWire, ReplyPcs, Stopped, Ids

\* The answer goes on with another step.
LEMMA GoesOn ==
  ASSUME IInv, ReplyStep, pc \in ReplyPcs, pc' \in ReplyPcs,
         UNCHANGED <<phase, cur, finished>>,
         left' \in Nat, apology' \in BOOLEAN, pc' = "saying" => left' > 0,
         wire' \in Messages, wire'.kind \notin {"getUpdates", "updates"}
  PROVE  Quiet
<1>1. cur \in Ids /\ cur # 0
  BY Answering
<1>2. TypeOK'
  BY DEF IInv, TypeOK, ApiTypeOK, Pcs, ReplyStep, idVars
<1>3. Replying'
  BY <1>1 DEF Replying, ReplyPcs, Stopped
<1>4. QED
  BY <1>2, <1>3 DEF Quiet, ReplyStep, idVars

\* The answer ends.
LEMMA Ends ==
  ASSUME IInv, ReplyStep, pc \in ReplyPcs, EndReply,
         wire' \in Messages, wire'.kind \notin {"getUpdates", "updates"}
  PROVE  Quiet
<1>1. cur \in Ids /\ cur # 0
  BY Answering
<1>2. apology' \in BOOLEAN
  BY Zenon DEF EndReply
<1>3. TypeOK'
  BY <1>1, <1>2
     DEF IInv, TypeOK, ApiTypeOK, Pcs, ReplyStep, EndReply, NextPoll, idVars
<1>4. Replying'
  BY DEF Replying, ReplyPcs, Stopped, EndReply, NextPoll
<1>5. QED
  BY <1>3, <1>4 DEF Quiet, ReplyStep, EndReply, idVars

\* A step of an answer that writes a request or takes an answer off the stream.
LEMMA WrittenOrRead ==
  ASSUME IInv, pc \in ReplyPcs,
         \/ UNCHANGED wire
         \/ wire' = Silence
         \/ \E kind \in {"sendMessage", "getFile", "download"} :
              wire' = Request(kind)
  PROVE  wire' \in Messages /\ wire'.kind \notin {"getUpdates", "updates"}
<1>1. CASE UNCHANGED wire
  BY <1>1, Answering DEF IInv, TypeOK, ApiTypeOK
<1>2. CASE wire' = Silence
  BY <1>2, NoPoll
<1>3. CASE \E kind \in {"sendMessage", "getFile", "download"} :
             wire' = Request(kind)
  BY <1>3, NoPoll
<1>4. QED
  BY <1>1, <1>2, <1>3

\* What Say does: it ends the answer or goes on with it.
LEMMA SayQuiet ==
  ASSUME IInv, ReplyStep, pc \in ReplyPcs, NEW n \in Nat, Say(n),
         UNCHANGED wire \/ wire' = Silence
  PROVE  Quiet
<1>1. wire' \in Messages /\ wire'.kind \notin {"getUpdates", "updates"}
  BY WrittenOrRead
<1>2. CASE n = 0
  BY <1>1, <1>2, Ends DEF Say
<1>3. CASE n # 0
  <2>1. pc' = "say" /\ left' = n /\ UNCHANGED <<phase, cur, apology, finished>>
    BY <1>3 DEF Say
  <2>2. apology' \in BOOLEAN
    <3>1. apology \in BOOLEAN
      BY DEF IInv, TypeOK
    <3>2. QED
      BY <2>1, <3>1
  <2>3. QED
    BY <1>1, <2>1, <2>2, GoesOn DEF ReplyPcs
<1>4. QED
  BY <1>2, <1>3

\* The apology replaces the answer that failed.
LEMMA ApologiseQuiet ==
  ASSUME IInv, ReplyStep, pc \in ReplyPcs, Apologise,
         UNCHANGED wire \/ wire' = Silence
  PROVE  Quiet
<1>1. wire' \in Messages /\ wire'.kind \notin {"getUpdates", "updates"}
  BY WrittenOrRead
<1>2. apology' \in BOOLEAN
  BY Zenon DEF Apologise
<1>3. pc' = "say" /\ left' = 1 /\ UNCHANGED <<phase, cur, finished>>
  BY DEF Apologise
<1>4. QED
  BY <1>1, <1>2, <1>3, GoesOn DEF ReplyPcs

\* Requests and answers on the stream in the middle of an answer.
LEMMA ExchangeQuiet ==
  ASSUME IInv, SayNext \/ AskFile \/ FileRefused \/ FileGranted \/ AskBody
  PROVE  Quiet
<1> USE DEF SayNext, AskFile, FileRefused, FileGranted, AskBody, Goto, Write
<1>1. /\ pc \in ReplyPcs
      /\ pc' \in ReplyPcs
      /\ pc' = "saying" => left > 0
      /\ ReplyStep
      /\ UNCHANGED <<phase, cur, finished, left, apology>>
  BY DEF ReplyPcs
<1>2. wire' = Silence \/ \E kind \in {"sendMessage", "getFile", "download"} :
                            wire' = Request(kind)
  OBVIOUS
<1>3. wire' \in Messages /\ wire'.kind \notin {"getUpdates", "updates"}
  BY <1>1, <1>2, WrittenOrRead
<1>4. left \in Nat /\ apology \in BOOLEAN
  BY DEF IInv, TypeOK
<1>5. left' \in Nat /\ apology' \in BOOLEAN
  BY <1>1, <1>4
<1>6. QED
  BY <1>1, <1>3, <1>5, GoesOn

\* The steps that send the next message of an answer, or end it.
LEMMA SendingQuiet ==
  ASSUME IInv,
         \/ SayNothing \/ Said \/ SearchFound \/ SearchFailed
         \/ ReplyBroken \/ ReplyGarbled
  PROVE  Quiet
<1>1. cur \in Ids => Parts[cur] \in Nat
  BY SessionAssumption
<1>2. CASE SayNothing
  <2>1. pc \in ReplyPcs /\ EndReply /\ ReplyStep /\ UNCHANGED wire
    BY <1>2 DEF SayNothing, ReplyPcs
  <2>2. QED
    BY <2>1, WrittenOrRead, Ends
<1>3. CASE Said
  <2>1. /\ pc = "saying" /\ wire' = Silence /\ ReplyStep
        /\ Say(left - 1)
    BY <1>3 DEF Said
  <2>2. left - 1 \in Nat
    BY <2>1 DEF IInv, TypeOK, Replying
  <2>3. pc \in ReplyPcs
    BY <2>1 DEF ReplyPcs
  <2>4. QED
    BY <2>1, <2>2, <2>3, SayQuiet
<1>4. CASE SearchFound
  <2>1. pc \in ReplyPcs /\ ReplyStep /\ UNCHANGED wire
    BY <1>4 DEF SearchFound, ReplyPcs
  <2>2. PICK n \in 0 .. Parts[cur] : Say(n)
    BY <1>4 DEF SearchFound
  <2>3. n \in Nat
    BY <1>1, <2>1, Answering
  <2>4. QED
    BY <2>1, <2>2, <2>3, SayQuiet
<1>5. CASE SearchFailed
  BY <1>5, ApologiseQuiet DEF SearchFailed, ReplyPcs
<1>6. CASE ReplyBroken \/ ReplyGarbled
  <2>1. pc \in ReplyPcs /\ ReplyStep /\ (UNCHANGED wire \/ wire' = Silence)
    BY <1>6 DEF ReplyBroken, ReplyGarbled
  <2>2. Apologise \/ EndReply
    BY <1>6 DEF ReplyBroken, ReplyGarbled, ReplyFailed
  <2>3. QED
    BY <2>1, <2>2, ApologiseQuiet, WrittenOrRead, Ends
<1>7. QED
  BY <1>2, <1>3, <1>4, <1>5, <1>6

\* The file has come.
LEMMA GotBodyQuiet ==
  ASSUME IInv, GotBody
  PROVE  Quiet
<1>1. pc \in ReplyPcs /\ ReplyStep /\ wire' = Silence
  BY DEF GotBody, ReplyPcs
<1>2. CASE wire.kind = "content" /\ Kind[cur] = "search"
  <2>1. pc' = "hunt" /\ UNCHANGED <<phase, cur, finished, left, apology>>
    BY <1>2 DEF GotBody, Goto
  <2>2. wire' \in Messages /\ wire'.kind \notin {"getUpdates", "updates"}
    BY <1>1, WrittenOrRead
  <2>3. left \in Nat /\ apology \in BOOLEAN
    BY DEF IInv, TypeOK
  <2>4. left' \in Nat /\ apology' \in BOOLEAN
    BY <2>1, <2>3
  <2>5. QED
    BY <1>1, <2>1, <2>2, <2>4, GoesOn DEF ReplyPcs
<1>3. CASE ~ (wire.kind = "content" /\ Kind[cur] = "search")
  <2>1. Say(IF wire.kind = "empty" THEN 0 ELSE Parts[cur])
    BY <1>3 DEF GotBody
  <2>2. Parts[cur] \in Nat
    BY <1>1, Answering, SessionAssumption
  <2>3. (IF wire.kind = "empty" THEN 0 ELSE Parts[cur]) \in Nat
    BY <2>2
  <2>4. QED
    BY <1>1, <2>1, <2>3, SayQuiet
<1>4. QED
  BY <1>2, <1>3

\* A poll that failed.
LEMMA PollFailedQuiet ==
  ASSUME IInv, PollFailed, pc \in {"ask", "await"}
  PROVE  Quiet
<1>1. CASE phase = "handshake"
  BY <1>1, StopQuiet DEF PollFailed
<1>2. CASE phase # "handshake"
  <2>1. /\ pc' = "shutdown"
        /\ wire' = Silence
        /\ UNCHANGED <<posted, queue, forgotten, conn, phase, idVars,
                       replyVars, launches>>
    BY <1>2 DEF PollFailed
  <2>2. wire' \in Messages /\ wire'.kind \notin {"getUpdates", "updates"}
    BY <2>1, NoPoll
  <2>3. TypeOK'
    BY <2>1, <2>2 DEF IInv, TypeOK, ApiTypeOK, Pcs, idVars, replyVars
  <2>4. Replying'
    BY <2>1 DEF IInv, Replying, ReplyPcs, Stopped, replyVars
  <2>5. QED
    BY <2>1, <2>2, <2>3, <2>4 DEF Quiet, idVars, replyVars
<1>3. QED
  BY <1>1, <1>2
(***************************************************************************)
(* The steps that are not quiet.                                           *)
(***************************************************************************)
\* A new launch forgets what was recorded, and the server has kept it all.
LEMMA LaunchStep ==
  ASSUME IInv, Launch
  PROVE  IInv'
<1> USE DEF IInv, Launch, apiVars
<1>1. pc \in Stopped /\ wire.kind \notin {"getUpdates", "updates"}
  BY DEF PollOnWire, Stopped
<1>2. TypeOK'
  <2>1. update_stack' \in Seq(2 .. MaxId + 1)
    OBVIOUS
  <2>2. apology' \in BOOLEAN
    BY Zenon
  <2>3. launches' \in 0 .. MaxLaunches
    BY SessionAssumption DEF TypeOK
  <2>4. QED
    BY <2>1, <2>2, <2>3 DEF TypeOK, ApiTypeOK, Pcs
<1>3. PollOnWire' /\ Delivered'
  BY <1>1 DEF PollOnWire, Delivered
<1>4. Replying'
  BY DEF Replying, ReplyPcs, Stopped
<1>5. Ascending' /\ AtMostOnce' /\ Recorded' /\ DealtWith' /\ Accounted'
  BY DEF Ascending, AtMostOnce, Recorded, DealtWith, Accounted
<1>6. QED
  BY <1>2, <1>3, <1>4, <1>5

\* A poll asks for the top of the stack.
LEMMA AskUpdatesStep ==
  ASSUME IInv, AskUpdates
  PROVE  IInv'
<1> USE DEF IInv, AskUpdates, idVars, replyVars
<1>1. Offset \in Nat \cup {-1}
  <2>1. CASE update_stack = <<>>
    BY <2>1 DEF Offset
  <2>2. CASE update_stack # <<>>
    BY <2>2, TopProperties, MaxIdAssumption
  <2>3. QED
    BY <2>1, <2>2
<1>2. /\ wire' \in Messages
      /\ wire'.kind = "getUpdates"
      /\ wire'.offset = Offset
  BY <1>1 DEF Message, Messages, Requests
<1>3. TypeOK'
  BY <1>2 DEF TypeOK, ApiTypeOK, Pcs
<1>4. PollOnWire' /\ Delivered'
  BY <1>2 DEF PollOnWire, Delivered, Offset
<1>5. Replying'
  BY DEF Replying, ReplyPcs, Stopped
<1>6. Ascending' /\ AtMostOnce' /\ Recorded' /\ DealtWith' /\ Accounted'
  BY DEF Ascending, AtMostOnce, Recorded, DealtWith, Accounted, Top
<1>7. QED
  BY <1>3, <1>4, <1>5, <1>6

\* A new update is newer than everything on the stream and on the stack.
LEMMA PostStep ==
  ASSUME IInv, Post, UNCHANGED <<pc, phase, idVars, replyVars, launches>>
  PROVE  IInv'
<1> USE DEF IInv, Post, idVars, replyVars
<1>1. posted \in Nat /\ posted' \in 0 .. MaxId /\ posted + 1 \in Ids
  BY MaxIdAssumption DEF TypeOK, ApiTypeOK, Ids
<1>2. TypeOK' /\ (queue \subseteq 1 .. posted)'
  BY <1>1 DEF TypeOK, ApiTypeOK
<1>3. PollOnWire' /\ Replying'
  BY DEF PollOnWire, Replying, Offset
<1>4. Delivered'
  <2> SUFFICES ASSUME wire.kind = "updates"
               PROVE  /\ \A u \in wire.batch, v \in queue' \ wire.batch : u < v
                      /\ update_stack # <<>> => \A u \in wire.batch : Top <= u
    BY DEF Delivered, Top
  <2>1. wire.batch \subseteq 1 .. posted
    BY DEF PollOnWire
  <2>2. \A u \in wire.batch : u < posted + 1
    BY <1>1, <2>1
  <2>3. QED
    BY <2>2 DEF Delivered
<1>5. Ascending' /\ AtMostOnce'
  BY DEF Ascending, AtMostOnce
<1>6. Recorded'
  <2>1. update_stack # <<>> => Top \in Int
    BY TopProperties
  <2>2. QED
    BY <1>1, <2>1 DEF Recorded, Top
<1>7. DealtWith'
  <2>1. update_stack # <<>> => Top \in Int /\ Top <= posted + 1
    BY TopProperties DEF Recorded
  <2>2. QED
    BY <1>1, <2>1 DEF DealtWith, Top
<1>8. Accounted'
  BY <1>1 DEF Accounted
<1>9. QED
  BY <1>2, <1>3, <1>4, <1>5, <1>6, <1>7, <1>8

\* What an acknowledged poll removes from the queue was dealt with or is
\* forgotten, whatever the bot gets for an answer.
LEMMA AcknowledgeStep ==
  ASSUME IInv, Acknowledge,
         wire' \in Messages, wire'.kind # "getUpdates",
         wire'.kind = "updates" => wire'.batch = queue',
         UNCHANGED <<posted, conn, pc, phase, idVars, replyVars, launches>>
  PROVE  IInv'
<1> USE DEF IInv, Acknowledge, idVars, replyVars
<1>1. /\ pc = "await" /\ cur = 0
      /\ wire.offset = Offset
  BY DEF PollOnWire, Replying, ReplyPcs, Stopped
<1>2. /\ queue' = Wanted(Offset)
      /\ queue' \subseteq queue
  BY <1>1 DEF Wanted, Newest
<1>3. queue \subseteq Ids
  BY DEF TypeOK, ApiTypeOK
<1>4. TypeOK' /\ (queue \subseteq 1 .. posted)'
  BY <1>2, <1>3 DEF TypeOK, ApiTypeOK
<1>5. PollOnWire'
  BY <1>1, <1>2 DEF PollOnWire
<1>6. update_stack # <<>> => queue' = {u \in queue : u >= Top}
  BY <1>2, TopProperties DEF Wanted
<1>7. Delivered' /\ DealtWith'
  <2>1. update_stack # <<>> => Top \in Int
    BY TopProperties
  <2>2. queue' \subseteq Int
    <3>1. queue' \subseteq Ids
      BY <1>2, <1>3
    <3>2. Ids \subseteq Int
      BY MaxIdAssumption DEF Ids
    <3>3. QED
      BY <3>1, <3>2
  <2>3. update_stack # <<>> =>
           \A u \in queue' : Top <= u /\ ~ (u < Top)
    BY <1>6, <2>1, <2>2
  <2>4. Top' = Top
    BY DEF Top
  <2>5. QED
    BY <1>2, <2>3, <2>4 DEF Delivered, DealtWith
<1>8. Replying'
  BY DEF Replying
<1>9. Ascending' /\ AtMostOnce' /\ Recorded'
  BY DEF Ascending, AtMostOnce, Recorded, Top
<1>10. Accounted'
  <2> SUFFICES ASSUME NEW u \in 1 .. posted
               PROVE  u \in queue' \/ u \in finished \/ u \in forgotten'
    BY DEF Accounted
  <2>1. forgotten \subseteq forgotten'
    OBVIOUS
  <2>2. CASE u \notin queue
    BY <2>1, <2>2 DEF Accounted
  <2>3. CASE u \in queue /\ update_stack = <<>>
    <3>1. Offset = -1
      BY <2>3 DEF Offset
    <3>2. forgotten' = forgotten \cup (queue \ Newest) /\ queue' = Newest
      BY <1>1, <1>2, <3>1 DEF Wanted
    <3>3. QED
      BY <2>3, <3>2
  <2>4. CASE u \in queue /\ update_stack # <<>>
    <3>1. u < Top => u \in finished
      BY <1>1, <2>4 DEF DealtWith
    <3>2. Top \in Int
      BY <2>4, TopProperties
    <3>3. QED
      BY <1>6, <2>4, <3>1, <3>2
  <2>5. QED
    BY <2>2, <2>3, <2>4
<1>11. QED
  BY <1>4, <1>5, <1>7, <1>8, <1>9, <1>10

\* The answer holds what is left in the queue.
LEMMA AnswerUpdatesStep ==
  ASSUME IInv, AnswerUpdates,
         UNCHANGED <<pc, phase, idVars, replyVars, launches>>
  PROVE  IInv'
<1>1. Acknowledge /\ UNCHANGED <<posted, conn>>
  BY DEF AnswerUpdates
<1>2. /\ wire' = Message("updates", 0, queue')
      /\ wire'.kind = "updates"
      /\ wire'.batch = queue'
  BY DEF AnswerUpdates, Message
<1>3. queue' \in SUBSET Ids
  BY <1>1 DEF Acknowledge, Wanted, Newest, IInv, TypeOK, ApiTypeOK
<1>4. wire' \in Messages
  <2>1. "updates" \in Answers
    BY DEF Answers
  <2>2. QED
    BY <1>2, <1>3, <2>1 DEF Message, Messages
<1>5. QED
  BY <1>1, <1>2, <1>4, AcknowledgeStep

\* An answer that cannot be read holds no update.
LEMMA GarbleStep ==
  ASSUME IInv, Garble, UNCHANGED <<pc, phase, idVars, replyVars, launches>>
  PROVE  IInv' /\ (Quiet \/ Acknowledge)
<1>1. /\ wire' \in Messages
      /\ wire'.kind \notin {"getUpdates", "updates"}
      /\ UNCHANGED <<posted, conn>>
  BY NoPoll DEF Garble
<1>2. CASE Acknowledge
  BY <1>1, <1>2, AcknowledgeStep
<1>3. CASE UNCHANGED <<queue, forgotten>>
  <2>1. TypeOK'
    BY <1>1, <1>3 DEF IInv, TypeOK, ApiTypeOK, idVars, replyVars
  <2>2. Replying'
    BY DEF IInv, Replying, replyVars
  <2>3. Quiet
    BY <1>1, <1>3, <2>1, <2>2 DEF Quiet, idVars, replyVars
  <2>4. QED
    BY <2>3, QuietStep
<1>4. QED
  BY <1>2, <1>3 DEF Garble
\* What a parsed poll records is new: the offset has kept out what was seen.
LEMMA ParsedIsNew ==
  ASSUME IInv, wire.kind = "updates", NEW u \in First(wire.batch)
  PROVE  /\ u \in queue /\ u \in Ids /\ u \in 1 .. posted
         /\ NewId(u) \in 2 .. MaxId + 1
         /\ NewId(u) = u + 1
         /\ update_stack # <<>> => Top < NewId(u)
         /\ \A x \in updated_set : x < NewId(u)
         /\ NewId(u) \notin updated_set
         /\ begun[u] = 0
         /\ \A v \in queue : v < NewId(u) => v = u
<1> USE DEF IInv
<1>1. u \in wire.batch /\ \A v \in wire.batch : u <= v
  BY DEF First
<1>2. u \in queue /\ u \in 1 .. posted
  BY <1>1 DEF PollOnWire
<1>3. posted \in 0 .. MaxId /\ queue \subseteq Ids
  BY DEF TypeOK, ApiTypeOK
<1>4. u \in Ids
  BY <1>2, <1>3
<1>5. NewId(u) = u + 1 /\ NewId(u) \in 2 .. MaxId + 1
  BY <1>4, MaxIdAssumption DEF NewId, Ids
<1>6. update_stack # <<>> => Top \in Int /\ Top <= u
  BY <1>1, TopProperties DEF Delivered
<1>7. u \in Int
  BY <1>4, MaxIdAssumption DEF Ids
<1>8. update_stack # <<>> => Top < NewId(u)
  BY <1>5, <1>6, <1>7
<1>9. \A x \in updated_set : x < NewId(u)
  <2> SUFFICES ASSUME NEW x \in updated_set PROVE x < NewId(u)
    OBVIOUS
  <2>1. x \in Int
    BY MaxIdAssumption DEF TypeOK
  <2>2. update_stack # <<>> /\ x <= Top
    BY DEF Recorded
  <2>3. QED
    BY <1>5, <1>6, <1>7, <2>1, <2>2
<1>10. NewId(u) \notin updated_set
  BY <1>5, <1>7, <1>9
<1>11. begun[u] = 0
  <2>1. begun[u] \in Nat /\ begun[u] <= 1
    BY <1>4 DEF TypeOK, AtMostOnce
  <2>2. begun[u] # 1
    BY <1>4, <1>5, <1>10 DEF Recorded
  <2>3. QED
    BY <2>1, <2>2
<1>12. ASSUME NEW v \in queue, v < NewId(u)
       PROVE  v = u
  <2>1. v \in Int
    BY <1>3, MaxIdAssumption DEF Ids
  <2>2. CASE v \in wire.batch
    BY <1>1, <1>5, <1>7, <1>12, <2>1, <2>2
  <2>3. CASE v \notin wire.batch
    <3>1. u < v
      BY <1>1, <2>3 DEF Delivered
    <3>2. QED
      BY <1>5, <1>7, <1>12, <2>1, <3>1
  <2>4. QED
    BY <2>2, <2>3
<1>13. QED
  BY <1>2, <1>4, <1>5, <1>8, <1>9, <1>10, <1>11, <1>12

\* Where send_command leaves the coroutine when the update is recorded.
LEMMA TakenUp ==
  ASSUME IInv, NEW u \in Ids, begun[u] = 0, cur = 0,
         SendCommand(u) \/ Unanswerable(u)
  PROVE  /\ pc' \in {"say", "askFile", "ask"}
         /\ pc' = "ask" <=> cur' = 0
         /\ cur' \in {0, u}
         /\ phase' \in {"handshake", "waiting"}
         /\ left' \in Nat
         /\ apology' \in BOOLEAN
         /\ begun' = begun \/ begun' = [begun EXCEPT ![u] = 1]
         /\ finished \subseteq finished'
         /\ finished' \in SUBSET Ids
         /\ cur' = u \/ u \in finished'
<1> USE DEF IInv, TypeOK
<1>1. u # 0
  BY DEF Ids
<1>2. CASE SendCommand(u)
  <2>1. apology' \in BOOLEAN
    BY <1>2, Zenon DEF SendCommand
  <2>2. left' \in Nat /\ pc' \in {"say", "askFile"}
    <3>1. Parts[u] \in Nat
      BY SessionAssumption
    <3>2. \/ left' = 1 /\ pc' = "say"
          \/ left' = Parts[u] /\ pc' = "say"
          \/ left' = 0 /\ pc' = "askFile"
      BY <1>2 DEF SendCommand
    <3>3. QED
      BY <3>1, <3>2
  <2>3. /\ cur' = u
        /\ begun' = [begun EXCEPT ![u] = 1]
        /\ UNCHANGED <<phase, finished>>
    BY <1>2 DEF SendCommand
  <2>4. QED
    BY <1>1, <2>1, <2>2, <2>3
<1>3. CASE Unanswerable(u)
  <2>1. /\ pc' = "ask" /\ phase' = "waiting"
        /\ finished' = finished \cup {u}
        /\ UNCHANGED <<cur, begun, apology, left>>
    BY <1>3 DEF Unanswerable, NextPoll
  <2>2. apology' \in BOOLEAN
    <3>1. apology \in BOOLEAN
      OBVIOUS
    <3>2. QED
      BY <2>1, <3>1
  <2>3. QED
    BY <2>1, <2>2
<1>4. QED
  BY <1>2, <1>3
\* Appending a larger element keeps the stack ascending.
LEMMA AppendAscending ==
  ASSUME IInv, NEW x \in 2 .. MaxId + 1,
         update_stack # <<>> => Top < x,
         update_stack' = Append(update_stack, x)
  PROVE  /\ update_stack' \in Seq(2 .. MaxId + 1)
         /\ update_stack' # <<>>
         /\ Top' = x
         /\ Ascending'
<1> DEFINE S == 2 .. MaxId + 1
<1> DEFINE n == Len(update_stack)
<1>1. update_stack \in Seq(S) /\ x \in S /\ S \subseteq Int
  BY MaxIdAssumption DEF IInv, TypeOK
<1> HIDE DEF S
<1>2. /\ n \in Nat
      /\ update_stack' \in Seq(S)
      /\ Len(update_stack') = n + 1
      /\ \A i \in 1 .. n : update_stack'[i] = update_stack[i]
      /\ update_stack'[n + 1] = x
  BY <1>1, AppendProperties, LenProperties
<1>3. update_stack' # <<>>
  BY <1>2, EmptySeq
<1>4. Top' = x
  BY <1>2 DEF Top
<1>5. Ascending'
  <2> SUFFICES ASSUME NEW i \in 1 .. n + 1, NEW j \in 1 .. n + 1, i < j
               PROVE  update_stack'[i] < update_stack'[j]
    BY <1>2 DEF Ascending
  <2>1. i \in 1 .. n /\ n # 0 /\ n \in 1 .. n
    BY <1>2
  <2>2. CASE j \in 1 .. n
    BY <1>2, <2>1, <2>2 DEF IInv, Ascending
  <2>3. CASE j = n + 1
    <3>1. update_stack # <<>>
      BY <2>1
    <3>2. Top < x /\ Top = update_stack[n]
      BY <3>1 DEF Top
    <3>3. i = n \/ update_stack[i] < update_stack[n]
      BY <1>2, <2>1 DEF IInv, Ascending
    <3>4. update_stack[i] \in Int /\ update_stack[n] \in Int /\ x \in Int
      BY <1>1, <2>1, ElementOfSeq
    <3>5. QED
      BY <1>2, <2>1, <2>3, <3>2, <3>3, <3>4
  <2>4. QED
    BY <1>2, <2>2, <2>3
<1>6. QED
  BY <1>2, <1>3, <1>4, <1>5 DEF S

\* A parsed poll records the oldest update it brought and takes it up.
LEMMA ParseResultStep ==
  ASSUME IInv, ParseResult
  PROVE  IInv'
<1>1. PICK u \in First(wire.batch) :
        /\ Record(NewId(u))
        /\ IF NewId(u) \in updated_set
           THEN NextPoll /\ UNCHANGED replyVars
           ELSE SendCommand(u) \/ Unanswerable(u)
  BY DEF ParseResult
<1>2. /\ pc = "await" /\ wire.kind = "updates" /\ wire' = Silence
      /\ UNCHANGED <<posted, queue, forgotten, conn, launches>>
  BY DEF ParseResult
<1> DEFINE id == NewId(u)
<1>3. /\ u \in queue /\ u \in Ids /\ u \in 1 .. posted
      /\ id \in 2 .. MaxId + 1
      /\ id = u + 1
      /\ update_stack # <<>> => Top < id
      /\ \A x \in updated_set : x < id
      /\ id \notin updated_set
      /\ begun[u] = 0
      /\ \A v \in queue : v < id => v = u
  BY <1>2, ParsedIsNew
<1>4. SendCommand(u) \/ Unanswerable(u)
  BY <1>1, <1>3
<1>5. update_stack' = Append(update_stack, id)
      /\ updated_set' = updated_set \cup {id}
  BY <1>1 DEF Record
<1>6. /\ update_stack' \in Seq(2 .. MaxId + 1)
      /\ update_stack' # <<>>
      /\ Top' = id
      /\ Ascending'
  BY <1>3, <1>5, AppendAscending
<1>7. cur = 0
  BY <1>2 DEF IInv, Replying, ReplyPcs, Stopped
<1>8. /\ pc' \in {"say", "askFile", "ask"}
      /\ pc' = "ask" <=> cur' = 0
      /\ cur' \in {0, u}
      /\ phase' \in {"handshake", "waiting"}
      /\ left' \in Nat
      /\ apology' \in BOOLEAN
      /\ begun' = begun \/ begun' = [begun EXCEPT ![u] = 1]
      /\ finished \subseteq finished'
      /\ finished' \in SUBSET Ids
      /\ cur' = u \/ u \in finished'
  BY <1>3, <1>4, <1>7, TakenUp
<1>9. wire' \in Messages /\ wire'.kind \notin {"getUpdates", "updates"}
  BY <1>2, NoPoll
<1>10. begun' \in [Ids -> Nat] /\ \A v \in Ids : v # u => begun'[v] = begun[v]
  <2>1. begun \in [Ids -> Nat]
    BY DEF IInv, TypeOK
  <2>2. QED
    BY <1>3, <1>8, <2>1
<1> HIDE DEF id
<1>11. TypeOK' /\ (queue \subseteq 1 .. posted)'
  <2>1. updated_set' \in SUBSET (2 .. MaxId + 1)
    BY <1>3, <1>5 DEF IInv, TypeOK
  <2>2. cur' \in Ids \cup {0} /\ pc' \in Pcs
    BY <1>3, <1>8 DEF Pcs, ReplyPcs
  <2>3. ApiTypeOK' /\ launches' \in 0 .. MaxLaunches
    BY <1>2, <1>9 DEF IInv, TypeOK, ApiTypeOK
  <2>4. QED
    BY <1>2, <1>6, <1>8, <1>10, <2>1, <2>2, <2>3 DEF IInv, TypeOK
<1>12. PollOnWire' /\ Delivered'
  BY <1>9 DEF PollOnWire, Delivered
<1>13. Replying'
  BY <1>8 DEF Replying, ReplyPcs, Stopped
<1>14. AtMostOnce'
  <2> SUFFICES ASSUME NEW v \in Ids PROVE begun'[v] <= 1
    BY DEF AtMostOnce
  <2>1. begun \in [Ids -> Nat] /\ begun[v] <= 1
    BY DEF IInv, TypeOK, AtMostOnce
  <2>2. QED
    BY <1>8, <2>1
<1>15. Recorded'
  <2>1. id \in Int /\ id <= posted' + 1
    BY <1>2, <1>3, MaxIdAssumption DEF IInv, TypeOK, ApiTypeOK
  <2>2. ASSUME NEW x \in updated_set' PROVE x <= id
    <3>1. CASE x = id
      BY <2>1, <3>1
    <3>2. CASE x # id
      <4>1. x \in updated_set /\ x \in Int
        BY <1>5, <2>2, <3>2, MaxIdAssumption DEF IInv, TypeOK
      <4>2. QED
        BY <1>3, <2>1, <4>1
    <3>3. QED
      BY <3>1, <3>2
  <2>3. ASSUME NEW v \in Ids, begun'[v] = 1 PROVE v + 1 \in updated_set'
    <3>1. CASE v = u
      BY <1>3, <1>5, <3>1
    <3>2. CASE v # u
      BY <1>5, <1>10, <2>3, <3>2 DEF IInv, Recorded
    <3>3. QED
      BY <3>1, <3>2
  <2>4. QED
    BY <1>6, <2>1, <2>2, <2>3 DEF Recorded
<1>16. DealtWith'
  BY <1>2, <1>3, <1>5, <1>6, <1>8 DEF DealtWith
<1>17. Accounted'
  BY <1>2, <1>8 DEF IInv, Accounted
<1>18. QED
  BY <1>6, <1>11, <1>12, <1>13, <1>14, <1>15, <1>16, <1>17 DEF IInv
(***************************************************************************)
(* The theorems.                                                           *)
(***************************************************************************)
\* Every step of the process, the server, the users and the network preserves
\* the invariant.
LEMMA Inductive == IInv /\ [Next]_vars => IInv'
<1> SUFFICES ASSUME IInv, [Next]_vars PROVE IInv'
  OBVIOUS
<1>1. CASE Launch
  BY <1>1, LaunchStep
<1>2. CASE Kill
  BY <1>2, StopQuiet, QuietStep DEF Kill
<1>3. CASE Connect \/ Shutdown \/ ReadNothing
  BY <1>3, BetweenPolls, QuietStep
<1>4. CASE Exit
  BY <1>4, StopQuiet, QuietStep DEF Exit
<1>5. CASE AskUpdates
  BY <1>5, AskUpdatesStep
<1>6. CASE ParseResult
  BY <1>6, ParseResultStep
<1>7. CASE ReadGarbled \/ PollBroken
  BY <1>7, PollFailedQuiet, QuietStep DEF ReadGarbled, PollBroken
<1>8. CASE Reply
  BY <1>8, ExchangeQuiet, SendingQuiet, GotBodyQuiet, QuietStep DEF Reply
<1>9. CASE Api
  <2>1. UNCHANGED <<pc, phase, idVars, replyVars, launches>>
    BY <1>9 DEF Api
  <2>2. CASE Post
    BY <2>1, <2>2, PostStep
  <2>3. CASE AnswerUpdates
    BY <2>1, <2>3, AnswerUpdatesStep
  <2>4. CASE Refuse \/ AnswerSend \/ GrantFile \/ SendFile \/ Sever
    BY <2>1, <2>4, ApiQuiet, QuietStep
  <2>5. CASE Garble
    BY <2>1, <2>5, GarbleStep
  <2>6. QED
    BY <1>9, <2>2, <2>3, <2>4, <2>5 DEF Api
<1>10. CASE UNCHANGED vars
  <2>1. Replying' /\ TypeOK' /\ PollOnWire'
    BY <1>10
       DEF vars, apiVars, idVars, replyVars, IInv, Replying, TypeOK, ApiTypeOK,
           PollOnWire, Offset
  <2>2. Delivered' /\ Ascending' /\ AtMostOnce' /\ Recorded' /\ DealtWith'
        /\ Accounted'
    BY <1>10
       DEF vars, apiVars, idVars, replyVars, IInv, Delivered, Ascending,
           AtMostOnce, Recorded, DealtWith, Accounted, Top
  <2>3. QED
    BY <1>10, <2>1, <2>2 DEF vars, apiVars, IInv
<1>11. QED
  BY <1>1, <1>2, <1>3, <1>4, <1>5, <1>6, <1>7, <1>8, <1>9, <1>10
     DEF Next, Bot, Poll

\* The inductive invariant holds throughout.
THEOREM Invariance == Spec => []IInv
BY InitIInv, Inductive, PTL DEF Spec

\* Every variable keeps its type, for any number of updates and launches.
THEOREM TypeCorrect == Spec => []TypeOK
<1>1. IInv => TypeOK
  BY DEF IInv
<1>2. QED
  BY Invariance, <1>1, PTL

\* No update is answered twice in one launch, whatever breaks and is repeated.
THEOREM AnswersAtMostOnce == Spec => []AtMostOnce
<1>1. IInv => AtMostOnce
  BY DEF IInv
<1>2. QED
  BY Invariance, <1>1, PTL

\* Updates are taken up in the order the server numbered them.
THEOREM AnswersInOrder == Spec => []Ascending
<1>1. IInv => Ascending
  BY DEF IInv
<1>2. QED
  BY Invariance, <1>1, PTL

\* An update that has left the server was dealt with, or fell to offset -1.
THEOREM NothingVanishes == Spec => []Accounted
<1>1. IInv => Accounted
  BY DEF IInv
<1>2. QED
  BY Invariance, <1>1, PTL

\* Offset -1 is sent only while nothing has been recorded: once a launch has
\* taken up an update, the server forgets none unanswered.
THEOREM ForgetsNoMore == Spec => ForgetsOnlyWhenFresh
<1>1. ASSUME IInv, [Next]_vars, forgotten' # forgotten
      PROVE  update_stack = <<>>
  <2>1. Acknowledge
    BY <1>1
       DEF Next, Launch, Kill, Bot, Connect, Exit, Shutdown, Poll, AskUpdates,
           ReadNothing, ParseResult, ReadGarbled, PollBroken, PollFailed, Stop,
           Reply, SayNext, SayNothing, Said, AskFile, FileRefused, FileGranted,
           AskBody, GotBody, SearchFound, SearchFailed, ReplyBroken,
           ReplyGarbled, ReplyStep, Api, Post, AnswerUpdates, Garble, Refuse,
           AnswerSend, GrantFile, SendFile, Sever, vars, apiVars
  <2>2. wire.kind = "getUpdates" /\ wire.offset = -1
    BY <1>1, <2>1 DEF Acknowledge
  <2>3. Offset = -1
    BY <1>1, <2>2 DEF IInv, PollOnWire
  <2>4. QED
    BY <1>1, <2>3, TopProperties
<1>2. IInv /\ [Next]_vars => [forgotten' # forgotten => update_stack = <<>>]_vars
  BY <1>1
<1>3. QED
  BY Invariance, <1>2, PTL DEF Spec, ForgetsOnlyWhenFresh

(***************************************************************************)
(* The session implements UpdateService: every step of TgSession is a step *)
(* of the abstract bot under the refinement mapping, or a stutter.         *)
(***************************************************************************)

\* The updates taken up in this launch, as the refinement mapping has them.
Taken == {u \in Ids : u + 1 \in updated_set}

\* Steps that record nothing end an answer at most.
LEMMA QuietServes ==
  ASSUME IInv, Quiet
  PROVE  Service!Finish \/ UNCHANGED Service!svars
  BY DEF Quiet, idVars, Service!Finish, Service!svars, Ids

\* A user's message arrives.
LEMMA PostServes ==
  ASSUME IInv, Post, UNCHANGED <<pc, phase, idVars, replyVars, launches>>
  PROVE  Service!Arrive
  BY DEF Post, idVars, replyVars, Service!Arrive, Ids

\* A launch is a new life.
LEMMA LaunchServes ==
  ASSUME IInv, Launch
  PROVE  Service!NewLife
  BY DEF Launch, apiVars, Service!NewLife, Ids

\* A poll confirms updates that were dealt with, or forgets the older ones.
LEMMA AcknowledgeServes ==
  ASSUME IInv, Acknowledge,
         UNCHANGED <<posted, pc, phase, idVars, replyVars, launches>>
  PROVE  Service!Confirm \/ Service!Forget
<1> USE DEF Acknowledge
<1>1. wire.offset = Offset /\ cur = 0
  BY DEF IInv, PollOnWire, Replying, ReplyPcs, Stopped
<1>2. UNCHANGED <<posted, updated_set, cur>> /\ Taken' = Taken
  BY DEF idVars, replyVars, Taken
<1>3. CASE update_stack = <<>>
  <2>1. queue' = Newest
    BY <1>1, <1>3 DEF Wanted, Offset
  <2>2. Taken = {}
    BY <1>3 DEF IInv, Recorded, Taken
  <2>3. QED
    BY <1>2, <2>1, <2>2 DEF Newest, Taken, Service!Forget
<1>4. CASE update_stack # <<>>
  <2>1. Top \in Int /\ queue' = {u \in queue : u >= Top}
    BY <1>1, <1>4, TopProperties DEF Wanted
  <2>2. queue \subseteq Ids /\ Ids \subseteq Int /\ 0 \notin Ids
    BY MaxIdAssumption DEF IInv, TypeOK, ApiTypeOK, Ids
  <2> DEFINE gone == queue \ queue'
  <2>3. gone \subseteq queue \cap (Taken \ {cur})
    <3> SUFFICES ASSUME NEW u \in gone PROVE u \in Taken \ {cur}
      OBVIOUS
    <3>1. u \in queue /\ u \in Ids /\ u < Top
      BY <2>1, <2>2
    <3>2. u + 1 \in updated_set
      BY <1>4, <3>1 DEF IInv, DealtWith
    <3>3. QED
      BY <1>1, <2>2, <3>1, <3>2 DEF Taken
  <2>4. queue' = queue \ gone
    BY <2>1
  <2>5. gone \in SUBSET (queue \cap (Taken \ {cur}))
    BY <2>3
  <2> HIDE DEF gone
  <2>6. QED
    BY <1>2, <2>4, <2>5 DEF Taken, Service!Confirm
<1>5. QED
  BY <1>3, <1>4

\* A parsed poll takes up the oldest update that was not taken up.
LEMMA ParseResultServes ==
  ASSUME IInv, ParseResult
  PROVE  Service!Take
<1>1. PICK u \in First(wire.batch) :
        /\ Record(NewId(u))
        /\ IF NewId(u) \in updated_set
           THEN NextPoll /\ UNCHANGED replyVars
           ELSE SendCommand(u) \/ Unanswerable(u)
  BY DEF ParseResult
<1>2. /\ pc = "await" /\ wire.kind = "updates"
      /\ UNCHANGED <<posted, queue>>
  BY DEF ParseResult
<1>3. /\ u \in queue /\ u \in Ids /\ NewId(u) = u + 1
      /\ \A x \in updated_set : x < u + 1
      /\ u + 1 \notin updated_set
      /\ begun[u] = 0
      /\ \A v \in queue : v < u + 1 => v = u
  BY <1>2, ParsedIsNew
<1>4. cur = 0
  BY <1>2 DEF IInv, Replying, ReplyPcs, Stopped
<1>5. cur' \in {0, u}
  BY <1>1, <1>3, <1>4, TakenUp
<1>6. updated_set' = updated_set \cup {u + 1}
  BY <1>1, <1>3 DEF Record
<1>7. queue \subseteq Ids /\ Ids \subseteq Int /\ u \in Int
  BY <1>3, MaxIdAssumption DEF IInv, TypeOK, ApiTypeOK, Ids
<1>8. u \in queue \ Taken
  BY <1>3 DEF Taken
<1>9. \A v \in queue \ Taken : u <= v
  BY <1>3, <1>7
<1>10. \A v \in Taken : v < u
  BY <1>3, <1>7 DEF Taken
<1>11. Taken' = Taken \cup {u}
  <2>1. \A v \in Ids : v + 1 = u + 1 <=> v = u
    BY <1>7
  <2>2. Taken' = {v \in Ids : v + 1 \in updated_set \/ v + 1 = u + 1}
    BY <1>6 DEF Taken
  <2>3. QED
    BY <1>3, <2>1, <2>2 DEF Taken
<1>12. QED
  BY <1>2, <1>4, <1>5, <1>8, <1>9, <1>10, <1>11 DEF Taken, Service!Take

\* Every step of the session is a step of the abstract bot, or none.
LEMMA StepServes ==
  IInv /\ [Next]_vars => [Service!Next]_(Service!svars)
<1> SUFFICES ASSUME IInv, [Next]_vars
             PROVE  Service!Next \/ UNCHANGED Service!svars
  OBVIOUS
<1> USE DEF Service!Next
<1>1. CASE Launch
  BY <1>1, LaunchServes
<1>2. CASE Kill
  BY <1>2, StopQuiet, QuietServes DEF Kill
<1>3. CASE Connect \/ Shutdown \/ ReadNothing
  BY <1>3, BetweenPolls, QuietServes
<1>4. CASE Exit
  BY <1>4, StopQuiet, QuietServes DEF Exit
<1>5. CASE AskUpdates
  BY <1>5 DEF AskUpdates, idVars, replyVars, Service!svars
<1>6. CASE ParseResult
  BY <1>6, ParseResultServes
<1>7. CASE ReadGarbled \/ PollBroken
  BY <1>7, PollFailedQuiet, QuietServes DEF ReadGarbled, PollBroken
<1>8. CASE Reply
  BY <1>8, ExchangeQuiet, SendingQuiet, GotBodyQuiet, QuietServes DEF Reply
<1>9. CASE Api
  <2>1. UNCHANGED <<pc, phase, idVars, replyVars, launches>>
    BY <1>9 DEF Api
  <2>2. CASE Post
    BY <2>1, <2>2, PostServes
  <2>3. CASE AnswerUpdates
    BY <2>1, <2>3, AcknowledgeServes DEF AnswerUpdates
  <2>4. CASE Refuse \/ AnswerSend \/ GrantFile \/ SendFile \/ Sever
    BY <2>1, <2>4, ApiQuiet, QuietServes
  <2>5. CASE Garble
    BY <2>1, <2>5, GarbleStep, AcknowledgeServes, QuietServes DEF Garble
  <2>6. QED
    BY <1>9, <2>2, <2>3, <2>4, <2>5 DEF Api
<1>10. CASE UNCHANGED vars
  BY <1>10 DEF vars, apiVars, idVars, replyVars, Service!svars
<1>11. QED
  BY <1>1, <1>2, <1>3, <1>4, <1>5, <1>6, <1>7, <1>8, <1>9, <1>10
     DEF Next, Bot, Poll

\* The session implements UpdateService, for any number of updates and launches.
THEOREM Serves == Spec => ServiceSpec
<1>1. Init => Service!Init
  BY DEF Init, ApiInit, Service!Init
<1>2. QED
  BY <1>1, StepServes, Invariance, PTL DEF Spec, ServiceSpec, Service!Spec

-----------------------------------------------------------------------------
(***************************************************************************)
(* What makes the process abort.                                           *)
(***************************************************************************)
LEMMA BatchFinite ==
  ASSUME NEW batch \in SUBSET Ids
  PROVE  IsFiniteSet(batch)
<1>1. IsFiniteSet(1 .. MaxId)
  BY FS_Interval, MaxIdAssumption
<1>2. QED
  BY <1>1, FS_Subset DEF Ids

\* A batch is as long as its updates together.
LEMMA BatchLength ==
  ASSUME NEW batch \in SUBSET Ids
  PROVE  \E sum : /\ IsSum(Size, batch, sum)
                  /\ sum[batch] = MapThenSumSet(LAMBDA u : Size[u], batch)
<1> DEFINE Folds(iter) ==
             iter = [s \in SUBSET batch |->
                       IF s = {} THEN 0
                       ELSE Size[CHOOSE x \in s : TRUE]
                            + iter[s \ {CHOOSE x \in s : TRUE}]]
<1>1. IsFiniteSet(batch)
  BY BatchFinite
<1>2. \A iter : IsSum(Size, batch, iter) <=> Folds(iter)
  BY DEF IsSum, Chosen
<1>3. MapThenSumSet(LAMBDA u : Size[u], batch)
        = (CHOOSE iter : Folds(iter))[batch]
  BY DEF MapThenSumSet, MapThenFoldSet
<1> HIDE DEF Folds
<1>4. \E iter : Folds(iter)
  BY <1>1, <1>2, SumsExist
<1>5. Folds(CHOOSE iter : Folds(iter))
  BY <1>4
<1>6. QED
  BY <1>2, <1>3, <1>5

\* Two updates of a batch are no longer than the batch.
LEMMA TwoOfBatch ==
  ASSUME NEW batch \in SUBSET Ids, NEW u \in batch, NEW v \in batch, u # v
  PROVE  /\ MapThenSumSet(LAMBDA w : Size[w], batch) \in Nat
         /\ MapThenSumSet(LAMBDA w : Size[w], batch) >= Size[u] + Size[v]
<1>1. PICK sum : /\ IsSum(Size, batch, sum)
                 /\ sum[batch] = MapThenSumSet(LAMBDA w : Size[w], batch)
  BY BatchLength
<1> DEFINE sizes == [w \in batch |-> Size[w]]
<1>2. sizes \in [batch -> Nat] /\ sizes[u] = Size[u] /\ sizes[v] = Size[v]
  BY SessionAssumption
<1>3. IsFiniteSet(batch)
  BY BatchFinite
<1>4. IsSum(sizes, batch, sum)
  <2>1. ASSUME NEW s \in SUBSET batch, s # {}
        PROVE  sizes[Chosen(s)] = Size[Chosen(s)]
    BY <2>1, ChosenIn
  <2> HIDE DEF sizes
  <2>2. QED
    BY <1>1, <2>1 DEF IsSum
<1> HIDE DEF sizes
<1>5. \A s \in SUBSET batch :
        sum[s] \in Nat /\ \A x \in s : sum[s] = sizes[x] + sum[s \ {x}]
  BY <1>2, <1>3, <1>4, AnyFirst
<1>6. sum[batch] = sizes[u] + sum[batch \ {u}]
  BY <1>5
<1>7. sum[batch \ {u}] = sizes[v] + sum[(batch \ {u}) \ {v}]
  BY <1>5
<1>8. sum[(batch \ {u}) \ {v}] \in Nat
  BY <1>5
<1>9. sizes[u] \in Nat /\ sizes[v] \in Nat
  BY <1>2
<1>10. QED
  BY <1>1, <1>2, <1>6, <1>7, <1>8, <1>9

\* When any two updates of an answer fill a chunk, the answer parses.
LEMMA LongParse ==
  ASSUME LongBatch, wire.batch \in SUBSET Ids, wire.batch # {}
  PROVE  Parses(wire.batch)
<1> DEFINE batch == wire.batch
<1>1. IsFiniteSet(batch)
  BY BatchFinite
<1>2. PICK u \in batch : TRUE
  OBVIOUS
<1>3. CASE batch = {u}
  BY <1>3, FS_Singleton DEF Parses
<1>4. CASE batch # {u}
  <2>1. PICK v \in batch : v # u
    BY <1>2, <1>4
  <2>2. /\ MapThenSumSet(LAMBDA w : Size[w], batch) \in Nat
        /\ MapThenSumSet(LAMBDA w : Size[w], batch) >= Size[u] + Size[v]
    BY <2>1, TwoOfBatch
  <2>3. Size[u] + Size[v] >= ChunkSize /\ Size[u] \in Nat /\ Size[v] \in Nat
    BY <2>1, SessionAssumption DEF LongBatch
  <2>4. QED
    BY <2>2, <2>3, SessionAssumption DEF Parses
<1>5. QED
  BY <1>3, <1>4

\* With long updates in the answer the process aborts only on a broken stream or an answer
\* that cannot be read (handshake() and the exceptions of its first poll).
THEOREM AbortsOnlyThen == Spec => AbortsOnlyOnFailure
<1>1. ASSUME IInv, [Next]_vars, LongBatch, pc # "aborted", pc' = "aborted"
      PROVE  conn = "lost" \/ wire.kind = "malformed"
  <2>1. ReadGarbled => wire.kind = "malformed"
    <3>1. wire.kind = "updates" => wire.batch \in SUBSET Ids
      BY <1>1 DEF IInv, TypeOK, ApiTypeOK, Messages
    <3>2. QED
      BY <1>1, <3>1, LongParse DEF ReadGarbled, Unreadable
  <2>2. CASE Bot
    <3>1. CASE Poll
      BY <1>1, <2>1, <3>1
         DEF Poll, AskUpdates, ReadNothing, ParseResult, PollBroken, NextPoll,
             SendCommand, Unanswerable
    <3>2. CASE Reply
      BY <1>1, <3>2
         DEF Reply, SayNext, SayNothing, Said, AskFile, FileRefused,
             FileGranted, AskBody, GotBody, SearchFound, SearchFailed,
             ReplyBroken, ReplyGarbled, ReplyFailed, Goto, EndReply, NextPoll,
             Say, Apologise
    <3>3. QED
      BY <1>1, <2>2, <3>1, <3>2 DEF Bot, Connect, Exit, Stop, Shutdown
  <2>3. QED
    BY <1>1, <2>2 DEF Next, Launch, Kill, Stop, Api, vars
<1>2. IInv /\ [Next]_vars =>
        [LongBatch /\ pc # "aborted" /\ pc' = "aborted"
           => conn = "lost" \/ wire.kind = "malformed"]_vars
  BY <1>1
<1>3. QED
  BY Invariance, <1>2, PTL DEF Spec, AbortsOnlyOnFailure
=============================================================================
