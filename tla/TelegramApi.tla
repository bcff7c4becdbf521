---------------------------- MODULE TelegramApi ----------------------------
(***************************************************************************)
(* The Bot API server the bot talks to, and the one TLS stream between     *)
(* them.  The server is not part of the repository: it is modelled from    *)
(* the requests client/client.cpp sends and the answers it reads.          *)
(*                                                                         *)
(* Updates are numbered 1, 2, ... in the order the server receives them    *)
(* and stay in `queue` until a getUpdates call confirms them, that is,     *)
(* asks for a larger offset.  Offset -1 asks for the newest update only    *)
(* and makes the server forget every earlier one.                          *)
(*                                                                         *)
(* The stream carries one message at a time, because every coroutine of    *)
(* the bot waits for the answer before it writes again.                    *)
(***************************************************************************)
EXTENDS Integers

CONSTANTS
  MaxId          \* bound: the number of updates users ever send

ASSUME MaxIdAssumption == MaxId \in Nat

VARIABLES
  posted,        \* number of updates sent so far; their ids are 1 .. posted
  queue,         \* ids the server still keeps
  forgotten,     \* history: ids dropped by a request with offset -1
  wire,          \* the message on the stream, request or answer
  conn           \* the stream: "down", "up" or "lost" (broken, not replaced)

apiVars == <<posted, queue, forgotten, wire, conn>>

Ids == 1 .. MaxId

(***************************************************************************)
(* Messages.  Fields a kind does not use hold 0 and {}.                    *)
(***************************************************************************)
Requests == {"getUpdates", "sendMessage", "getFile", "download"}
Answers  == {"updates", "refused", "result", "path", "content", "empty",
             "malformed"}

Message(kind, offset, batch) ==
  [kind |-> kind, offset |-> offset, batch |-> batch]

Silence       == Message("none", 0, {})
Request(kind) == Message(kind, 0, {})

Messages ==
  [kind : Requests \cup Answers \cup {"none"},
   offset : Nat \cup {-1},
   batch : SUBSET Ids]

ApiTypeOK ==
  /\ posted \in 0 .. MaxId
  /\ queue \in SUBSET Ids
  /\ forgotten \in SUBSET Ids
  /\ wire \in Messages
  /\ conn \in {"down", "up", "lost"}

ApiInit ==
  /\ posted = 0
  /\ queue = {}
  /\ forgotten = {}
  /\ wire = Silence
  /\ conn = "down"

(***************************************************************************)
(* Steps of the server and of the network.                                 *)
(***************************************************************************)
\* A user writes to the bot.
Post ==
  /\ posted < MaxId
  /\ posted' = posted + 1
  /\ queue' = queue \cup {posted + 1}
  /\ UNCHANGED <<forgotten, wire, conn>>

Newest == {u \in queue : \A v \in queue : v <= u}

Wanted(offset) ==
  IF offset = -1 THEN Newest ELSE {u \in queue : u >= offset}

\* A poll confirms what is older than its offset: it leaves the queue.
Acknowledge ==
  /\ wire.kind = "getUpdates"
  /\ queue' = Wanted(wire.offset)
  /\ forgotten' = IF wire.offset = -1
                  THEN forgotten \cup (queue \ Newest)
                  ELSE forgotten

\* getUpdates: the answer is what the queue holds from the offset on, empty
\* when the long poll times out.
AnswerUpdates ==
  /\ Acknowledge
  /\ wire' = Message("updates", 0, queue')
  /\ UNCHANGED <<posted, conn>>

\* An answer the bot cannot read: the page of a proxy in front of the server, a
\* "result" of another kind, an update without update_id.  The poll may have
\* reached the server all the same.
Garble ==
  /\ wire.kind \in {"getUpdates", "getFile", "sendMessage"}
  /\ Acknowledge \/ UNCHANGED <<queue, forgotten>>
  /\ wire' = Request("malformed")
  /\ UNCHANGED <<posted, conn>>

\* {"ok": false, ...}: too many requests, a conflict, a file that is too big.
Refuse ==
  /\ wire.kind \in {"getUpdates", "getFile"}
  /\ wire' = Request("refused")
  /\ UNCHANGED <<posted, queue, forgotten, conn>>

\* sendMessage and sendPhoto: the bot reads the answer and looks no further.
AnswerSend ==
  /\ wire.kind = "sendMessage"
  /\ wire' = Request("result")
  /\ UNCHANGED <<posted, queue, forgotten, conn>>

GrantFile ==
  /\ wire.kind = "getFile"
  /\ wire' = Request("path")
  /\ UNCHANGED <<posted, queue, forgotten, conn>>

SendFile ==
  /\ wire.kind = "download"
  /\ \E body \in {"content", "empty"} : wire' = Request(body)
  /\ UNCHANGED <<posted, queue, forgotten, conn>>

\* The stream breaks; a message on it is lost.
Sever ==
  /\ conn = "up"
  /\ conn' = "lost"
  /\ wire' = Silence
  /\ UNCHANGED <<posted, queue, forgotten>>

============================================================================
