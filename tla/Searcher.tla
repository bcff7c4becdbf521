------------------------------ MODULE Searcher ------------------------------
(***************************************************************************)
(* include/searcher/searcher.hpp over include/session_interface.hpp: the   *)
(* picture search behind Commands::Search, and redirect().                 *)
(*                                                                         *)
(* One coroutine: upload the picture, follow redirections, read the page,  *)
(* fetch each address on a session of its own, hand what came to the       *)
(* callback, which sends it to the user.  The Searcher and its stream are  *)
(* static: they live from one tg_session::run() to the next, over many     *)
(* searches.  The servers are external.                                    *)
(***************************************************************************)
EXTENDS Integers, Sequences, FiniteSets, SequencesExt

CONSTANTS
  Pages,         \* pages a search may lead to, as sequences of addresses
  Relative,      \* the addresses without a scheme
  Limit,         \* attempt_limit of redirect()
  MaxSearches    \* bound: searches

ASSUME SearcherAssumption ==
  /\ \A page \in Pages : page \in Seq(Range(page))
  /\ Limit \in Nat \ {0}
  /\ MaxSearches \in Nat

VARIABLES
  pc,            \* where the coroutine is
  use,           \* who called redirect(): "moved", "page" or "photo"
  stream,        \* the searcher's stream, and that of the oneshot session
  answer,        \* the response in hand
  left,          \* attempts redirect() has left
  page, todo,    \* the addresses of the page, and those not visited yet
  set,           \* the addresses visited
  photo,         \* what the callback is given: a "body" or nothing, "empty"
  handed,        \* the addresses handed to the callback
  outcome,       \* how the last search ended
  searches       \* number of searches so far

browseVars == <<page, todo, set, photo, handed>>
vars == <<pc, use, stream, answer, left, browseVars, outcome, searches>>

Statuses == {"ok", "temporary", "permanent", "found", "accepted", "error"}

\* location: none, one that parse_uri takes, or one that it throws at;
\* close: "Connection: close".
Responses ==
  [status : Statuses, location : {"none", "good", "bad"}, close : BOOLEAN]
NoResponse == [status |-> "ok", location |-> "none", close |-> FALSE]

Pcs == {"idle", "upload", "uploading", "uploaded", "redirect", "wait", "follow",
        "reconnect", "answered", "browse", "hand"}

TypeOK ==
  /\ pc \in Pcs
  /\ use \in {"moved", "page", "photo"}
  /\ stream \in [{"searcher", "oneshot"} -> {"open", "closing", "lost"}]
  /\ answer \in Responses
  /\ left \in 0 .. Limit
  /\ page \in Pages \cup {<<>>}
  /\ todo \in Seq(Range(page))
  /\ set \subseteq Range(page)
  /\ photo \in {"body", "empty"}
  /\ handed \in Seq(Range(page))
  /\ outcome \in {"none", "ended", "failed"}
  /\ searches \in 0 .. MaxSearches

Init ==
  /\ pc = "idle"
  /\ use = "page"
  /\ stream = [s \in {"searcher", "oneshot"} |->
                 IF s = "searcher" THEN "open" ELSE "lost"]
  /\ answer = NoResponse
  /\ left = 0
  /\ page = <<>> /\ todo = <<>> /\ set = {} /\ photo = "empty" /\ handed = <<>>
  /\ outcome = "none"
  /\ searches = 0

-----------------------------------------------------------------------------
\* stream_ of the session that runs.
Mine == IF use = "photo" THEN "oneshot" ELSE "searcher"

End(how) ==
  /\ pc' = "idle"
  /\ outcome' = how

\* An exception: one in make_oneshot_session costs a photo, any other the
\* search.
Throw ==
  IF use = "photo"
  THEN pc' = "hand" /\ photo' = "empty" /\ UNCHANGED outcome
  ELSE End("failed") /\ UNCHANGED photo

StartRedirect(who) ==
  /\ pc' = "redirect"
  /\ use' = who
  /\ left' = Limit

-----------------------------------------------------------------------------
(***************************************************************************)
(* The servers, and the life of the streams.                               *)
(***************************************************************************)
\* The server, or an idle timeout of its, ends the connection.
Lose(s) ==
  /\ stream[s] = "open"
  /\ stream' = [stream EXCEPT ![s] = "lost"]
  /\ UNCHANGED <<pc, use, answer, left, browseVars, outcome, searches>>

\* tg_session::run() reconnects, and makes a new Searcher.
Restart ==
  /\ pc = "idle"
  /\ stream[ "searcher" ] # "open"
  /\ stream' = [stream EXCEPT !["searcher"] = "open"]
  /\ UNCHANGED <<pc, use, answer, left, browseVars, outcome, searches>>

Receive(from, to) ==
  /\ pc = from
  /\ stream[Mine] = "open"
  /\ \E r \in Responses :
       /\ answer' = r
       /\ stream' = [stream EXCEPT ![Mine] = IF r.close THEN "closing" ELSE @]
  /\ pc' = to
  /\ UNCHANGED <<use, left, browseVars, outcome, searches>>

-----------------------------------------------------------------------------
(***************************************************************************)
(* req_res: a request on a stream that is not open ends in an exception.   *)
(***************************************************************************)
Request(from, to) ==
  /\ pc = from
  /\ stream[Mine] = "open"
  /\ pc' = to
  /\ UNCHANGED <<use, stream, answer, left, browseVars, outcome, searches>>

Broken ==
  /\ pc \in {"upload", "uploading", "redirect", "wait"}
  /\ stream[Mine] # "open"
  /\ Throw
  /\ UNCHANGED <<use, stream, answer, left, page, todo, set, handed, searches>>

-----------------------------------------------------------------------------
(***************************************************************************)
(* request_upload_image                                                    *)
(***************************************************************************)
Begin ==
  /\ pc = "idle"
  /\ searches < MaxSearches
  /\ searches' = searches + 1
  /\ pc' = "upload"
  /\ use' = "page"
  /\ page' = <<>> /\ todo' = <<>> /\ set' = {} /\ photo' = "empty" /\ handed' = <<>>
  /\ outcome' = "none"
  /\ UNCHANGED <<stream, answer, left>>

\* parse_answer finds the address of the results, or throws.
ReadAnswer ==
  /\ \/ pc = "uploaded"
     \/ pc = "answered" /\ use = "moved"
  /\ answer.status = "ok"
  /\ \/ StartRedirect("page") /\ UNCHANGED <<photo, outcome>>
     \/ Throw /\ UNCHANGED <<use, left>>
  /\ UNCHANGED <<stream, answer, page, todo, set, handed, searches>>

UploadMoved ==
  /\ pc = "uploaded" /\ answer.status = "temporary"
  /\ StartRedirect("moved")
  /\ UNCHANGED <<stream, answer, browseVars, outcome, searches>>

\* found, see_other and accepted pass the test of the status; nothing is done.
UploadIgnored ==
  /\ pc = "uploaded" /\ answer.status \in {"found", "accepted"}
  /\ End("ended")
  /\ UNCHANGED <<use, stream, answer, left, browseVars, searches>>

UploadRefused ==
  /\ pc = "uploaded" /\ answer.status \in {"permanent", "error"}
  /\ Throw
  /\ UNCHANGED <<use, stream, answer, left, page, todo, set, handed, searches>>

-----------------------------------------------------------------------------
(***************************************************************************)
(* redirect                                                                *)
(***************************************************************************)
\* Only start_browsing(res) passes http::status::found.
Follows ==
  {"temporary", "permanent"} \cup (IF use = "page" THEN {"found"} ELSE {})

\* Mutant: the attempts are not counted.
Spent == left

\* --attempt_limit
Attempts == left - 1

\* Mutant: the limit is not looked at, and size_t goes below zero.
Unlimited ==
  /\ left' = Attempts
  /\ pc' = IF answer.status \notin Follows THEN "answered" ELSE "redirect"

Go ==
  /\ left' = Attempts
  /\ pc' = IF left' = 0 \/ answer.status \notin Follows
           THEN "answered" ELSE "redirect"

\* Without a location the response is the answer, whatever its status.
FollowNone ==
  /\ pc = "follow" /\ answer.location = "none"
  /\ pc' = "answered"
  /\ UNCHANGED <<use, stream, answer, left, browseVars, outcome, searches>>

FollowBad ==
  /\ pc = "follow" /\ answer.location = "bad"
  /\ Throw
  /\ UNCHANGED <<use, stream, answer, left, page, todo, set, handed, searches>>

\* Mutant: a connection about to be closed is used once more.
GoOn ==
  /\ pc = "follow" /\ answer.location = "good"
  /\ Go
  /\ UNCHANGED <<use, stream, answer, browseVars, outcome, searches>>

\* On a closed connection run() comes first, needed or not.
FollowGood ==
  /\ pc = "follow" /\ answer.location = "good"
  /\ IF answer.close THEN pc' = "reconnect" /\ UNCHANGED left ELSE Go
  /\ UNCHANGED <<use, stream, answer, browseVars, outcome, searches>>

\* run(): resolve, connect, handshake, on the stream there was before.
Reconnect ==
  /\ pc = "reconnect"
  /\ stream' = [stream EXCEPT ![Mine] = "open"]
  /\ Go
  /\ UNCHANGED <<use, answer, browseVars, outcome, searches>>

ReconnectFails ==
  /\ pc = "reconnect"
  /\ stream' = [stream EXCEPT ![Mine] = "lost"]
  /\ Throw
  /\ UNCHANGED <<use, answer, left, page, todo, set, handed, searches>>

NotFound ==
  /\ pc = "answered" /\ use # "photo" /\ answer.status # "ok"
  /\ Throw
  /\ UNCHANGED <<use, stream, answer, left, page, todo, set, handed, searches>>

-----------------------------------------------------------------------------
(***************************************************************************)
(* start_browsing                                                          *)
(***************************************************************************)
ReadPage ==
  /\ pc = "answered" /\ use = "page" /\ answer.status = "ok"
  /\ page' \in Pages /\ todo' = page'
  /\ pc' = "browse"
  /\ UNCHANGED <<use, stream, answer, left, set, photo, handed, outcome,
                 searches>>

\* An address seen before, or a relative one.
Skip ==
  /\ pc = "browse" /\ todo # <<>>
  /\ Head(todo) \in set \cup Relative
  /\ set' = set \cup {Head(todo)}
  /\ todo' = Tail(todo)
  /\ UNCHANGED <<pc, use, stream, answer, left, page, photo, handed, outcome,
                 searches>>

\* make_oneshot_session up to redirect(): parse_uri or run() may throw.
Fetch ==
  /\ pc = "browse" /\ todo # <<>>
  /\ Head(todo) \notin set \cup Relative
  /\ set' = set \cup {Head(todo)}
  /\ \/ /\ StartRedirect("photo")
        /\ stream' = [stream EXCEPT !["oneshot"] = "open"]
        /\ UNCHANGED photo
     \/ /\ pc' = "hand" /\ use' = "photo" /\ photo' = "empty"
        /\ UNCHANGED <<stream, left>>
  /\ UNCHANGED <<answer, page, todo, handed, outcome, searches>>

\* shutdown() comes before the response is returned: when it throws, what was
\* fetched is lost.
Fetched ==
  /\ pc = "answered" /\ use = "photo"
  /\ \/ stream["oneshot"] # "lost" /\ pc' = "hand" /\ photo' = "body"
     \/ pc' = "hand" /\ photo' = "empty"
  /\ stream' = [stream EXCEPT !["oneshot"] = "lost"]
  /\ UNCHANGED <<use, answer, left, page, todo, set, handed, outcome, searches>>

\* Mutant: no photo, no callback.
HandBody ==
  /\ pc = "hand"
  /\ use' = "page"
  /\ todo' = Tail(todo)
  /\ handed' = IF photo = "body" THEN Append(handed, Head(todo)) ELSE handed
  /\ pc' = "browse"
  /\ UNCHANGED <<stream, answer, left, page, set, photo, outcome, searches>>

\* co_await callback(res), with or without a photo.
Hand ==
  /\ pc = "hand"
  /\ use' = "page"
  /\ todo' = Tail(todo)
  /\ handed' = Append(handed, Head(todo))
  /\ pc' = "browse"
  /\ UNCHANGED <<stream, answer, left, page, set, photo, outcome, searches>>

\* The callback throws: the bot's own stream broke, or the body is not what its
\* encoding says.
HandFails ==
  /\ pc = "hand"
  /\ use' = "page"
  /\ End("failed")
  /\ UNCHANGED <<stream, answer, left, browseVars, searches>>

Finish ==
  /\ pc = "browse" /\ todo = <<>>
  /\ End("ended")
  /\ UNCHANGED <<use, stream, answer, left, browseVars, searches>>

-----------------------------------------------------------------------------
Work ==
  \/ Request("upload", "uploading") \/ Receive("uploading", "uploaded")
  \/ Request("redirect", "wait")    \/ Receive("wait", "follow")
  \/ Broken
  \/ ReadAnswer \/ UploadMoved \/ UploadIgnored \/ UploadRefused
  \/ FollowNone \/ FollowBad \/ FollowGood \/ Reconnect \/ ReconnectFails
  \/ NotFound
  \/ ReadPage \/ Skip \/ Fetch \/ Fetched \/ Hand \/ HandFails \/ Finish

Next ==
  \/ Begin \/ Restart \/ Work
  \/ \E s \in {"searcher", "oneshot"} : Lose(s)

Spec == Init /\ [][Next]_vars

\* The coroutine goes on, and the servers answer or close: a photo has its
\* second from the handshake on, the stream of the searcher has no time limit.
LiveSpec == Spec /\ WF_vars(Work)

-----------------------------------------------------------------------------
(***************************************************************************)
(* Properties                                                              *)
(***************************************************************************)
\* The addresses of the page that have been dealt with.
Seen == 1 .. Len(page) - Len(todo)

\* Whatever becomes of the single photos, the callback has been called for every
\* absolute address passed so far and for no other, once for each, in the order
\* of the page; a search that ends without an exception has left none out.
EachOnce ==
  /\ Range(handed) = {page[i] : i \in Seen} \ Relative
  /\ IsInjective(handed)
  /\ \A m, n \in DOMAIN handed : m < n =>
       \A k \in Seen : page[k] = handed[n] =>
         \E j \in Seen : j < k /\ page[j] = handed[m]
  /\ outcome = "ended" => todo = <<>>

\* redirect() sends no second request on a connection that the server has said
\* it closes ("Connection was closed. Try to reconnect...").
ReconnectsFirst ==
  pc \in {"redirect", "wait"} /\ left < Limit => stream[Mine] # "closing"

\* However the servers redirect, break or refuse, a search ends, and the bot,
\* which does nothing else meanwhile, goes on.
SearchEnds == pc # "idle" ~> pc = "idle"

-----------------------------------------------------------------------------
(***************************************************************************)
(* The inductive invariant                                                 *)
(***************************************************************************)
RedirectPcs == {"redirect", "wait", "follow", "reconnect", "answered"}

SeenUrls == {page[i] : i \in Seen}

\* What is left to do is the rest of the page.
Remaining ==
  /\ Len(todo) <= Len(page)
  /\ \A i \in 1 .. Len(todo) : todo[i] = page[Len(page) - Len(todo) + i]

\* A photo is fetched for the first of todo, an absolute address that has not
\* come before.
Fetching ==
  /\ pc = "hand" => use = "photo"
  /\ use = "photo" =>
       /\ pc \in RedirectPcs \cup {"hand"}
       /\ todo # <<>>
       /\ Head(todo) \notin Relative \cup SeenUrls

\* While a page is browsed, set holds what has been seen of it, and the address
\* that is being fetched.
Visited ==
  pc = "browse" \/ use = "photo" =>
    set = SeenUrls \cup (IF use = "photo" THEN {Head(todo)} ELSE {})

\* There is no page before it has been read.
NoPage ==
  pc \notin {"idle", "browse"} /\ use # "photo" =>
    page = <<>> /\ todo = <<>> /\ set = {} /\ handed = <<>>

\* As long as redirect() goes on it has attempts left, and what it does with the
\* connection agrees with the answer in hand.
Redirecting ==
  /\ pc \in RedirectPcs \ {"answered"} => left > 0
  /\ pc = "follow" => answer.close \/ stream[Mine] # "closing"

IInv ==
  /\ TypeOK
  /\ Remaining
  /\ Fetching
  /\ Visited
  /\ NoPage
  /\ Redirecting
  /\ EachOnce
  /\ ReconnectsFirst
  /\ outcome # "none" => pc = "idle"
=============================================================================
