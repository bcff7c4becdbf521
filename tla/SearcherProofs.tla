--------------------------- MODULE SearcherProofs ---------------------------
(***************************************************************************)
(* Searcher, for all pages, limits and answers of the servers: what the    *)
(* callback is given, and that redirect() reconnects in time.              *)
(***************************************************************************)
EXTENDS Searcher, SequenceTheorems, TLAPS

\* The initial state: no search, an empty page.
LEMMA InitIInv == Init => IInv
<1> SUFFICES ASSUME Init PROVE IInv
  OBVIOUS
<1>1. TypeOK
  BY SearcherAssumption DEF Init, TypeOK, Pcs, NoResponse, Responses, Statuses
<1>2. Remaining /\ Fetching /\ Visited /\ NoPage /\ Redirecting
  BY DEF Init, Remaining, Fetching, Visited, NoPage, Redirecting, RedirectPcs
<1>3. EachOnce /\ ReconnectsFirst
  BY DEF Init, EachOnce, ReconnectsFirst, Range, IsInjective, Seen
<1>4. QED
  BY <1>1, <1>2, <1>3 DEF IInv, Init

\* A step that leaves the page and its lists alone, and does not begin to
\* browse or to fetch.
Quiet ==
  /\ UNCHANGED <<page, todo, set, handed>>
  /\ outcome' = "ended" => outcome = "ended" \/ todo = <<>>
  /\ pc' = "browse" => pc = "browse"
  /\ pc' = "hand" => use' = "photo"
  /\ use' = "photo" => use = "photo" /\ pc' \in RedirectPcs \cup {"hand"}
  /\ pc' \notin {"idle", "browse"} /\ use' # "photo" =>
       pc \notin {"idle", "browse"} /\ use # "photo"

\* Such a step keeps what is said of the lists.
LEMMA QuietStep ==
  ASSUME IInv, Quiet
  PROVE  Remaining' /\ Fetching' /\ Visited' /\ NoPage' /\ EachOnce'
<1>1. SeenUrls' = SeenUrls /\ Seen' = Seen
  BY DEF Quiet, SeenUrls, Seen
<1>2. Remaining'
  BY DEF Quiet, IInv, Remaining
<1>3. Fetching'
  BY <1>1 DEF Quiet, IInv, Fetching
<1>4. Visited'
  BY <1>1, <1>3 DEF Quiet, IInv, Visited, Fetching, RedirectPcs
<1>5. NoPage'
  BY DEF Quiet, IInv, NoPage
<1>6. EachOnce'
  BY <1>1 DEF Quiet, IInv, EachOnce, IsInjective
<1>7. QED
  BY <1>2, <1>3, <1>4, <1>5, <1>6

\* The first of todo is the address of the page that comes next.
LEMMA Advance ==
  ASSUME IInv, todo # <<>>
  PROVE  /\ Len(page) - Len(todo) \in Nat
         /\ Len(todo) \in Nat \ {0}
         /\ Head(todo) = page[Len(page) - Len(todo) + 1]
         /\ Head(todo) \in Range(page)
         /\ \A i \in Seen : page[i] \in SeenUrls
<1>1. todo \in Seq(Range(page)) /\ Len(todo) \in Nat \ {0} /\ Len(page) \in Nat
  BY SearcherAssumption DEF IInv, TypeOK
<1>2. Head(todo) = todo[1] /\ todo[1] \in Range(page)
  BY <1>1
<1>3. todo[1] = page[Len(page) - Len(todo) + 1] /\ Len(todo) <= Len(page)
  BY <1>1 DEF IInv, Remaining
<1>4. QED
  BY <1>1, <1>2, <1>3 DEF SeenUrls

\* One address of the page less: what is left, and what has been seen.
LEMMA Advanced ==
  ASSUME IInv, todo # <<>>, page' = page, todo' = Tail(todo)
  PROVE  /\ todo' \in Seq(Range(page))
         /\ Remaining'
         /\ Seen' = Seen \cup {Len(page) - Len(todo) + 1}
         /\ SeenUrls' = SeenUrls \cup {Head(todo)}
<1>1. todo \in Seq(Range(page)) /\ Len(page) \in Nat
  BY SearcherAssumption DEF IInv, TypeOK
<1>2. /\ todo' \in Seq(Range(page))
      /\ Len(todo') = Len(todo) - 1
      /\ \A i \in 1 .. Len(todo) - 1 : todo'[i] = todo[i + 1]
  BY <1>1, Advance, HeadTailProperties
<1>3. Remaining'
  <2>1. Len(todo') <= Len(page)
    BY <1>1, <1>2, Advance DEF IInv, Remaining
  <2>2. ASSUME NEW i \in 1 .. Len(todo')
        PROVE  todo'[i] = page[Len(page) - Len(todo') + i]
    <3>1. i \in 1 .. Len(todo) - 1 /\ i + 1 \in 1 .. Len(todo)
      BY <1>2, Advance
    <3>2. todo'[i] = page[Len(page) - Len(todo) + (i + 1)]
      BY <1>2, <3>1 DEF IInv, Remaining
    <3>3. Len(page) - Len(todo) + (i + 1) = Len(page) - Len(todo') + i
      BY <1>1, <1>2, <3>1, Advance
    <3>4. QED
      BY <3>2, <3>3
  <2>3. QED
    BY <2>1, <2>2 DEF Remaining
<1>4. Seen' = Seen \cup {Len(page) - Len(todo) + 1}
  BY <1>1, <1>2, Advance DEF Seen
<1>5. SeenUrls' = SeenUrls \cup {Head(todo)}
  BY <1>4, Advance DEF SeenUrls
<1>6. QED
  BY <1>2, <1>3, <1>4, <1>5

\* Skip: an address that is relative or has come before adds nothing.
LEMMA SkipStep ==
  ASSUME IInv, Skip
  PROVE  Remaining' /\ Fetching' /\ Visited' /\ NoPage' /\ EachOnce'
<1>1. /\ todo # <<>> /\ page' = page /\ todo' = Tail(todo)
      /\ set' = set \cup {Head(todo)} /\ pc = "browse" /\ use # "photo"
      /\ UNCHANGED <<pc, use, handed, outcome>>
  BY DEF Skip, IInv, Fetching, RedirectPcs
<1>2. set = SeenUrls /\ Head(todo) \in SeenUrls \cup Relative
  BY <1>1 DEF IInv, Visited, Skip
<1> DEFINE last == Len(page) - Len(todo) + 1
<1>3. /\ Seen' = Seen \cup {last} /\ page[last] = Head(todo)
      /\ SeenUrls' = SeenUrls \cup {Head(todo)} /\ Remaining'
      /\ last \in Nat /\ \A k \in Seen : k < last /\ k \in Nat
  BY <1>1, Advance, Advanced DEF Seen
<1>4. Fetching' /\ Visited' /\ NoPage'
  BY <1>1, <1>2, <1>3 DEF Fetching, Visited, NoPage
<1>5. Range(handed)' = SeenUrls' \ Relative
  BY <1>1, <1>2, <1>3 DEF IInv, EachOnce, SeenUrls
<1>6. ASSUME NEW m \in DOMAIN handed, NEW n \in DOMAIN handed, m < n,
             NEW k \in Seen', page[k] = handed[n]
      PROVE  \E j \in Seen' : j < k /\ page[j] = handed[m]
  <2>1. handed[n] \in SeenUrls
    BY DEF IInv, EachOnce, SeenUrls, Range
  <2>2. PICK i \in Seen : page[i] = handed[n] /\ i <= k
    BY <1>3, <1>6, <2>1 DEF SeenUrls
  <2>3. PICK j \in Seen : j < i /\ page[j] = handed[m]
    BY <1>6, <2>2 DEF IInv, EachOnce
  <2>4. QED
    BY <1>3, <1>6, <2>2, <2>3
<1>7. EachOnce'
  BY <1>1, <1>5, <1>6 DEF IInv, EachOnce, SeenUrls, TypeOK
<1>8. QED
  BY <1>3, <1>4, <1>7

\* Hand: the callback is given an address that has not come before.
LEMMA HandStep ==
  ASSUME IInv, Hand
  PROVE  Remaining' /\ Fetching' /\ Visited' /\ NoPage' /\ EachOnce'
<1>1. /\ todo # <<>> /\ page' = page /\ todo' = Tail(todo) /\ set' = set
      /\ pc' = "browse" /\ use' = "page" /\ use = "photo"
      /\ handed' = Append(handed, Head(todo)) /\ outcome' = outcome
      /\ outcome = "none"
  BY DEF Hand, IInv, Fetching, TypeOK
<1> DEFINE url  == Head(todo)
           last == Len(page) - Len(todo) + 1
<1>2. url \notin Relative \cup SeenUrls /\ set = SeenUrls \cup {url}
  BY <1>1 DEF IInv, Fetching, Visited
<1>3. /\ Seen' = Seen \cup {last} /\ page[last] = url
      /\ SeenUrls' = SeenUrls \cup {url} /\ Remaining'
      /\ last \in Nat /\ \A k \in Seen : k < last /\ k \in Nat
      /\ url \in Range(page)
  BY <1>1, Advance, Advanced DEF Seen
<1>4. Fetching' /\ Visited' /\ NoPage'
  BY <1>1, <1>2, <1>3 DEF Fetching, Visited, NoPage
<1>5. /\ handed \in Seq(Range(page))
      /\ Len(handed) \in Nat /\ Len(handed') = Len(handed) + 1
      /\ DOMAIN handed = 1 .. Len(handed) /\ DOMAIN handed' = 1 .. Len(handed) + 1
      /\ handed'[Len(handed) + 1] = url
      /\ \A i \in DOMAIN handed : handed'[i] = handed[i]
  BY <1>1, <1>3, AppendProperties DEF IInv, TypeOK
<1>6. \A i \in DOMAIN handed : handed[i] \in SeenUrls /\ handed[i] # url
  BY <1>2 DEF IInv, EachOnce, SeenUrls, Range
<1>7. Range(handed)' = SeenUrls' \ Relative
  <2>1. Range(handed) = SeenUrls \ Relative
    BY DEF IInv, EachOnce, SeenUrls
  <2>2. Range(handed') = Range(handed) \cup {url}
    BY <1>5 DEF Range
  <2>3. QED
    BY <1>2, <1>3, <2>1, <2>2
<1>8. IsInjective(handed')
  BY <1>5, <1>6 DEF IInv, EachOnce, IsInjective
<1>9. ASSUME NEW m \in DOMAIN handed', NEW n \in DOMAIN handed', m < n,
             NEW k \in Seen', page[k] = handed'[n]
      PROVE  \E j \in Seen' : j < k /\ page[j] = handed'[m]
  <2>1. m \in DOMAIN handed /\ handed'[m] = handed[m]
    BY <1>5, <1>9
  <2>2. CASE n \in DOMAIN handed
    <3>1. handed'[n] = handed[n] /\ handed[n] \in SeenUrls /\ handed[n] # url
      BY <1>5, <1>6, <2>2
    <3>2. k \in Seen
      BY <1>3, <1>9, <3>1
    <3>3. PICK j \in Seen : j < k /\ page[j] = handed[m]
      BY <1>9, <2>1, <2>2, <3>1, <3>2 DEF IInv, EachOnce
    <3>4. QED
      BY <1>3, <2>1, <3>3
  <2>3. CASE n \notin DOMAIN handed
    <3>1. handed'[n] = url
      BY <1>5, <1>9, <2>3
    <3>2. k = last
      BY <1>2, <1>3, <1>9, <3>1 DEF SeenUrls
    <3>3. PICK j \in Seen : page[j] = handed[m]
      BY <1>6, <2>1 DEF SeenUrls
    <3>4. QED
      BY <1>3, <2>1, <3>2, <3>3
  <2>4. QED
    BY <2>2, <2>3
<1>10. EachOnce'
  <2>1. page' = page /\ outcome' # "ended"
    BY <1>1
  <2> HIDE DEF url, last
  <2>2. Range(handed)' = {page[i] : i \in Seen}' \ Relative
    BY <1>7 DEF SeenUrls
  <2>3. \A m, n \in DOMAIN handed' : m < n =>
          \A k \in Seen' : page'[k] = handed'[n] =>
            \E j \in Seen' : j < k /\ page'[j] = handed'[m]
    BY <1>9, <2>1
  <2>4. QED
    BY <1>8, <2>1, <2>2, <2>3 DEF EachOnce
<1>11. QED
  BY <1>3, <1>4, <1>10

\* Begin: no page yet.
LEMMA BeginStep ==
  ASSUME IInv, Begin
  PROVE  Remaining' /\ Fetching' /\ Visited' /\ NoPage' /\ EachOnce'
<1>1. Remaining' /\ Fetching' /\ Visited' /\ NoPage'
  BY DEF Begin, Remaining, Fetching, Visited, NoPage
<1>2. EachOnce'
  BY DEF Begin, EachOnce, Range, IsInjective, Seen
<1>3. QED
  BY <1>1, <1>2

\* ReadPage: all of the page is left to do.
LEMMA ReadPageStep ==
  ASSUME IInv, ReadPage
  PROVE  Remaining' /\ Fetching' /\ Visited' /\ NoPage' /\ EachOnce'
<1>1. /\ page' \in Seq(Range(page')) /\ todo' = page' /\ set' = {} /\ handed' = <<>>
      /\ pc' = "browse" /\ use' = "page" /\ outcome' = "none"
  BY SearcherAssumption DEF ReadPage, IInv, TypeOK, NoPage
<1>2. Len(page') \in Nat /\ Seen' = {} /\ SeenUrls' = {}
  BY <1>1 DEF Seen, SeenUrls
<1>3. Remaining'
  BY <1>1, <1>2 DEF Remaining
<1>4. Fetching' /\ Visited' /\ NoPage'
  BY <1>1, <1>2 DEF Fetching, Visited, NoPage
<1>5. EachOnce'
  BY <1>1, <1>2 DEF EachOnce, Range, IsInjective
<1>6. QED
  BY <1>3, <1>4, <1>5

\* Fetch: the address is visited, and not yet handed.
LEMMA FetchStep ==
  ASSUME IInv, Fetch
  PROVE  Remaining' /\ Fetching' /\ Visited' /\ NoPage' /\ EachOnce'
<1>1. /\ UNCHANGED <<page, todo, handed, outcome>> /\ set' = set \cup {Head(todo)}
      /\ todo # <<>> /\ Head(todo) \notin set \cup Relative
      /\ pc = "browse" /\ pc' \in {"redirect", "hand"} /\ use' = "photo"
  BY DEF Fetch, StartRedirect
<1>2. set = SeenUrls
  BY <1>1 DEF IInv, Visited, Fetching, RedirectPcs
<1>3. Seen' = Seen /\ SeenUrls' = SeenUrls
  BY <1>1 DEF Seen, SeenUrls
<1>4. Remaining' /\ Fetching' /\ Visited' /\ NoPage'
  BY <1>1, <1>2, <1>3
     DEF IInv, Remaining, Fetching, Visited, NoPage, RedirectPcs
<1>5. EachOnce'
  BY <1>1, <1>3 DEF IInv, EachOnce, IsInjective
<1>6. QED
  BY <1>4, <1>5

\* The lists of the page are safe in every step.
LEMMA ListsStep ==
  ASSUME IInv, [Next]_vars
  PROVE  Remaining' /\ Fetching' /\ Visited' /\ NoPage' /\ EachOnce'
<1> USE DEF RedirectPcs
<1>1. CASE Begin
  BY <1>1, BeginStep
<1>2. CASE ReadPage
  BY <1>2, ReadPageStep
<1>3. CASE Skip
  BY <1>3, SkipStep
<1>4. CASE Fetch
  BY <1>4, FetchStep
<1>5. CASE Hand
  BY <1>5, HandStep
<1>6. CASE Restart \/ \E s \in {"searcher", "oneshot"} : Lose(s)
  <2>1. Quiet
    BY <1>6 DEF Restart, Lose, browseVars, Quiet, IInv, Fetching
  <2>2. QED
    BY <2>1, QuietStep
<1>7. CASE Request("upload", "uploading") \/ Request("redirect", "wait")
  <2>1. Quiet
    BY <1>7 DEF Request, browseVars, Quiet, IInv, Fetching
  <2>2. QED
    BY <2>1, QuietStep
<1>8. CASE Receive("uploading", "uploaded") \/ Receive("wait", "follow")
  <2>1. Quiet
    BY <1>8 DEF Receive, browseVars, Quiet, IInv, Fetching
  <2>2. QED
    BY <2>1, QuietStep
<1>9. CASE Broken \/ FollowBad \/ ReconnectFails \/ NotFound \/ UploadRefused
  <2>1. Quiet
    BY <1>9 DEF Broken, FollowBad, ReconnectFails, NotFound, UploadRefused, Throw,
                End, Quiet, IInv, Fetching
  <2>2. QED
    BY <2>1, QuietStep
<1>10. CASE ReadAnswer \/ UploadMoved
  <2>1. Quiet
    BY <1>10 DEF ReadAnswer, UploadMoved, StartRedirect, Throw, End, browseVars,
                 Quiet, IInv, Fetching
  <2>2. QED
    BY <2>1, QuietStep
<1>11. CASE UploadIgnored \/ Finish \/ HandFails
  <2>1. Quiet
    BY <1>11 DEF UploadIgnored, Finish, HandFails, End, browseVars, Quiet, IInv,
                 Fetching, NoPage
  <2>2. QED
    BY <2>1, QuietStep
<1>12. CASE FollowNone \/ FollowGood \/ Reconnect
  <2>1. Quiet
    BY <1>12 DEF FollowNone, FollowGood, Reconnect, Go, browseVars, Quiet, IInv,
                 Fetching
  <2>2. QED
    BY <2>1, QuietStep
<1>13. CASE Fetched
  <2>1. Quiet
    BY <1>13 DEF Fetched, Quiet, IInv, Fetching
  <2>2. QED
    BY <2>1, QuietStep
<1>14. CASE UNCHANGED vars
  BY <1>14 DEF vars, browseVars, IInv, Remaining, Fetching, Visited, NoPage, EachOnce,
               SeenUrls, Seen, IsInjective
<1>15. QED
  BY <1>1, <1>2, <1>3, <1>4, <1>5, <1>6, <1>7, <1>8, <1>9, <1>10, <1>11, <1>12,
     <1>13, <1>14 DEF Next, Work

\* What is said of the connection and of the attempts.
Control ==
  /\ Redirecting
  /\ ReconnectsFirst
  /\ outcome # "none" => pc = "idle"

\* Every step keeps types and the discipline of the connection.
LEMMA ControlStep ==
  ASSUME IInv, [Next]_vars
  PROVE  TypeOK' /\ Control'
<1> USE SearcherAssumption
<1> USE DEF Control, IInv, TypeOK, Pcs, Responses, Redirecting, RedirectPcs,
            ReconnectsFirst, Mine
<1>1. CASE Begin
  BY <1>1 DEF Begin
<1>2. CASE ReadPage
  <2>1. page' \in Pages /\ todo' \in Seq(Range(page'))
    BY <1>2 DEF ReadPage
  <2>2. set' = {} /\ handed' = <<>>
    BY <1>2 DEF ReadPage, NoPage
  <2>3. QED
    BY <1>2, <2>1, <2>2 DEF ReadPage
<1>3. CASE Skip
  <2>1. Head(todo) \in Range(page) /\ todo' \in Seq(Range(page))
    BY <1>3, Advance, Advanced DEF Skip
  <2>2. QED
    BY <1>3, <2>1 DEF Skip
<1>4. CASE Fetch
  <2>1. Head(todo) \in Range(page)
    BY <1>4, Advance DEF Fetch
  <2>2. QED
    BY <1>4, <2>1 DEF Fetch, StartRedirect
<1>5. CASE Hand
  <2>1. Head(todo) \in Range(page) /\ todo' \in Seq(Range(page))
    BY <1>5, Advance, Advanced DEF Hand, Fetching
  <2>2. handed' \in Seq(Range(page))
    BY <1>5, <2>1 DEF Hand
  <2>3. QED
    BY <1>5, <2>1, <2>2 DEF Hand
<1>6. CASE Restart \/ \E s \in {"searcher", "oneshot"} : Lose(s)
  BY <1>6 DEF Restart, Lose, browseVars
<1>7. CASE Request("upload", "uploading") \/ Request("redirect", "wait")
  BY <1>7 DEF Request, browseVars
<1>8. CASE Receive("uploading", "uploaded") \/ Receive("wait", "follow")
  BY <1>8 DEF Receive, browseVars
<1>9. CASE Broken \/ FollowBad \/ ReconnectFails \/ NotFound \/ UploadRefused
  BY <1>9 DEF Broken, FollowBad, ReconnectFails, NotFound, UploadRefused, Throw, End
<1>10. CASE ReadAnswer \/ UploadMoved
  BY <1>10 DEF ReadAnswer, UploadMoved, StartRedirect, Throw, End, browseVars
<1>11. CASE UploadIgnored \/ Finish \/ HandFails
  BY <1>11 DEF UploadIgnored, Finish, HandFails, End, browseVars
<1>12. CASE FollowNone \/ FollowGood \/ Reconnect
  BY <1>12 DEF FollowNone, FollowGood, Reconnect, Go, Attempts, browseVars
<1>13. CASE Fetched
  BY <1>13 DEF Fetched
<1>14. CASE UNCHANGED vars
  BY <1>14 DEF vars, browseVars
<1>15. QED
  BY <1>1, <1>2, <1>3, <1>4, <1>5, <1>6, <1>7, <1>8, <1>9, <1>10, <1>11, <1>12,
     <1>13, <1>14 DEF Next, Work

\* The invariant is inductive, and holds of every search on every page.
THEOREM Invariance == Spec => []IInv
<1>1. IInv /\ [Next]_vars => IInv'
  BY ListsStep, ControlStep DEF IInv, Control
<1>2. QED
  BY InitIInv, <1>1, PTL DEF Spec

\* The coroutine, its streams and its lists keep their types: the attempts of
\* redirect() never leave 0 .. attempt_limit.
THEOREM TypeCorrect == Spec => []TypeOK
BY Invariance, PTL DEF IInv

\* The callback of start_browsing is called for each absolute address of the
\* page, once and in their order, whatever becomes of the single photos.
THEOREM HandsOnce == Spec => []EachOnce
BY Invariance, PTL DEF IInv

\* redirect() asks nothing more on a connection the server said it closes.
THEOREM Reconnects == Spec => []ReconnectsFirst
BY Invariance, PTL DEF IInv
=============================================================================
