# TLA+ for tg_bot

A Telegram bot in C++23 (Boost.Asio coroutines) that echoes messages and looks
pictures up in a web search, on top of a home-made library of lock-free
containers. The repository has neither tests nor a README; the code and its
comments are the only reference. This directory holds TLA+ modules of its core,
TLC configurations that check them on small instances, and TLAPS proofs.

To check everything: `tlc -config <X>.cfg <module>` for the runs of the table
below, `tlapm <X>Proofs.tla` for the proofs.

## 1. Inventory

### Bot session (`client/client.cpp`, `responses/interface.hpp`)

*State.* `UpdateStorage`: `update_stack` (what to ask for next, on top) and
`updated_set` (ids seen); the TLS stream; nothing on disk.

*Operations.* `run` -> `handshake` (first poll) -> `start_waiting` (polls for
ever); `prepare_getUpdates`/`start_getUpdates`; `update_id`, `parse_result`;
`send_command` -> `send_message`, `send_echo`, `send_search`.

*Interaction.* One coroutine and one stream: every request waits for its answer.
The other side is the Bot API server, which keeps an update until a poll asks
for a larger offset, and takes offset -1 as "the newest, forget the rest".

*Hard.* The update is recorded before it is answered, and confirmed to the
server only by the next poll; an exception in the answer is swallowed, one in a
poll reconnects, one in the first poll after a connection kills the process; an
exception is a broken stream as well as an answer that is no JSON, has no
`update_id` or a `result` of another kind; a lost answer makes the next poll repeat
an offset; a relaunch knows nothing.

*Correct when* no update is answered twice in one launch; updates are answered
in order; none is lost by a crash in the middle of an answer; the server is told
to forget only before the first update; every update is dealt with while the bot
runs; the process does not abort for a reason other than a broken stream or an
answer that cannot be read.

### FreeList (`LFS/LF_FreeList.hpp`)

*State.* `head_`, `tail_`, `counter_`, and per node `next_` and `data_`; the last
node is a sentinel. *Operations.* `push`, `pop` at the head; `push_back`,
`merge`, `cut`, `clear`, moves. Used for the elements of `LF_stack`, for the
hazard slots (`hlist_`) and for the retired slots (`rlist_`).

*Hard.* `pop` reads `next_` of a node that it does not protect; `counter_` is
updated after the CAS; `push_back` writes a link before it wins `tail_`.

*Correct when* no interleaving loses, repeats or reorders a node; `pop` reads no
freed memory; it reports "empty" only of an empty list; the counter agrees.

### Hazard pointers (`LFS/LF_hazardous.hpp`), `LF_allocator.hpp`, `LF_stack.hpp`

*State.* `hlist_`, a chain of slots; in the low bits of a slot's `next_` whether
it is retired or inactive; `rlist_`, the retired slots; `isBusy`, `limit_`.
*Operations.* `make_hazard` (`find_free_node`, or a new slot), `protect`,
`~hazard_pointer`, `reclaim`, `check_limit`, `scan`. `LF_allocator` hands out
nodes and hazard slots; `LF_stack` has `push`, `pop` and `top`.

*Hard.* Everything: slots are claimed by CAS and wiped afterwards; the chain is
broken between the move of `tail_` and the link; `scan` compares what it has
collected with what is protected meanwhile; `top` protects what it has loaded
before, and `pop` protects nothing while it takes the head; freed memory comes back
in the next `push`, while its old slot may still be marked retired.

*Correct when* a slot has one owner; the slot handed out is empty; nothing is
freed while somebody who has validated it reads it; an object is freed once and
not leaked; the stack holds what was pushed and not popped; one thread scans at a
time, and a scan ends once it has emptied `rlist_`.

### LF_OrderList, LF_HashTable, LF_set (`LFS/LF_List.hpp`, `LF_HashTable.hpp`)

*State.* The list: `head_`, a ghost node, nodes with `next_` and a place in the
order; the low bit of `next_` says that the node it points *to* is deleted. The
table: `seg_arr_`, `current_segment_`, and buckets, each of which points to its dummy
in the list; `is_removed` of a node. *Operations.* `search_node` (which unlinks
deleted nodes), `insert`, `remove(prev)`; `inflate_table`, `get_parent_bucket` (which
makes the buckets it misses), `insert`, `find`, `remove`.

*Hard.* `insert` and `remove(prev)` act on a node that may have been unlinked or may
have a new successor since the search; lookup and insertion are separate steps;
a bucket is in the table before its dummy is in the list; the table grows while
others compute indexes; the arithmetic of indexes rests on bit tricks.

*Correct when* it is a set: what is inserted and not removed is found; a bucket has
one dummy, at its place; nothing linked is lost; `size()` agrees with the list.

### HTTP session, searcher (`session_interface.hpp`, `searcher/searcher.hpp`)

*State.* `stream_` of the static `Searcher`, which lives over many searches; the
attempts left in `redirect`; `root_vec` and `set`, the addresses of a page and those
seen. *Operations.* `run` (resolve, connect, handshake), `req_res`, `redirect`,
`shutdown`; `request_upload_image`, `start_redirection`, `start_browsing`,
`make_oneshot_session` on a session of its own, and the callback of `send_search`.

*Hard.* Redirection reconnects by `run()` in the middle, and may fail there; a picture
that could not be loaded is swallowed and its response is handed on all the same;
the searcher's stream may have died since the last search.

*Correct when* each absolute address of a page is handed to the callback once, in
order, whatever becomes of the others; no request follows on a connection that
`redirect` knows to be closed; every search ends.

### JSON layer and entities (`json_head.hpp`, `entities/*.hpp`)

*State.* None; pure functions. An entity is a list of fields, kept by hand in two or
three functions: `verify_fields` says what a document must have, `fields_from_map`
reads it into members, `fields_to_value` writes them again. *Operations.*
`parse_pointers`, `check_pointers`, `map_to_field`, `merge_json_objects`, chunked
parsing (`parse_jsonArray_as_value`, `try_parse_message`), `align_braces`,
`find_object_from_string`, `prepare_url_text`.

*Hard.* Names and kinds are written down several times; a number is `int64` or `uint64`
depending on its value; entities within a message are written under the name of
their type; a text that does not parse is mended in a `catch` block.

*Correct when* what is accepted is read; what is written can be read again; the photo
that is looked up is one the server knows; a text that was broken once is mended.

### Commands (`responses/interface.hpp`)

*State.* None. `get_command` finds what a message asks for, `Echo` cuts a text into
parts, `find_photo` (in `client.cpp`) finds the picture.

*Hard.* A text is cut at bytes, wherever a character ends; only spaces and percent
signs are escaped.

*Correct when* no byte of an echo is lost, sent twice or sent in an empty message;
there is a last photo whenever one is taken.

### Not modelled

`coro_future.hpp` (nothing uses it); `print.hpp`, `head.hpp` (output); the entities
nobody uses (`SetWebHook`, `WebHook`, `deleteWebhook`, `Animation`, `Audio`,
`linkPreviewOptions`, `forwardMessage`, and `tg_requestes.hpp`: lists of fields of the
same form as those of `Entities`, which the bot neither reads nor sends);
`decoder.hpp`, `certif.hpp` (calls into libraries); `share_resource.hpp` (a pool of the
standard library; the choice of a free cell stands for it). Of `parsing/*.hpp` only
`html_tokenize` and `find_url_field`; the trees of the page are the library's. Of the
JSON layer printing, storage pointers, reading from files and the URLs of
`fields_to_url` but for the text. Of the lists what only one thread may call: `clear`,
`cut`, `merge`, moves, iterators, destructors; and `push_back`, which nothing calls.

## 2. Modules

| module | models | state and actions |
| --- | --- | --- |
| `TelegramApi` | the server and the stream, from how `client.cpp` uses them (external) | `queue`, `wire`, `conn`; `Post`, `AnswerUpdates`, `Garble`, `Refuse`, `AnswerSend`, `GrantFile`, `SendFile`, `Sever` |
| `TgSession` | `tg_session`, composed with `TelegramApi` | `pc` is the `co_await` the coroutine is suspended at, `phase` which of `handshake()` and `start_waiting()` would see an exception |
| `UpdateService` | abstract: what the bot promises | `Arrive`, `Confirm`, `Forget`, `Take`, `Finish`, `NewLife` |
| `FreeList` | `push`, `pop`: one atomic access to memory per action | `head`, `next[n]`, `counter`, `where[n]` (who owns the node) |
| `Hazardous` | slots, retirement, `scan` | slots numbered in the order of the chain; `linked`, `retired`, `inactive` are the bits of `next_`; `rmap`, `pmap` as in `scan()` |
| `LFStack` | `LF_stack` on `Hazardous`, with `LF_allocator` in between and the list's `push` and `pop` below, one atomic access per action | `head`, `next[n]`; `ref`, `temp` (the function's variables); `stack`, what was pushed and not popped |
| `SplitOrder` | bit tricks and index arithmetic of `LF_HashTable.hpp` | operators; a `size_t` is the set of its bits |
| `OrderList` | `search_node`, `insert`, `remove(prev)` of `LF_List.hpp`, one atomic access per action | `next[n]` with the mark, `item[n]` (rank, key, dummy), `counter`, `local` (the function's variables) |
| `HashTable` | `LF_HashTable` | `segs`, `current`, `bhead[b]`, `removed`; `call` and `result` per thread; one action per access to shared memory |
| `KeySet` | abstract: a set with atomic operations | `Begin`, `Effect`, `Return` |
| `Searcher` | `Searcher` over `session_interface`: one search after another | `pc`; `use`, who called `redirect`; `stream` of the searcher and of the oneshot session; `todo`, `set`, `handed`; the servers choose any response |
| `JsonFields` | `json_head.hpp`, `TelegramEntities.hpp`: from documents to members and back | operators; a JSON value is a record with its kind, members are functions from names |
| `Entities` | the entities the bot reads | one table per entity: `requested`, `optional`, `reads`, `pairs`, ...; `VerifyFields`, `Read`, `FieldsToValue` |
| `Commands` | `responses/interface.hpp` and what `client.cpp` sends on | `GetCommand`, `Parts`, `FindPhoto`, `PrepareUrlText`; `UrlDecode` is the server |
| `RootTags` | `parse_root_tag` of the searcher, from an attribute of the page to addresses | `HtmlTokenize`, `AlignBraces`, `FindObjectFromString`, `TryParseMessage`, `SeekCbirSimilar` |
| `SplitOrderArguments`, `MessageArguments`, `MCRootTags` | behaviours that build one argument of the operators step by step | a word, an index; a document, a text; an attribute |
| `MCAlgorithms`, other `MC...` | instances for TLC; `MCAlgorithms` takes both kinds of arguments | |
| `HashTableInvariants` | the inductive invariants of the table | |
| `Arithmetic` | lemmas: induction by the least number, sums over finite sets, powers of two; what the operators of `SplitOrder` compute | |
| `FreeListProofs`, `TgSessionProofs`, `SearcherProofs`, `LFStackProofs`, `AlgorithmsProofs`, `HashTableProofs`, `HashSetProofs` | proofs of the module they are named after; `AlgorithmsProofs` of `SplitOrderArguments` and `MessageArguments`, `HashSetProofs` of the table under one thread | |

Composition: `TgSession` EXTENDS `TelegramApi`; `LFStack` EXTENDS `Hazardous`;
`HashTable` EXTENDS `OrderList` and `SplitOrder`; `Entities` EXTENDS `JsonFields`, and
`Commands` EXTENDS `Entities`; `MessageArguments` EXTENDS `Commands`, and
`SplitOrderArguments` EXTENDS `SplitOrder`. `Searcher` stands alone: `TgSession`
takes a search as some photos or an exception (`SearchFound`, `SearchFailed`), and the
callback, which is the session's, is one step (`Hand`) of `Searcher`.
A page of `Searcher` is a sequence of addresses; `RootTags` says which ones an attribute
gives. `LFStack` has the atomic steps of the list once more, because its nodes are
freed by `scan()` and pushed again, by any thread. `rlist_` is drained as a whole and
is a set in `Hazardous`; its push and pop are single steps, which `FreeList` justifies,
as `OneScanner` says that one thread pops it at a time.

Abstractions that matter to a reader:

- An update is a number, its kind, its length and the number of messages its
  answer takes (`Kind`, `Size`, `Parts`); texts are left out of `TgSession`. How a text
  is cut into parts, and which photo a message has, is in `Commands`.
- `start_waiting()` calls `run()` on a reconnection, whose `handshake()` calls
  `start_waiting()` again and never returns. Only the innermost frame ever
  moves, and `phase` keeps its state.
- An answer that cannot be read (`Garble`) is one kind of message, whatever is wrong with
  it; a poll so answered may have been acknowledged or not. `send_message` throws the
  answer away, so it is not read there (`IsParsed`). What is downloaded is any bytes.
- Memory is sequentially consistent. `protect()` stores with release order,
  which on real machines may be delayed past the load of `head_` that validates
  it; `Hazardous` does not see that.
- Freed memory keeps what it held until it is pushed again, one of the things a pool may
  do with it. With one thread that pops nobody reads it but a reader in the gap of
  `make_hazard` (`NoReadAfterFree`), and `stack_aba` does not depend on it. A failed
  `assert` ends the process ("abort"), as in a build without `NDEBUG`.
- The counter of the stack is left out: `LF_stack` never looks at it.
- `rlist_.size()` is the number of elements, although `counter_` lags behind
  (`Balanced` says by how much); the limit is only a trigger.
- Reversed hashes are only compared, so `HashTable` keeps their ranks (`Rank`),
  computed from the real hashes of `SplitOrder`. A key is an integer, whose
  `std::hash` is itself.
- Nodes of `OrderList` are never reused: `scan()` starts with ten retired ones,
  more than the bound lets a behaviour have. What happens to `prev`, which
  `search_node` does not protect, when memory does come back, is not modelled.
- `get_parent_bucket` walks up to the first bucket in one step. A slot never
  becomes null again, and all are read once more on the way down.
- In `JsonFields` a number below `SignBit` is an `int64`, and what is taken for a
  `uint64_t` wraps around at twice as much; in the code `SignBit` is 2^63. Any value
  keeps what is told apart: negative, `int64`, `uint64`. A text is a sequence of names.
  Members the code leaves uninitialized are not in the domain; `Complete` says when all
  requested ones are set.
- In `Entities` the constructors of entities call each other down to the fourth level
  (`Members`, `Nested`, `Lower`, `Lowest`), which is the thumbnail of the document of a
  message that is replied to. What is deeper stays unset.
- In `Commands` a text is a sequence of bytes. A command with its prefix counts as one
  byte, one character has two ("lead" and "more"), an escape is the sign and the byte,
  and the limit of a part is 2 instead of 2056. What the server does with bytes that are
  not UTF-8 is external: it refuses them, so it hears nothing (`Heard`).
- `sendMessage.hpp` and `sendPhoto.hpp` are not in `Entities`: the bot only writes them, as
  the parameters of a request, and no document is ever read into one. What they do with
  a text is `PrepareUrlText`, and `find_photo` is in `Commands`.
- `PhotoSize` inherits `verify_fields` from `TelegramEntities<File>`, so the photos of a
  message are read as files (`ValidPhotos`). Only a thumbnail, which goes through the
  constructor, is checked for its width and height.
- In `RootTags` an attribute is a sequence of braces and names, and stands for a text
  longer than a chunk of the parser; "thumbs" is a member with its list.
- In `Searcher` a response is its status, its location (none, absolute, or one that
  `parse_uri` refuses) and whether the server closes; `found` stands for `see_other`
  after an upload, too. An address is its identity and whether it is relative. A
  handshake on a stream that was in use before either works or throws: what OpenSSL
  makes of it is external, and the stream may be lost right after.
- `FindFault` stands for the null dereference: the process, with all its
  threads, is gone after it.

Two branches of the code are never taken in the present composition: the test
`updated_set` in `parse_result` (the offset alone keeps seen updates out, see
`ParsedIsNew` in the proofs), and the branch of `scan()` for a retired slot with
no data (nobody retires an empty slot in `LF_stack`; `LF_OrderList` might).

## 3. Plan

Done: all modules of section 2, and the proofs of section 6. The order was: the session
with its server, the list and the hazard pointers, the hash table, the searcher; then
the pure functions; then proofs of what had been model-checked. What is left, most
important first:

1. A store buffer per thread for `protect()`.
2. `Searcher` shown to implement what `TgSession` takes of it, "some photos or an
   exception".
3. `FreeList` completed: `push_back`, `merge`, `cut`, which nothing in the
   repository calls concurrently; `clear` of the list and of the table.

## 4. Runs

| run | instance | shows |
| --- | --- | --- |
| `session` (`MCTgSession.cfg`) | `LiveSpec`, 5 updates (a search, a document, an echo of no part, one from a stranger, a lookup), 3 launches; lengths 2 and 3 against chunks of 5 | types; `AtMostOnce`, `Ascending`, `Accounted`, `ForgetsOnlyWhenFresh`; the session implements `UpdateService`; every update is answered, given up or forgotten while the bot runs; the process aborts in `handshake()` only on a broken stream, an answer that cannot be read or a batch of short updates |
| `free_list` (`MCFreeList.cfg`) | 2 threads that push, 1 that also pops, 3 nodes | the list is what was pushed and not popped; no freed node is read; the counter's lag |
| `stack_reclaim` (`MCLFStack.cfg`) | 1 thread that pops, 2 that push, one of which reads, 2 objects, 4 slots, limit 1 | `top()` and `pop` read no freed memory; the list is what was pushed and not popped; each object is retired once and not leaked |
| `stack_slots` (`MCLFStackTwo.cfg`) | `LiveSpec`, 2 threads that push and pop, 1 that reads, 1 object, 4 slots, limit 1 | the life of a slot: exclusive, empty when handed out; one scanner; a scan ends |
| `stack_gap` (`MCLFStackGap.cfg`) | 1 thread that pops, 2 that push and read, 1 object, 4 slots, limit 1 | a counterexample, see section 7 |
| `stack_aba` (`MCLFStackABA.cfg`) | 2 threads that pop, one of which pushes, 2 objects, 4 slots, limit 1 | a counterexample, see section 7 |
| `algorithms` (`MCAlgorithms.cfg`) | words of at most 2 bits, buckets and keys up to 63 in 7 segments, documents of 9 entities with any 2 fields changed, texts of at most 5 bytes | the bits are reversed and the top bit is found; every bucket has a slot of its own, its parent is the bucket it splits, a key lies in its bucket; what an entity accepts it reads, and what it writes it reads again; a photo that is taken is there; an echo arrives |
| `root_tags` (`MCRootTags.cfg`) | attributes of at most 9 symbols | a counterexample, see section 7 |
| `table_set` (`MCHashTable.cfg`) | 1 thread, 2 keys, load factor 1, 4 buckets, 10 nodes | the table implements `KeySet`; the list is sorted; `size()` agrees |
| `table_shared` (`MCHashTableTwo.cfg`) | 2 threads that insert, one of which removes, 1 key, load factor 0, 4 buckets, 9 nodes | one dummy per bucket, at its place or before it; nothing linked is lost while nothing is removed; `get_segment` never waits |
| `search` (`MCSearcher.cfg`) | `LiveSpec`, 2 searches, 3 attempts, an empty page and one of four addresses: one comes twice, one is relative | the callback is called once for each absolute address; `redirect` reconnects first; a search ends |
| `table_order` (`MCHashTableOrder.cfg`) | 2 threads that insert 2 keys | a counterexample, see section 7 |

*Bounds.* `MaxId` and `MaxLaunches`: three updates are needed for an older, a
current and a newer one, a fourth and a fifth for all kinds of answers in one behaviour;
three launches for a crash, a forgetting poll and a crash again. `ChunkSize`, `Size`: the
first two updates glue to less than a chunk, any other two to one or more. `Nodes`:
one element in the list while another is freed and reused. In the runs of the stack
nothing bounds how often a thread pushes, pops or reads: memory goes round for ever.
Two objects make a list with a link that can go wrong, and let one be retired while the
other goes round. `MaxSlot`: one slot per thread that may own one, and retired ones waiting
for a scan; at the bound a `make_hazard` waits. In `stack_reclaim` none does: the run has
the same states with a larger bound. `Limit` 1: a scan after every
retirement. `stack_gap` needs three threads: one inside the gap of `make_hazard`, one
reading behind it, one scanning. In `stack_reclaim` nobody else makes a hazard while one
thread reads and another scans, so the exception that `NoReadAfterFree` makes is not
met there; the proof has it, for any number of readers. In
`stack_slots` two threads may reach the limit together, which is what `isBusy` is for. What it checks holds for any number of poppers; what
`stack_reclaim` checks does not (`stack_aba`), and it has one.

`MaxSegment` 2: with four buckets, 3 splits 1 and 1 splits 0, so one lookup of key 3
makes two buckets, and 2 and 3 part only when the table has grown twice.
`LoadFactor`: the default is 2; 1 and 0 let the table grow with fewer keys. `MaxNodes`:
in `table_set` four elements besides the dummies, so that a key is inserted again
after its removal; in `table_shared` two insertions may be under way at once, each
with the dummies it makes. One key is enough there for both threads to meet at every
bucket and every link; with two keys the order breaks (`table_order`).
In `algorithms` pairs of bits show what operators that only move bits do to every
word; carries occur in none of them but `log2_64`, whose product has one factor with
a single bit. A document starts correct, with all fields or the requested ones, and two
of its fields are changed to a value of another kind, an edge value or nothing: two,
because a member is lost or kept depending on at most one other (an array and its
element, an entity and the one written under the same name). `Correct` and `OtherValues`
are the values of both sorts. `SignBit` 8 leaves room for numbers of all three sorts. Five
bytes make a command and two full parts of `Limit` 2; among the characters are the two that
are escaped, the three signs that are not, and one of two bytes, which a cut can part. What
the run says of documents and texts is proved for any number of changes and of characters
(`AlgorithmsProofs`). Nine symbols are the shortest attribute with an address in it.

In `search` three attempts make a first, a middle and a last one; `redirect` is called
with five. Two searches: the second starts with what the first left of the stream.

*Symmetry* is used over readers and objects, pushers and nodes, in runs of
invariants only. *Deadlock* is checked in `free_list`. Elsewhere the system
really stops: in the hash table when no node of the bound is left; the process ends and is
not launched again, or ends at a null pointer or an assertion; on the stack no slot of the
bound is left.

## 5. Fairness

`TgSession!LiveSpec`: the coroutine goes on whenever it can (`WF` of `Bot`), as
`io_context::run` resumes what is ready. Of the server: it answers `sendMessage`
and downloads (`WF`), does not refuse every poll or every `getFile` for ever
(`SF` of `AnswerUpdates` and `GrantFile`: `send_search` retries without a limit,
and only so does it end), and the network does not lose every answer to a poll
(`SF` of `ParseResult`). `IdleClose` (`WF`) is needed because of `send_echo`: after
a refused `getFile` it reads again without having asked, and goes on only when
the server closes the idle connection. Nothing is assumed of `Kill`, of an
exception in `run()`, or of the users; the property allows for a bot that stops.

`Searcher!LiveSpec`: the coroutine goes on, and the servers answer or close (`WF` of
`Work`). For a photo the code sees to that, with a limit of a second; for the searcher's
own stream it is an assumption, as nothing in the code limits it.

`LFStack!LiveSpec`: each thread that is inside the hazard pointers is scheduled
(`WF` of `Domain(p)`); the others may go on for ever or stay idle. `ScanEnds` begins
where `rlist_` was found empty. The loop before that (`LF_hazardous.hpp:465`) ends only
if the others stop retiring: the code gives no promise, and none is stated.

## 6. Proofs

Checked by TLAPS for every value of the constants, with no assumption but the
`ASSUME`s of the modules (and one more for `FreeList`, below).

**`TgSessionProofs`.** `TypeOK`, `AtMostOnce`, `Ascending` and
`Accounted` are invariants, `ForgetsOnlyWhenFresh` holds of every step, and the
session implements `UpdateService` (`Serves`), for any number, kinds and lengths
of updates and any number of launches. None of them is inductive. The argument of
`IInv`:

- `PollOnWire`, `Delivered`: a poll on the stream asks for the top of the stack,
  and its answer holds the oldest of what the server keeps, nothing below the
  top. So the update parsed is at the top or above it and its id + 1 is new
  (`ParsedIsNew`), which gives `Ascending` and `AtMostOnce`.
- `Recorded`: nothing seen is above the top, the top is behind a sent update,
  and what was begun has been seen.
- `DealtWith`: what the server keeps below the top was answered or is being
  answered. A poll is on the stream only while no answer is in progress
  (`Replying`), so what the server drops on it was answered: `Accounted`. The
  same conjunct says that it was taken up in this launch, which is what `Confirm`
  of `UpdateService` asks for.

Most steps record nothing and touch no poll; `Quiet` describes them and
`QuietStep` proves the invariant for all of them at once. The others
(`Launch`, `AskUpdates`, `ParseResult`, `Post`, `AnswerUpdates`, `Garble`) have a lemma
each; the last two share `AcknowledgeStep`, what a poll does to the queue.

`AbortsOnlyOnFailure` holds of every step (`AbortsOnlyThen`). The parser takes the
first update of an answer if the whole is at least a chunk long; the length is a sum
over the batch. Where any two updates fill a chunk (`LongBatch`), so does the batch
(`TwoOfBatch`), so it parses (`LongParse`), and only a broken stream and an answer that is
none are left as reasons for an exception in `handshake()`. `Arithmetic` says of such sums
that any element may be added first (`AnyFirst`), which the definition, with its `CHOOSE`,
leaves open.

**`FreeListProofs`.** Under `OnePopper` (at most one thread pops), for any number
of pushing threads and of nodes: `TypeOK`, `Linked` and
`NoReadAfterFree`; and `Balanced`, if the threads are finitely many. `OnePopper` is what
the code has where `rlist_` is popped: `scan()` runs behind `isBusy` (`ScansAlone`
below). The list alone is not inductive, because a CAS may succeed on a head that was
popped and pushed again; `Owned` says that a node in a thread's hands is in no list, and
`PopLocals` that what `pop` has loaded stays where it is until the only popper takes it,
so its `next_` is still what was read. For `Balanced` the threads between a CAS and its
counting are counted (`CountSteps`).

**`LFStackProofs`.** In two halves. For any number of threads, whatever they do, and any
objects and slots: `SlotExclusive`, `FreshHazard`, `FaultOnlyInGap` and `OneScanner`. Under
`OnePopper` (at most one thread pops; any number push and read): `Linked`, `RetiredOnce`,
`NothingLeaks` and `NoReadAfterFree`. Without that hypothesis they are false, `stack_aba` is
the counterexample. None is inductive; the conjuncts of `SlotInv` (`SlotInvariance`):

- `Control`, `Chain`: where a thread is says whether it has a slot and which operation it is
  in; a slot before `tail_` is linked, or somebody is about to link it. Hence `FaultOnlyInGap`.
- `Apart`, `Held`: a slot is free, in one thread's hands, on `rlist_`, in the scan, or just
  emptied by it, and in one place only. Hence `SlotExclusive`.
- `Contents`: what a slot holds while its owner is at work. A slot that was free is wiped
  before it is handed out, and one behind `tail_` is empty: `FreshHazard`.
- `Scanning`: one thread scans, and its walk goes up to what `tail_` was when it began.

and those of `MemInv` (`Invariance`):

- `Linked`, `PopLocals`: the list is what was pushed and not popped. A head that `pop` has
  loaded stays in it, with the `next_` that was read, until `pop` takes it: nobody else
  does. This is what a second popper breaks.
- `Memory`: an object is in the pool, once in the stack, with one thread, or in one
  retired slot: `RetiredOnce`, `NothingLeaks`. A slot whose object has just been freed
  (`dying`) does not count: the object may be in another thread's hands by then, or on the
  stack again.
- `Shielded`: why a reader is safe. When `top()` has validated its slot, the
  object is in the stack, so no scan has it. It can be retired only later, and a scan
  takes it only before its walk begins; that walk has yet to pass the reader's slot, or
  has the object in `pmap`. A scan that was cut short is the one exception, and it is the
  counterexample `stack_gap`.

**`Arithmetic`, `AlgorithmsProofs`: words and indexes.** `BitTricks` for every word of 64 bits, and
`PlaceOfItsOwn`, `ParentIsNearest` and `KeyInItsBucket` for every index below 2^30 and any
number of segments up to 30; the run's own bounds play no part. The four hold of every
argument, so the invariant (`Typed`) is only that arguments are arguments. (The behaviours of
`ArgumentSpec` are what `word` and `index` do in `MCAlgorithms`, and those of `MessageSpec`
below what `document` and `text` do. `MCAlgorithms` itself builds its sample documents with a
recursive operator, which keeps it out of the prover's reach.) The work is in the lemmas:

- `Reversed`: in `reverse_bit_order` each swap of neighbouring groups moves bit `b` to
  `Swap(b, n)`, and five of them to `31 - b`.
- `Log2IsTop`: each `value |= value >> n` doubles the row of bits below the top that
  are set (`SpreadFills`); what is left after the subtraction is the top bit, and the product
  shifts the magic number. Its 64 windows of six bits are computed one by one, and the
  table has the right entry for each (`Windows`, `EachFound`).
- `Numbers`, `NumberOfWord`, `WordRest`: an index is the number of its bits, and a remainder
  by a power of two has the bits below it. Powers are related case by case up to 2^30
  (`EachDoubled`), which is where that bound comes from.
- `DummyOrder`, `KeyBehindDummy`, `NoneBetween`: reversed hashes compare as the words do at
  the lowest bit in which they differ; a key comes right behind a dummy with its bits; and
  between an index and its remainder there is no bucket of the smaller table.
- `SegmentBounds`: segment s > 1 has the indexes from 2^(s-1) + 1 to 2^s.

**`AlgorithmsProofs`: texts.** `EchoArrives`, for every text in any characters and every
`Limit` (2056 in the code). `Recursion` is what makes recursive functions usable: if one
step stays in a set, there is a function with these steps and all its values are in that
set. From it come the laws that the rest needs: `FlattenSeq` of a longer sequence is the
old one with the last piece behind it, and what the server has read of a URL plus one more
escaped byte is what it had read and that byte. So what is heard of a part without a sign
of the URL is the part, if it is UTF-8 (`HeardAsWritten`). The parts are the text: part
i + 1 begins where part i ends, the number of parts is the size divided by the limit and
rounded up, so the last one ends with the text and has a byte. `EchoOf` says that the text is
what is behind the command, or all of it if anything, such as a space, comes before.

**`AlgorithmsProofs`: documents.** `AcceptedIsRead`, `PhotoToLookUp` and `RoundTrip`, for
every document that any number of changes makes of a correct one, with any `Correct` and
`OtherValues` and any `SignBit`. All that is assumed of values, and that the invariant
(`DocumentTyped`) keeps, is that a number is an integer, an array is a sequence and
what an object holds is so as well (`DocumentAssumption`). The three go through the tables:

- `EachEntity` says of every entity how its tables agree (`Lists`, `Forms`, `Flat`): each
  field that is asked for is looked for, with the same kind and, unless it is left out by
  hand, under the same name. It is the only place where the tables are looked at one by one.
- `AcceptedFieldsRead` follows a field: it is accepted with its kind or as an integer, so
  `ValueToType` takes it, so it becomes a member. No heir accepts an origin, because `find_pointer`
  of an empty pointer finds nothing.
- `PhotosToLookUp`: a photo of the array is accepted as a `File`, a thumbnail as a
  `PhotoSize`, either with as many requested fields as there are, which is all of them
  (`FullSubset`), so its `file_id` is there, and it is a member unless it is a number
  (`PhotoHasId`). An array of photos keeps what is accepted, in order; if nothing is
  kept, there is a thumbnail or no photo at all.
- `EntitiesReturn`: a member is a value that would be taken again as it is (`Stays`): a
  `uint64_t` does not wrap around twice. So a member written under its own key is accepted
  and read as itself. The pairs of an entity and the objects within it share no key; the
  chat of a message is the first under `chat`, and its document the only one under
  `document`, so neither is hidden. `WithinReturns` says the same of these, one level down.


**`HashTableProofs`.** For any number of threads that insert, find and remove at once, any
keys below 2^30, up to 30 segments and any load factor: `OneDummy`, `NeverWaits`,
`NothingLost` and `HeadServes`; and, if the threads are finitely many, that the counter
agrees with the list while nothing has been removed (`SizeWhileCalm`).

- `IndexArithmetic`, `RankOrder`: what the rest uses of the index arithmetic. Every part of
  a lineage is a bucket, in a segment the table has; along a lineage and down to the key
  the ranks grow (`AllDown`, by the least bucket for which it fails); ranks compare as the
  hashes do (`RankOrders`). They follow from `Arithmetic` and are assumed nowhere.
- `IInv`. `Makers` says that who inserts a dummy has won the slot of its bucket, alone, and
  that the slot is not null from then on; `Dummies` that a dummy in the list has a bucket,
  and whoever still makes that bucket has passed its insertion; `Segments` that a segment is
  put into the array before it is published, by one thread, after the one before it.
  `Followed` is needed for the types: no null pointer is followed, whatever is unlinked
  meanwhile.
- `ListInv` adds `Descent` (the buckets a call has still to pass come one behind the other,
  and none behind its key) and `Heads` (a head is a dummy that is not behind the place of the
  bucket's own, and a bucket whose head is another bucket's dummy is being made right now):
  `HeadServes`. `Known` and `Calm` (until something is removed, every node made is
  reachable and nobody has seen a mark) give `NothingLost`.

`Reachable` follows the links from `head_` by a recursive function over the number of steps.
The proofs know it by what it is: the least set with `head_` in it that holds the next node
of each of its nodes (`ReachableLeast` and the lemmas after it). What a link that is swung
does to that set is one lemma for insertion and one for unlinking.

**`HashSetProofs`.** The table under one thread: `Ordered`, `SizeRight`, and the refinement
`SetSpec`, for any keys, calls, sizes and load factors. The theorems carry the hypothesis
`Alone` (there is at most one thread), which is how `client.cpp` uses `updated_set`;
without it they are false, `table_order` is the counterexample. The argument of `SetInv`:

- `Beginning`, `Labelled`, `Sorted`: the list starts with `head_`, the ghost and the dummy of
  bucket 0; a rank is that of the key; the next node has the next rank.
- `Deletion`, `Anchored`: only elements are marked, and a node claimed for removal is one that
  is about to be marked; heads are in the list.
- `Position`: what a search has passed is in the list, and not yet behind its goal, and what
  it has read of it is still so. It ends between the last node that is not behind the goal
  and the first that is, so what it does not find is not there.
- `Purpose`: what a call looks for is what its operation needs next, and a key about to be
  inserted is not there.

`Effect` of `KeySet` is the link that an insertion wins, the mark of a removal, or the end of a
search; every other step is a stutter.

**`SearcherProofs`.** For any pages, any number of searches and attempts: `TypeOK`, `EachOnce`
and `ReconnectsFirst`. `Remaining` says that what is left to do is the rest of the page;
`Fetching` that a photo is fetched for the first address of that rest, which is absolute
and has not come before; `Visited` that `set` is what has been seen of the page and the
address in hand; `NoPage` that nothing is left of the last search when a new one reads its
page; `Redirecting` that attempts are left while `redirect` goes on, and that what it
does with the connection agrees with the answer in hand. Most steps leave the page and
the lists alone and are dealt with at once (`QuietStep`); `Skip`, `Hand`, `ReadPage`, `Fetch`
and the beginning of a search have a lemma each.

**Model-checked only.** Of what the passing runs check, the three liveness properties
(`EventuallySettled`, `ScanEnds`, `SearchEnds`), which are beyond the prover, as is `ENABLED`;
every invariant and every action property has a theorem. What `RootTags` computes is only
model-checked, too: its run ends in a counterexample. Of a `RECURSIVE` operator nothing can
be proved; there is one left, for the samples of `MCAlgorithms`. Recursive functions are
another matter: the library's induction
theorems take an operator as a parameter and cannot be used, but the least element of
the set of counterexamples does as well (`LeastNumber`, `UpTo` in `Arithmetic`, `Recursion`).
So `Lineage`, `Reachable`, the sum over a batch, `Number`, `UrlDecode` and `ValidPhotos` are
reasoned about for every argument.

## 7. Findings

`stack_gap`: `scan()` (`LF_hazardous.hpp:452`) collects "all not retired nodes"
into `pmap`, by its comment. It walks from the first slot until the tail or until
a null `next_`. `make_hazard` moves `tail_` (line 387) before it links the old tail
to the new one (line 390). If a thread stops in between, and another one makes a
hazard behind it, the walk ends before the second one's slot: the object its
owner has protected and validated in `top()` is freed while `top()` reads it. In
the same gap `find_free_node()` dereferences a null pointer. Under sequential
consistency and with one thread that pops, `NoReadAfterFree` and `FaultOnlyInGap` of the
passing runs show no other way to either; what a delayed store of `protect()` adds is
outside of the model.

`stack_aba`: `scan()` asserts that no two retired slots hold one object, with the remark
"unfortunately this is true" (`LF_hazardous.hpp:483`). `LF_stack::pop` does not see to it.
`FreeList::pop`, which it calls, loads `head_` without a hazard pointer and reads `next_`
of that node (`LF_FreeList.hpp:322-332`). In the counterexample one thread has done so;
another one pops that node and the one behind it, a scan frees both, and the first is
pushed again while the second is on its way to being pushed. The `compare_exchange` finds
the same head, succeeds, and makes the node that is not in the list the head. It is then
pushed in front of itself, popped twice and retired twice. With `NDEBUG` there is no
assertion, and one of the two slots is never freed. With one thread that pops all is well
(`stack_reclaim`), and so it is with `update_stack`, which one coroutine uses.

`table_order`: `find_comporator` stops a search at the first hash behind its own,
because "a node must be between a parent bucket and next bucket"
(`LF_HashTable.hpp:227`). `LF_OrderList::insert` searches for the place of the new node
and then reads `next_` of the node before it again (`LF_List.hpp:463`); what another
thread has linked there in between ends up behind the new node, whatever its hash.
In the counterexample a key of bucket 0 ends up behind the dummy of bucket 1: a
`find` from bucket 0 stops at the dummy and reports that the key is not there.
`tg_session` calls `updated_set` from one coroutine, where `table_set` shows that the
table is a set, as `TgSession` takes it.

`root_tags`: the attribute of the page that holds the similar pictures is a JSON document
in a text. `html_tokenize` hands all but its last character to the tokenizer
(`html_pars.hpp:286`), so its last brace is missing: "usually last brace doesn't exist"
(`searcher.hpp:252`). `align_braces` means to append what is missing,
but `json::string{brace_size, '}'}` (`json_head.hpp:1133`) is a list of two characters, the
first of them the number, which no JSON parser takes. The second attempt, of which
`searcher.hpp:270` says that "maybe it might work", parses what `find_object_from_string` returns,
which begins with the name of a member and ends before its closing brace. So of an
attribute that is a complete document no address is found.

Worth knowing of the list and the table, for threads that remove as well: a node can
be inserted behind one that has just been unlinked, and `remove(prev)` may mark a node
that came since its search. Every insertion whose `compare_exchange` fails returns
false, as if the key were there (`LinkFails`). A removal that fails leaves `is_removed`
set (`MarkFails`), so the key can be found and never be removed. `size()` counts the
dummies. `log2_64(0)`, said to return zero (line 27), is 63; no caller passes zero.

Not wrong, but worth knowing of the session:

- Offset -1 on every launch: of the updates that wait while the bot is down all
  but the newest are dropped unanswered (`forgotten`).
- A burst of short updates in one answer glues to a text below 512 bytes, which
  does not parse: `start_waiting()` reconnects, and the `handshake()` of the
  reconnection gets the same answer and aborts the process. From 512 bytes on,
  the first update is taken and the rest comes with the next poll.

Of the searcher: a redirection keeps the old host, also when the location is absolute;
an upload answered with `found` or `accepted` ends without a word.

Of texts and entities (all of them exceptions that `MessageArguments` names):

- "/echoes" counts as "/echo" with the text "es". An echo with spaces before the command
  sends the command, too, as `get_command` skips the spaces and `Echo` does not. A text is
  cut at the first `&` or `#`, and `+` arrives as a space: `prepare_url_text` escapes none
  of them. The limit of a part counts bytes, and a cut inside a character makes two parts
  that are not UTF-8. A negative chat id goes out as 2^64 + id.
- The photos of a message never get their width and height, which stay uninitialized.
- No origin of a forwarded message is ever recognised (`VerifyHeir`). Entities within a
  message are written under the name of their type and hide each other
  (`LostInWriting`). "descrtiption" is misspelt where it is written.
- A thumbnail whose fields were refused is still the photo to look up, without a
  `file_id`; `getFile` is then repeated without end.

## 8. Hazards without a property

`PROJECT.json` lists every hazard at its line. These have no property:

- The store order of `protect()` (`LF_hazardous.hpp:139`), which belongs to the plan.
- The loop of `scan()` that empties `rlist_` (`LF_hazardous.hpp:465`) ends only if others
  stop retiring, and `send_search` repeats a refused `getFile` for ever (`client.cpp:260`):
  nothing in the code promises an end.
- Removals by several threads (`LF_List.hpp:486`, and an insertion they meet, `469`), and an
  insertion between a lookup and an insertion of the same key (`LF_HashTable.hpp:735`): with
  several threads the table is no set, and nothing claims that it is. The properties of `table_set`
  are about one thread.
- The searcher's stream (`searcher.hpp:157`) lives as long as the bot's own connection and
  has no time limit: nothing in the code promises that a later search succeeds;
  `SearchEnds` shows that it fails cleanly.

`push_back`, which would lose nodes if two threads called it at once, `merge`, which adds a
size that has just been reset, and `log2_64(0)` are not listed: nothing in the repository
calls them so.
