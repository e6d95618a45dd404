# A formal model of chromatic_imap

TLA+ modules that model the IMAP server of this repository
(`src/chromatic_imap`, with the database schema `oemo.sql` of
`src/ImapServer/ImapImpl`), the Windows server it was ported from where the two
differ or only the older one is complete (`src/ImapServer/ImapImpl`), and two
small components beside them; TLC configurations that check the modules on small
instances; and TLAPS proofs of what holds for every instance.

Paths below are relative to `src/`. Short names: `handler`, `mgr`, `pool` and
`manip` for `chromatic_imap_handler.cpp`, `chromatic_imap_mgr.cpp`,
`chromatic_thread_pool.cpp` and `chromatic_imap_message_manip.cpp` in
`chromatic_imap/`; `sql`, `OemoImapMgr`, `OemoImapSearch` and so on for the files
of `ImapServer/ImapImpl`.

## 1. The system

The server is one process built on ACE. It accepts IMAP connections, parses
commands, and serves mailboxes whose index is in a MySQL database that other
programs (delivery, archiving) fill at the same time.

| part | state | operations |
|---|---|---|
| acceptor (`chromatic_acceptor.cpp`) | the reactor, the pool, the concurrency mode | makes a handler per connection; starts and stops the pool |
| thread pool (`pool`) | message queue, counter of active threads | `start`, `enqueue`, `svc`, `stop` |
| connection handler (`handler` 31-380) | reactor registration, idle timer, last activity time, manager | `open`, `handle_input`, `process`, `svc`, `handle_timeout`, `handle_close`, `close`, `destroy` |
| request lines (`handler` 263-582) | the receive buffer, the stream of a request | `process`, `perform`, `parse_command` |
| command handlers (`handler` 585-1762) | `m_currentState`, `m_currentCommand` | one per IMAP command |
| session manager (`mgr`) | `mbx_info()`, `messages()`, `m_bCloseExpunge`, the database connection | one `on_*` per command, and the refresh of its copy of a mailbox |
| message sets (`manip`) | none | expansion and intersection of message numbers |
| fetch items (`mgr` 747-1655, `OemoImapMgr` 761-1712) | the list of items, the flags of a message, the payload | one per item of FETCH |
| search (`OemoImapSearch`) | the criteria and their results | deconstruction, conversion, intersection |
| database (`sql`) | messages, flags, offsets, folders, subscriptions | stored procedures and triggers |
| database commands (`OemoDbInterfaceImpl.h`) | a connection and its transaction | `Initialize`, `ReInitialize`, `Execute` |
| Windows service (`OemoImapMessageServer*.cpp`, `OemoProtocolThread.cpp`) | `stop_`, `g_dwFinished`, the threads | `svc`, `handle_control`, the protocol thread |
| timer services (`chromatic_imap_svc_lib`) | limits, counts, timers | `init`, `handle_timeout`, `handle_close` |
| linked list (`chromatic_algo`) | nodes | `append`, `remove` |
| DDS, Xapian, XML database, file system, strings, `tlpi` | see section 8 | |

How they interact:

* The thread that owns the reactor accepts connections, waits for input, and
  runs the idle timers. In the **pool mode** it takes a readable handler out of
  the reactor and queues it; a pool thread runs `process()` on it and puts it
  back. In the **thread mode** every handler has a thread of its own that runs
  `process()` in a loop; the reactor keeps only its timer.
* A handler calls its manager directly. A manager talks to the database through
  single statements and stored procedures; nothing larger than one statement of
  a procedure, with its triggers, is atomic.
* Sessions meet in the database only. A session keeps a copy of the mailbox it
  has selected and refreshes it in SELECT, EXAMINE, FETCH, NOOP and EXPUNGE.
* The Windows service owns a protocol thread, which owns the reactor and the
  acceptor; the connections have detached threads that use both, and the data
  of the service.

What is hard in it: the ownership of a handler that moves between the reactor,
the queue and the threads while a timer may free it; the end of the pool and of
the service while their threads start or work; requests that arrive in pieces;
state that a session keeps between commands and that several commands rebuild,
forget or leave notes in; a copy of a mailbox that is taken in three statements
while others write; tests of the folder tree that are acted on later; deletion
and renaming in two steps; flags written back over those of others. The complete
list, line by line, is in `PROJECT.json` under `hazards`.

What makes each part correct:

* pool: FIFO, no handler lost or served by two threads, an orderly end;
* handler: in one place at a time, freed once, not used after that, always
  reachable while alive;
* request lines: the command performed is the one that was sent;
* session: client and server mean the same mailbox, in the same mode, with the
  same numbering;
* mailbox: counts, list and UIDs are consistent, numbers stay with their
  messages, only what is flagged is removed;
* folders: an inbox exists, every folder is listed under a name that opens it,
  no answer depends on the stack, subscriptions are not inherited;
* message sets and search: exactly the messages asked for, once, in order, and
  no more memory than what the client's left ends ask for;
* fetch: each item is answered with what it asks for, and what is shown is
  stored;
* database commands: what succeeded is stored, and what failed is not, then or
  later, as far as the tables have transactions;
* service: a stop ends it, and nothing is used after its owner has gone;
* timer services and list: the limit ends the loop, the list holds what it was
  given.

## 2. The modules

| module | models | proofs |
|---|---|---|
| `WorkQueue` | the abstract promise of a worker pool | |
| `ThreadPool` | `pool`, implements `WorkQueue` | `ThreadPoolProofs` |
| `ConnectionPool` (extends `ThreadPool`) | handlers, acceptor and reactor in the pool mode; implements the environment `ThreadPool` expects | `ConnectionPoolProofs` |
| `ConnectionThread` | handlers with a thread per connection | `PartsProofs` |
| `RequestLine` | from packets to commands | `SequenceProofs` |
| `OemoSession` | the session protocol of the Windows server | |
| `ImapSession` | command handlers and the session state of the manager; implements `OemoSession` | `ImapSessionProofs` |
| `MailStore` | one mailbox in the database and the copies of the sessions | `MailboxProofs` |
| `MailFolders` | the folders of a user, their subscriptions, and the commands about them | `MailFoldersProofs` |
| `FetchMessage` | the items of FETCH and the flags it changes | `MailboxProofs` |
| `MessageManip` | the functions on vectors of message numbers that the next two share | `SequenceProofs` |
| `MessageSet` (extends `MessageManip`) | message sets of FETCH, STORE and COPY | `SequenceProofs` |
| `SearchCriteria` (extends `MessageManip`) | SEARCH of the Windows server | `SequenceProofs` |
| `DbCommands` | `OemoDbManip` | `PartsProofs` |
| `MessageService` | start and stop of the Windows service | `PartsProofs` |
| `TimerService` | `Timer_Service_1` and the main that loads it | `PartsProofs` |
| `SingleLink` | `chromatic_single_link` | `SequenceProofs` |

`SequenceLemmas` has the facts about sequences, induction and recursion that
`SequenceProofs` and `MailboxProofs` share.

`MC*.tla` and `MC*.cfg` are the instances TLC checks. Definitions marked as
mutated forms are plausible slips, used by no specification, that show that
each property can fail. `PROJECT.json` maps every definition to its lines.

### ThreadPool

`msg_queue` is the queue of the ACE task (`Null` is the null block of `stop()`),
`thread[w]` the place of a thread in `svc()`, `active_threads` the atomic
counter, `owner` and `counter` the place and the local variable of `stop()`.
`stop()` takes three kinds of steps: it reads the counter once, posts its blocks
one by one, and polls the counter. A thread that was created but has not
reached its counter guard is in `"svc"`; `raced` remembers that `stop()` read
the counter while there was one. In that case `stop()` may return too early, or
never - a thread that was not counted may take the null block of another - and
the properties about the end of the pool say so. `ServesInOrder` is the
refinement: the queue without its null blocks and the jobs of the threads
implement `WorkQueue`.

### ConnectionPool

A handler is described by the places that refer to it: `registered`, `timer`,
the queue, `job`. `frees` counts the runs of `delete this`; a use of a handler
after the first is undefined behaviour and is modelled by `Touch`: the process
aborts or goes on, and the handler is in `touched`. `idle` stands for
`now - m_lastActivityTime >= m_maximumTimeToWait`; the times themselves are not
modelled. A handler in the constant `Slow` may become idle while the pool has
it; one outside it is served within the maximum inactivity.
`TimeoutRegistered` is the path on which `handle_timeout()` destroys the handler
twice: `remove_handler()` calls back `handle_close()`, which destroys it, and
`destroy()` is called again.

### ConnectionThread

The thread of a handler is at one `place` of `svc()` and `process()`. `due`
holds the handlers whose timer has reached `m_maximumTimeToWait` since `open()`,
active or not, because nothing updates `m_lastActivityTime` in this mode.
`managers` counts how often `close()` has deleted the manager.

### RequestLine

A byte is its character and the request it was sent in. `recv()` returns any
part of what has been sent; `process()` puts it at the start of the buffer,
appends the buffer up to its first NUL to the stream, and clears the first
`Cleared` (four) bytes: `sizeof( rdbuf_len )` is the size of a number. At a line
feed, or beyond `constCommandBufferLength`, everything collected goes to
`perform()`, which parses the first line. `disturbed` is the history of the
request: a packet shorter than what the buffer still holds, a pause longer than
`recv()` waits, a second request that came early, a text too long.

### OemoSession and ImapSession

A request is one step: `process()` runs for one thread at a time, which is
`OnePlace` of `ConnectionPool`. Replies are reduced to their status. What a
query finds is chosen freely, because the database is shared, and every query
may fail; both queries of a refresh catch their exceptions, and `Query` leaves
behind what they do. `shown` and `mode` are what the client was told;
`refreshed`, `statused`, `failed` and `closes` are history that the properties
need in order to say when the code keeps its promises.

`OemoSession` is translated from the Windows server alone, manager by manager
function and handler by handler, with the same variables less the history. That
`ImapSession` implements it (`KeepsProtocol`) says that the port did not change
which states and answers a client can meet. `command` is `m_currentCommand`,
which each handler sets to its own name and a packet error to `oecError`, so the
two are compared command by command: an answer the old STORE could not have
given is not excused by an old COPY that could.

### MailStore

A message is its `idx`. `rows`, `archived`, `offsets`, `flagRows`, `flagged` are
the three tables, changed by statements with their triggers. A session takes
its copy in three steps: list, count, maximum. `view` is the message a client
means by a number, `hidden` what it was told is expunged. `shrunk` and
`disordered` are the history of what other programs did. `UpdateFlags` sets the
stored flag of a message or clears it, as `update_message_flags` does for them
(`sql` 1324); `withdrawn` holds, for each session, the messages whose flag was
taken back since it filled its list. The url under which a flag is stored and
the one the manager keeps are different values, as in `mgr` 474-491.

### MailFolders

A name is a sequence of components; a name in the table begins with the user.
A command is two steps, the test (`Ask`) and the statement, and RENAME three:
`rename_subscribe_folders` moves the children and then the folder. `doing[s]` is
the command a session has passed the test of, or the answer to its last one. A
statement may fail, and the unique key of the table refuses a second folder of
one name. `FolderExists` gives all the outcomes `folder_exists()` can have:
`subscribe_folder_exists` selects no row for an orphan, a name whose parent - the
name up to the first component equal to the last - begins no row, and then
`dwExists`, which nothing initialises, decides. Details that surprise and are
modelled as they are: the new name of RENAME is stored as the client wrote it,
without the user; a child is any name with the old one anywhere in it and a
component behind it (`LikeBelow`), and ends up directly below the new one; LIST
cuts off everything before the first "/USER/" in a name and that too, but shows
the root in full (`Shown`), so that what it shows of the root opens nothing;
UNSUBSCRIBE
calls `delete_subscription` with two arguments for three and always fails;
DELETE of "" deletes the root row while "/USER/" fails; a subscription to a
folder that has gone in between is stored with key 0.

### FetchMessage

An item is a keyword and what stands in brackets after it. `Written` is what a
client sends for a list of items and `ParseFetchRequestList` what the manager
reads, in turns of a loop that are `ReadToken`; a turn of `fetch_message()`'s
loop is `FetchItem`, the answer and the flags of a message `FetchResponse`. The
two servers have the same code but for two constants, chosen in `FetchInit`: the
port leaves the map of keywords empty, so that its FETCH knows no item at all,
and compares with `"rfc822.text.text"`. `Elsewhere` is another session that
writes flags. Contents are reduced to which section they are; `Payloads` keeps
what the code keeps from item to item.

### MessageSet and SearchCriteria

`MessageManip` has what both do with vectors, for whatever is in them:
`process_atoms()`, `std::sort` by the rank of a number, `std::unique` without
`erase`, which leaves old numbers behind the distinct ones, and
`std::set_intersection` turn by turn. `MessageSet` takes one step per token of
the request, then one per pass over the vectors. A value that is no number is 0,
as `atoi()` has it, and numbers have signs: only the right end of a range is
clipped. `dwMax` is the largest UID that `max_uid()` has; with an empty list it
is whatever another mailbox left there (`mgr` 441, 471), and before the first
list anything. `SearchCriteria` reads words into criteria as
`DeconstructCriteria()` does, takes the UIDs of the external search engine as a
free choice, converts and intersects. An exception of the engine ends in
`"failed"` where it is thrown again, and in `"swallowed"` where it is logged
only (`OemoImapSearch` 538-551): the client is answered OK. It shows what the code does with
combinations: a second message set replaces the first, ALL discards a message
set, a keyword after ALL is searched as text, and parentheses resolve nothing.

### DbCommands

One step per part of `Execute()`: connection, parameters, statement, commit, and
the handler of each exception. The body of `Execute()` is built for Windows only,
and no other file of the repository instantiates the class, so what it is used
on is taken from `sql`: updates of InnoDB tables, statements on the eight MyISAM
tables, which no rollback reaches, and procedures, which end with a COMMIT of
their own. What a statement does is two effects, so that it can be done by half;
`pending` is what the transaction holds, `stored` what is in the tables for good,
`acknowledged` the effects of the calls that returned, `unsure` those committed
without an answer. A failed binding with a connection of its own ends in
`"crashed"`: the rollback goes through a null pointer. A parameter that is no
number leaves `Execute()` without a rollback (`BadCast`). After a
`ReInitialize()` the connection commits by itself, as one that it was given may,
and a connection that breaks is never opened again.

### MessageService

`svc` is the place of the service thread, `control` that of the control handler,
`protocol` that of the protocol thread. The data of the service is on the stack
of `svc()` and the reactor on that of the protocol thread; `misused` records who
used either after its owner had returned. In debug mode Ctrl+C can come before
`svc()` has begun; `stop_ = 0` then overwrites it.

### TimerService and SingleLink

A directive of the configuration is a call of `init()`; a second one for the same
service resets its count and schedules a second timer. A limit that no directive
gives is `Garbage`. `SingleLink` keeps the pointers as a function, and `Walk` is
the sequence of nodes its loops visit. `kept` is history and looks at no pointer:
what `append()` was given, without the first of the data that `remove()` was
given. `remove()` on a list of one node empties it whatever its data; `lost`
remembers that it held something else. `remove()` of the head, or of absent data,
of a longer list sets `broken`: what follows is undefined and nothing is said
about it.

## 3. The runs

| run | instance | shows | distinct states |
|---|---|---|---|
| `pool` | 2 threads, 3 handlers | FIFO refinement, `stop()` returns and leaves nothing, queued handlers are served | 2 207 |
| `connections` | 2 threads, 2 connections, one of them slow | one place, no stranded handler, misuse only behind the timer, the pool is used as it expects, requests are read | 136 005 |
| `connection_timeout` | same | **violation** of `DestroyedOnce` | |
| `threads` | 2 connections | misuse only behind the timer, manager deleted once, hung-up clients released | 14 057 |
| `session` | 2 mailboxes, literals of 2 packets | agreement on selection, mailbox, mode, numbering; the protocol of the Windows server | 30 741 |
| `session_append` | same | **violation** of `AppendCompletes` | |
| `store` | 1 session, 2 messages | agreement of the queries, counts, numbering, careful EXPUNGE, polling | 161 692 |
| `folders` | 2 sessions, 4 keys, 3 paths, 2 new names | the inbox, what RENAME hides, orphans, subscriptions | 1 527 040 |
| `fetch` | 2 messages, 220 requests, both servers | parsing, own answers, stored flags | 1 478 744 |
| `service` | 2 connections | a stop is honoured, data outlives the protocol thread | 1 734 |
| `parts` | see below | commands as sent and no bytes of others, message sets, search, database commands, list, timer services | 1 418 492 |
| `db_failure` | 3 statements of each kind | **violation** of `FailureIsUndone` | |

Deadlock is not checked: every part may come to rest (the server is stopped,
the session is over, the process was aborted, the request is resolved).

Bounds. Two threads and two connections are enough for two threads to meet on
one handler and for one connection to be disturbed by another; a third handler
in `pool` lets the order of the queue show. Two mailboxes let a session name
one that is not selected. Two messages let them be archived in the wrong order,
let one be flagged and another not, and let a file be missing before or behind
one that is there; sessions meet in the files only, and `ExpungeIsCareful`
proves what matters there for any number of sessions. A literal of two packets
has a first, a last and nothing after. In `folders` a user has the root and an
inbox and can have a folder below it and one more: enough for a child, an
orphan, a reused name and a rename onto an existing one. `fetch` has every item
whose branch differs, each behind each other, and longer lists for the ones
whose order matters. In `parts` one part runs in a behaviour: two of seven
requests, of which one may be shorter than four bytes less than the one before,
longer than the command buffer, or have too long a token; numbers up to 4 with 3 messages give
tokens inside, across and beyond the mailbox, and -1 (`MinNumber`) one with a
left end below it; three words of criteria; three statements of the four kinds,
of which one may fail, break the connection, and be followed by another; three
nodes with two values, of which a caller means at most four to be there
(`MaxKept`: more than the nodes, because `remove()` may lose some); two services,
three directives, limits 0 to 2.

Fairness. `PoolFairness` and `ConnFairness`: the system runs every thread, the
reactor serves every handle that is ready, and `process()` returns because its
`recv()` waits at most 50 seconds (`handler` 276). Starting the pool, clients and
timers of the pool mode are not fair. `ThreadFairness` adds that time passes and
that the reactor serves timers that are due. In `ImapSession` only the client's
packets of a literal are fair. In `MailStore` a statement that was begun is
answered, and NOOP is strongly fair: a client that polls goes on polling. The
writers are not fair. `ServiceFairness`: the threads of the service and of the
control handler are scheduled, and the protocol thread's `handle_events()`
returns after a second; clients need do nothing. The other modules state safety
only.

## 4. Where the code does not do what it says

Three runs end with a counterexample to what the repository says of itself.

* `connection_timeout` - `handler` 230-232: an idle connection that is
  registered is deleted twice.
* `session_append` - `handler` 314: no literal ever ends; after an APPEND the
  session takes no command.
* `db_failure` - `OemoDbInterfaceImpl.h` 978: "on error rollback changes". After a
  failed call the changes of a MyISAM table stay, and so do those of a procedure
  that ran to its COMMIT before the connection broke.

The properties that pass are stated around further behaviour of this kind, and
name it: `TouchedOnlyAfterTimeout` and `MisusedOnlyAfterTimeout` say that the
idle timer is the only way to misuse a handler, `ReadOnlyUntilRefresh` that a
refresh is the only way to lose the mode, `MailboxAgreed` that a failed query or
the note of a CLOSE (`mgr` 2848, 2893) is the only way to lose the mailbox,
`NumbersOfMailbox` that a STATUS or a failed query is the only way to lose the
numbering, `PerformedAsSent` which packets and pauses change a command,
`GhostsAreOrphans` for which names the stack decides, `OnlyRenameHides` how a
folder leaves LIST, `FilesOfFlagged` that a flag taken back behind the session's
copy is the only way to lose the file of an unflagged message,
`SearchIsIntersection` that a swallowed exception empties the answer, and
`ListHolds` that `remove()` on a list of one node is the only way to lose data
that nobody removed. Such a property does not exclude the hazard it names: it
shows that it is the only way for things to go wrong there. The notes of the
hazards in `PROJECT.json` say for each what is left out.

Also visible in the models:

* with a thread per connection the timer measures the age of the connection and
  ends it while it is in use (`handler` 222);
* EXPUNGE gives the name of the mailbox where message numbers are expected
  (`mgr` 2861): files go, rows stay;
* STORE is answered OK and stores nothing (`mgr` 2798, 3153):
  `StoreStoresNothing` proves it for every state;
* "select always succeeds for inbox" (`mgr` 1903-1930) is not so: the name is
  compared while it is still empty;
* FETCH of the port answers nothing, because its map of keywords is empty; in
  both servers FLAGS marks a message as seen and BODY[] does not, the header of
  a part is answered with the payload before it, its header fields with those of
  the message, and the flags that are written replace what others wrote since;
* a Ctrl+C before `stop_ = 0` (`OemoImapMessageServer.cpp` 161) is lost;
* the threads of the connections of the Windows server are detached, so that
  neither `cancel_all()` nor `wait()` ends them, and use the reactor and the data
  after their end;
* LIST shows the root as "/USER/", a name that opens nothing (`mgr` 368-371);
* `FETCH -2000000000:3 FLAGS` expands to as many numbers as that (`manip` 108,
  `mgr` 2666 does not test the set), and `UID FETCH 1:*` in an empty mailbox to
  the largest UID of the one before it;
* `stop()` of the pool races with a thread that starts (`raced`), and a
  connection closed by its peer is read for ever in the pool mode (`Serve`).

## 5. What is proved

All proofs are checked by `tlapm` with Z3, Zenon and LS4. They hold for every
value of the constants under the assumptions of the modules:

* `PoolAssumption` (finitely many threads, `Null` is no handler),
  `ConnAssumption`, `SessionAssumption`, `TimerAssumption` (limits are integers);
* `FoldersAssumption`: the components of user, root and inbox are components, the
  defaults are different and include the inbox;
* `RequestAssumption`: a request is a line that ends with CR LF, has no other LF,
  and fits in the buffer of `recv()`;
* `FetchAssumption`: a client writes words, which are neither the space nor the
  brackets of the list of items, and spaces only inside brackets or between items;
* `SetAssumption` and `SearchAssumption`: the bounds of numbers are integers, those
  of lengths and UIDs natural numbers, and criteria are words;
* `LinkAssumption`: finitely many nodes, and `nullptr` is none of them.

`MailStore`, `ConnectionThread`, `DbCommands` and `MessageService` need none.
Every safety property of the passing runs is a theorem now. They were checked by TLC on
the instances of section 3 before they were proved; the type invariants are
theorems and not part of the runs any more.

* **ThreadPoolProofs.** `CountInv` (types and the counter as the cardinality of
  the threads with a guard) is inductive by itself and gives `PoolTyped` and
  `PoolCounts`. `QueueInv` adds that null blocks exist only once `stop()` has
  begun, which is why no handler can come behind one: `ShutdownIsLast`. `StopInv`
  counts: the null blocks in the queue are the active threads less the counter
  still to go. It gives `StopPostsEnough` and, when the counter is zero,
  `StopStops`. All three depend on `raced` being false, and on nothing else.
  `PoolImplementsQueue` is the refinement of `WorkQueue`: the initial states map to
  its initial states; a post of a handler appends to the queue without its null
  blocks, a thread that takes a handler takes the head of it, and whatever moves
  null blocks or counts threads is a stutter. Because `ConnUsesPool` is proved,
  it holds for the connections as well.
* **ConnectionPoolProofs.** `OneInPool` describes the positions of a handler in
  queue and threads; `ConnInv` joins it with registration, life and timer. The
  invariant must be joint: a handler is not queued twice because it is
  registered only while it is not pending, it is not freed while it is pending
  unless it is slow, and its timer runs exactly while it lives. From it:
  `ConnUsesPool` (the specification of the connections implements that of the
  pool, so that all theorems about `ThreadPool` carry over), `ConnTyped`,
  `ConnOnePlace`, `ConnTouched`, `ConnPoolLive`, `ConnNeverStranded`, `ConnTimer`.
* **PartsProofs, threads.** One invariant that ties, for each handler, its
  place to how often it and its manager were freed gives `ThreadTyped`,
  `MisuseNeedsTimeout`, `TimerIsAlive`, `SessionsCleanUp`.
* **ImapSessionProofs.** Types, then one strengthened invariant about mailbox,
  mode and numbering: `SelectionIsAgreed`, `MailboxIsAgreed`, `ReadOnlyHeld`,
  `NumbersAreOfMailbox`; `LiteralsAreData` is an action property.
  `SessionKeepsProtocol` is the refinement: it maps initial states to initial
  states and each command to the handler of `OemoSession` with the result that
  fits, or to a stutter; no invariant is needed, because a handler of the port
  tests the same states.
* **MailboxProofs, the mailbox.** `TablesAgree` is what the triggers keep:
  `QueriesCountTheSame`. With it, `CopiesHold` - what a session has copied as
  flagged is flagged still, or was taken back since its list was filled, as long
  as the row is there, because keys are not used again - gives
  `ExpungeIsCareful`. `StoreStoresNothing` is a fact of one step. `InfoIsEnough`
  (EXISTS and UIDNEXT cover the list) rests on `InfoInv`: without deletions each
  statement of a refresh - list, count, maximum - covers what the one before it
  has read, whatever is delivered in between. `NumbersStay` rests on `NumbersInv`:
  without deletions, and with messages archived in order, the archived keys are
  the first ones, and every list, and what its client was told of it, is their
  beginning (`InOrderOfFirst`).
* **MailboxProofs, FETCH.** `AnswersInv` speaks of the answers already given and
  of those of the message under way, `FlagsInv` of what has been shown of it:
  a flag that is shown is in `mflags`, and `mflags` in what will be written.
  `ItemKeeps` goes through the switch item by item. From them: `BodiesAreOwn` and
  `FlagsShownAreStored`. `ListsAreParsed` is about the loop over the tokens:
  `Reads` says that reading some tokens leads from one state of the loop to
  another; it composes (`ReadsBoth`), an item is read as it is written
  (`ReadsItem`), and induction over the items gives the whole list.
* **MailFoldersProofs.** `FoldersTyped` first. `NewFoldersAreUnsubscribed` follows
  from it: keys and subscriptions are below `next_idx`. `NamesChecked` says that a command under way has a whole
  name that it has passed a test for; with the lemmas about prefixes
  (`ParentBelow`: a row that begins with the true parent of a name begins with
  what the procedure takes for its parent) it
  gives `OnlyOrphansAreGhosts`. `InboxAlwaysStays` needs it too, and that no
  RENAME of another folder reaches the inbox as a child (`InboxNoChild`).
  `RenameAloneHides` rests on `NamesGiven`: every row is below the user, or RENAME
  gave it, or the folder it was flattened into, a new name that is not; and on
  what LIST cuts off such a row being what CREATE and SELECT put before a name.
* **PartsProofs, the others.** `DbInv` says of `pending` that it is empty between
  calls, of a statement under way that it holds nothing else, and of what is
  stored that it has been answered for; it gives `StatementsAreWhole`; `TimerInv` says that a service with a positive limit
  and a timer counts below it, that directives only come before the loop, and that
  one without a timer has ended the loop or failed: `ServicesMeetLimits`.
  `DataOutlivesProtocol` is the order of the two ends of the service: while the
  protocol thread runs and the data is freed, the wait has timed out.
* **SequenceLemmas.** The loops over texts, vectors and lists need induction, and
  the induction theorems of the library cannot be instantiated. `NatsAreAll` is
  induction for a set instead of a predicate: the least number outside the set,
  which well-foundedness gives, cannot exist. `Recursion` shows with it that a
  function defined by recursion up to a number exists, so that the recursive
  functions of the modules are what their definitions say.
* **SequenceProofs, request lines.** `LinesAreParsed` computes what
  `parse_command()` finds in a line, cut by cut. `RequestInv` has two parts
  besides: `Own` - without pipelining, every byte under way, collected or left in
  the buffer is of the last request - and `Whole` - while nothing has happened to a
  request, what is collected and what is not yet are together the request.
  `TextsStayOwn` and `CommandsArePerformedAsSent` follow.
* **SequenceProofs, message sets and search.** `ChosenFacts`, `SortedFacts`,
  `UniqueFacts`, `SetIntersectionFacts` say what the vectors hold after each pass
  of the library's algorithms. The important one is about `std::unique`: the
  numbers it leaves behind the distinct ones are not above the last of those, so
  that `set_intersection`, which stops there or finds nothing more, is right about
  the whole although its input is not sorted (`ClimbsTo`). `SetInv`, stage by
  stage, gives `RequestsAreResolved`; `TokensAreBounded` needs the clipping of
  `Atoms` only, and `HighFacts` and `MaxFacts` that a right end beyond the last
  message adds none. `SearchInv` does the same for the criteria, with UIDs and numbers
  converted in order, and gives `SearchesAreIntersections`.
* **SequenceProofs, the list.** `LinkInv` ties the pointers to the sequence of the
  nodes: each points to the next, the last to `nullptr`, no node is twice in it;
  and that sequence to `kept`, of which it is a part in order, all of it while
  nothing was lost: `ListHoldsWhatItWasGiven`.

Only model-checked: the liveness properties (`StopReturns`, `QueuedIsServed`,
`RequestIsRead`, `HungUpIsReleased`, `PollingFindsIt`, `StopIsHonoured`): they need
fairness and ENABLED, which are out of the prover's reach. And the three
counterexamples of section 4.

## 6. What is outside the models and assumed

ACE (a reactor calls a handler only while it is registered, `remove_handler`
calls `handle_close` unless told not to, a destructor of a service handler
cancels its timers, a message queue is FIFO, `wait()` of a thread manager leaves
detached threads alone), MySQL (each statement of `mgr` is a call of a procedure
or a single one: with its triggers it is atomic for the others and stored when it
returns, keys that were given are not given again; a server that restarts may
reuse the last key of an InnoDB table, which is left out), the search engine, clients, and the programs that deliver
and archive.

Abstracted: names, payloads and wording; the times; character sets and case;
the layout of responses.

## 7. Plan

1. *(done)* the pool and the handlers in both modes; the session; one mailbox;
   message sets.
2. *(done)* the folders; the request lines; the items of FETCH; the protocol of
   the Windows server and the refinement between the two; search, database
   commands, service; timer services and linked list; the proofs of their main
   invariants.
3. *(done)* the proofs of the other safety properties: the refinement of the
   work queue, the numbering of the mailbox, what RENAME hides, FETCH, the request
   lines, message sets, search, and the linked list.
4. *Open*: the lifetime of the manager and its database connection in the pool
   mode; COPY in `MailStore`; the other flags of STORE; a composition of
   `ImapSession` with `MailStore`, with the refinement proved.

## 8. Not modelled

* The contents of FETCH: body structures, envelopes, the XML of a message.
* The search engine and the text of its queries. The manager of the port has the
  call of SEARCH commented out, so nothing of it reaches the criteria there.
* In the Windows server: COM glue, resources, installation as a service, and what
  repeats `chromatic_imap` line by line.
* `insert_into_archivehash` (`sql` 1116), which names a column the table does not
  have and inserts nothing.
* `chromatic_double_link`, which stores nothing yet, and the daemon of
  `chromatic_imap_svc_configurator`, which only opens an acceptor.
* DDS (generated code), Xapian facade and XML database (mains that print or
  connect), file system demonstration, string helpers, `tlpi` (system calls),
  `include`, and build output.
