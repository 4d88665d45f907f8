# The CPT chat program in TLA+

A verification development for the chat program of this repository: a server
that keeps clients in numbered channels and relays their messages, and the
terminal client that talks to it over TCP with the "CPT" packets of COMP4981.
Paths are given from the root of the workspace, `src/` being the repository:
`src/src/main.c` is the repository's `src/main.c`.

## 1. The system

| Part | Source | State | Operations |
|---|---|---|---|
| chat server (target `main`) | `src/src/main.c` | list of accepted connections `client_temp`, list of registrations `client`, counter `channelId` | accept, select, serve one packet of each readable connection: SEND, LOGOUT, GET_USERS, CREATE_CHANNEL, JOIN_CHANNEL, LEAVE_CHANNEL, LOGIN |
| registrations | `struct Client` in `main.c` | a linked list of (descriptor, channel, name), newest first | `push`, `delete_client`, searches, `get_uesrs_list` |
| chat client | `src/src/client.c` | `is_logged_in`, `current_channel`, `previous_channel` | a line of the keyboard, a response of the server, exit |
| serialization | `src/src/serialization.c` | none | `pack`, `unpack` |
| connections | the kernel | socket buffers, listen queue, the state of the other end | `connect`, `accept`, `select`, `read`, `send` |
| older server (target `server`) | `src/src/server.c` | the registrations, `client_fd`, `max_fd`; no list of connections | the same handlers, called with `client_fd`; a create adds its sender only |
| first prototype | `src/server.c`, `src/client.c` | `client_socket[30]`, `private_sockets[2]`, a thread per join | a line is echoed to everyone; `join` moves a client to a private pair, `leave` brings it back |
| rest | `common.c`, `tests/`, `docs/`, `cmake-build-debug/` | none | template code, a test driver without tests, generated files |

**How they interact.** A client process connects, receives a greeting, and
then loops around `select()`: it decodes one response of what a `read()`
returned and handles one line typed by its user. The server is one
single-threaded loop: a `select()` with zero timeout and at most one `accept()`,
a second `select()` over all accepted connections, then a pass over
`client_temp` in which every connection reported readable is read once, and the
first packet of what was read is decoded and handled. A handler changes the
list and sends one reply to the requester, or, for SEND, the message to every
other node of the channel. Server and clients share nothing but the packets on
the connections.

**What is hard here.**

* Who is in the chat is known twice: by the nodes in the server's list and by
  the client's `is_logged_in`. The two change at different times, by packets
  that cross each other and that may be lost without a trace: neither side looks
  at what `send()` returns on its non-blocking socket, and each decodes one
  packet of a `read()` that may hold several.
* A message to a channel is relayed to clients whose own logins and logouts are
  under way.
* A client process may end at any time. The server never closes a connection or
  removes the registrations of a client that is gone; its sends to it succeed
  once or more, then raise SIGPIPE, for which there is no handler.
* The result of one `select()` is used during a whole pass; a busy or a dead
  connection is readable in every pass.
* Handlers accept commands in any state: before login, after the last channel
  was left, with repeated or unknown descriptors, with numbers nobody created.
* Packets are bytes: `unpack()` stores four bytes into two-byte fields, lengths
  are added in 8 bits, blocks are allocated by those lengths, and a `read()` ends
  where it likes.
* The older server watches one connection, and its handlers are told another
  variable than the one the packet was read from.
* In the prototype, `main()` and a thread per join read and write the same two
  arrays without a lock, on blocking sockets. The private array has two places, and
  the third join of the program's life writes behind it.

**What makes each part correct.**

* *Server and clients together*: a registered client knows that it is logged in
  or is about to (`LoginAgreement`, `LoginIsLearned`); no one is handed a
  message while logged out (`ChatOnlyWhileLoggedIn`); replies that wait to be
  sent agree with the list (`OutboxMatchesList`).
* *Server*: its list behaves like a relation between clients and channels; the
  requests of a client are served in the order in which it asked them, each by the
  membership of that moment; whoever is listed in a create and is present is
  added; a message goes exactly to those in its channel (`KeepsRooms`). Where the
  comments promise more than that, the promise is stated by itself and refuted:
  `LoginIsCheckedFirst`, `JoinAddsOwnName`, `LeaveTellsFailure`, `CreatesNew`, and
  for the older server `ListedAreAdded`. No connection is
  left out (`EveryConnectionAccepted`, `EveryPacketReported`,
  `EveryVisitHappens`); nothing is read that select did not report
  (`FlaggedStillReadable`).
* *Registrations*: filters and pushes return what they are meant to (the lemmas of
  `ClientListProofs`).
* *Serialization*: a packet read as a whole is decoded as it was packed, its
  fields cut to their widths, whatever else is in the buffer (`RequestDecoded`,
  `ReplyDecoded`, `FieldCorrect`); which texts fit the block allocated for them
  (`RelayFits`); lists of single digits are understood (`CreateListDecoded`), those
  with longer numbers are not, against the comments (`ListsUnderstood`).
* *Older server*: the client served is the one acted on (`CallerIsNewest`), the
  newest is heard (`NewestIsHeard`), and what becomes of the others
  (`OnlyNewestHeard`).
* *Prototype*: no client vanishes from both arrays (`NothingElseVanishes`), what is
  said in private stays there (`PrivateStaysPrivate`), `main()` asks for a line or a
  connection only when there is one (`MainReadsAtOnce`), who leaves comes back
  (`LeaveReturns`). Each of them has a limit, which is part of its statement.

## 2. The modules

```
Cpt ── Wire ────────┬── ChatServer ──┐
  ├─── ClientList ──┤                ├── ChatSystem ── ChatClaims ── MCChat
  │      └ RoomView │  ChatClient ───┤
  │                 │                ├── OldSystem ── OldClaims ── MCOld
  │                 └── OldServer ───┘
  └─── ChatRooms (INSTANCE of ChatSystem and OldSystem, through RoomView)

Serialization ── Packets ── PacketClaims ── MCPackets         PrivateChat

ClientListProofs ──┬── ChatSystemProofs ──┬── SessionProofs
ChatClientProofs ──┤                      └── RoomsProofs
                   └── OldSystemProofs
PacketsProofs (of Packets)                      PrivateChatProofs (of PrivateChat)
```

**`Cpt`** has the command codes, the packets and the width of a channel number
(`ChanMod`, 65536 in the program). A packet keeps what the programs act on. The
text of a message is not represented, and a name is identified with the
descriptor of the client that typed it, which is enough to see whose name a
node carries. `list` is what the server makes of the text of a create: the
values `message[i] - '0'` at even positions.

**`Wire`** is the kernel, external to the repository, as far as the calls of the
programs can observe it: a bounded queue of packets each way (`UpBuf`,
`DownBuf`), the state `peer` of the client's end, and the ways a read or a send
may go. A read takes any number of the packets waiting; the caller decodes the
first. A send to a full buffer is dropped. A process that ends leaves a FIN, or a RST
if replies were unread; a send after the FIN provokes a RST that arrives at
once or later (`fin` to `dead`), and a send after the RST raises SIGPIPE.
`lossy` is a history variable: the connections on which some reply was
discarded, by a full buffer, by a read of several packets or by the end of the
process.

**`ClientList`** is `struct Client`: a sequence whose first element is the head.
`Keep` is the traversal that the C code repeats in each function; the others are
named after the functions they stand for. `CreateNodes` pushes the creator and
then each listed descriptor found in the list *as it was on entry*, as the C code
searches from the old head.

**`ChatServer`** is the loop of `main()` in `main.c` and its handlers:

| Action | Code |
|---|---|
| `Connect` | external; descriptors are given out in order, as none is closed |
| `AcceptConnection`, `AcceptFails` | `main.c` 179-234; the greeting is not a packet and is part of the accept |
| `Select` | 237-254: `todo` is the part of `client_temp` that `fd_read_set` marks |
| `VisitNothing` | 260-264, `read()` returned 0 or -1 |
| `ServeSend` ... `ServeLogin` | 266-343 with the handlers of 420-618: one read, one decoded packet, the change of the list and the replies to send |
| `SendResponse` | 620-634, one `send()`; or SIGPIPE |

`pc` says where the loop is, or how the process ended: a null pointer (`segv`),
`sigpipe`, or `exit` after a failed `accept()`. A handler and its sends are split
because a relay is several sends, between which clients run, and any of which
may end the server. Nothing is served while `outbox` is not empty.

**`OldServer`** is the loop of `src/src/server.c`, with the same table of actions.
What differs: `AcceptConnection` remembers `client_fd` and `max_fd` instead of a
list; `Select` watches `max_fd` and, in the turn of its accept, `client_fd` (line
258); `Visit` goes through the flags in ascending order (270); the handlers take
`client_fd` and answer `temp` (309-354); `ServeCreate` pushes its sender alone,
because the length it is given is the packet's `msg_len`, which the client
leaves 0.

**`ChatClient`** is `src/src/client.c`, one instance behind each descriptor. Typing a
command is guarded as `process_client_input()` does, changes `ClientState` as it
does and sends; `Receive` is a read and `cpt_process_response()`; `Exit` is `&exit`
or the end of the process by a signal. `Commands`, `ChanArgs`, `UserLists`,
`Counted` and `MaxCounted` say what users type in an instance.

**`ChatSystem`** and **`OldSystem`** compose a server with the clients and state the
properties. Keyboards are followed until the server ends; packets on their way
can be read after that.

**`ChatRooms`** is the abstract specification: what each client has asked, a set of
(client, channel) pairs, the answers and relayed messages owed to clients, and
how each operation changes them. An operation takes the first request of a client
and acts on the channel and the list of that request; requests behind it may be
dropped (`Take`), but are never served out of order or twice. A create adds its
sender and *all* those listed that are present, if lists are heeded
(`HeedsLists`, true of `main.c` and false of the older server). `KeepsRooms` is the
refinement, for both servers. Where the code departs from its comments
`ChatRooms` follows the code, says so at its head, and a property of
`ChatClaims` or `OldClaims` states what the comment promises. **`RoomView`** has the
mapping: `members` is the set of pairs in the list (`Memberships`), `owed` what is
in the outbox (`Owed`): addressees and codes, for a message also its channel and
sender; `asked` is what lies in the buffers to the server.

**`Serialization`** is `pack()` and `unpack()` over sequences of bytes, for the three
directives that the programs use. The memory `unpack()` writes to is a function
from offsets to bytes, so that a four-byte store (`StoreInt`) reaches what lies
behind its field; each caller says where its fields are.

**`Packets`** sends requests and relayed messages through it: what `cpt_send()`,
`cpt_join_channel()` and `cpt_create_channel()` of `client.c` pack (`Type`), the server's read
into a zeroed buffer, the prefix, the addition in `msg_len` and the copies of
`main.c` 271-290 (`ServerRead` with `Relay`), and the other client's read into a
buffer that is not cleared (`ClientRead`). A list is typed only if its line fits the 20
bytes that `client.c` 285-287 copies it to (`FitsLine`): with `&create ` that is six
single digits, while seven overrun the copy. Streams do not keep packets apart: a
read ends anywhere within `Near` bytes of a boundary, and a side whose stream is
out of step with the packets is not followed further. `Junk` is what
uninitialised memory may hold: it is the text of a join, whose `malloc(1)` is
never written, and lies between the prefix and the text of a relay, where
`strncpy()` leaves no terminator.

**`PrivateChat`** is the prototype:

| Action | Code (`src/server.c`) |
|---|---|
| `Build`, `Select` | 94-126; a set with a closed descriptor leaves all its flags set |
| `Accept`, `Scan`, `Store` | 126-151: the search of a position and the store are steps of their own |
| `Pass`, `ReadEnd`, `ReadLine` | 156-177, one entry at a time; the `read()` waits |
| `Join`, `Clear` | 177-186: into the private array or behind it, out of the public one, reply, thread |
| `Echo` | 188-193, and with it the end of the pass, whose index it uses |
| `Start` ... `EchoPrivate` | `private_chat()`, 202-280, per thread, likewise |
| `Type`, `Interrupt` | `src/client.c` 23-41; its `exit` is compared with a cleared buffer |
| `Stall` | external: the client reads no more, and what was sent to it fills the buffers |

Each access of `client_socket[]` or `private_sockets[]` that another thread may come
between is a step, except for the loops over a whole array: those that build a set
(104-116, 213-226), the search for someone left in private (256-261) and those that
send one line to everyone are one step each. A `send()` to a client that reads no
more waits, and its step with it (`Send`): a stalled client can stop `main()` or a
thread for good. `lost` and `secret` are history variables: the sockets
that were overwritten or found no place, and the clients between a `join` that
was read and a `leave` that was.

`p` is never reset, so the third and the fourth join write `private_sockets[2]` and
`[3]`. Behind the array lie, as gcc lays `main()` out with and without optimisation,
bytes that the program uses no more: it goes on, with one thread more and a
client that no array holds (`lost`). A build that watches the array ends instead
(`pc = "overrun"`). Both are followed, for up to `MaxJoins` joins.

**`ChatClaims`**, **`OldClaims`** and **`PacketClaims`** state what comments of the
repository say and the code does not do; `StoresIntoEmpty` of `PrivateChat` is another
such. **`MCChat`**, **`MCOld`** and
**`MCPackets`** define the values of constants for the configurations.

In the modelling modules, operators whose comment begins with "Wrong" are not
part of the specification. Each is a plausible mistake in the definition that
follows it; PROJECT.json pairs it with the property that detects it.

## 3. What is checked

Deadlock is not an error in any run: a process may end (by SIGPIPE, a null pointer,
a failed accept, an overrun) and then everything stops, and in `packets` and `private`
the bounded users stop typing.

| Run | Module | Instance | Shows |
|---|---|---|---|
| `commands` | `MCChat` | 2 clients, all commands, channels 0 and 1, 4 commands in all, exits without bound; a create lists `5` or `5 5`; 2 packets in each buffer | `TypeOK`, `FlaggedStillReadable`, `OutboxMatchesList`, `LoginAgreement`, `ChatOnlyWhileLoggedIn`, `KeepsRooms` |
| `fair` | `MCChat` | 2 clients, login, leave, messages, exits without bound, under `FairSpec` | `EveryConnectionAccepted`, `EveryPacketReported`, `EveryVisitHappens`, `LoginIsLearned` |
| `old` | `MCOld` | 2 clients, all commands, 4 in all, a create may list the older client; 2 packets to the server, under `FairSpec` | `CallerIsNewest`, `OnlyNewestHeard`, `KeepsRooms`, `NewestIsHeard` |
| `packets` | `MCPackets` | 3 requests out of messages of 2, 234 and 239 bytes, joins of 258 and 65541, lists of one to seven descriptors of one and two digits; memory clean or not | `RequestDecoded`, `ReplyDecoded`, `RelayFits`, `CreateListDecoded` |
| `private` | `PrivateChat` | 3 clients, an array of 2, 3 lines or interrupts, up to three joins and threads, two of the clients may stop reading; under `FairSpec` | `TypeOK`, `NothingElseVanishes`, `MainReadsAtOnce`, `PrivateStaysPrivate`, `LeaveReturns` |

*Bounds.* Two packets are the fewest that can be read together: by a client and by the
server in `commands`, by the server in `old`. Two clients are enough for a relay to
have a receiver, for one to be busy or dead while the other waits, and for one to
depend on the other's registration. Four typed commands (`MaxCounted`) are two logins
and two of the other commands in any order, such as a message that crosses its
receiver's logout, or a session that ends and begins again.
The number of clients, commands and packets is unbounded in what is proved (section
4). `ChanMod = 2` makes `channelId` wrap onto the main channel after two creates.

In `packets`, 258 needs both bytes of a number and 65541 is cut to 5; with prefix and
terminator the messages take 19, 255 and 256 bytes, around the limit of 8 bits. Three
requests are a packet before and one behind the one that is read. Six descriptors of
one digit fill the client's copy of the line, seven are not typed. In `private` the array
is one shorter than the number of clients, so that it may be full, and can be emptied by
a join at any moment. Three lines are a join with text and `leave`, two joins and a
`leave`, or the three joins of which the last writes behind the private array; what
follows a third join is in the theorems of section 4 only.

Between them the runs take every action of every specification.

*What they say of the rooms.* `KeepsRooms` holds for the requests themselves: that one is
answered out of order, twice, on another client's behalf or with another channel
would break it, and so would a create that forgets somebody listed. What it does not
claim is that the code keeps its comments; the second table lists where it does not.

*What they say of the older server and the prototype.* `CallerIsNewest` and
`OnlyNewestHeard` are two sides of line 258: the confusion of `client_fd` with `temp` does no
harm only because older clients are not heard at all. `OnlyNewestHeard` says
of an older client that nothing it sends is read, that nothing the newer one asks for
ends a membership of it, and that it could gain one only by being listed for a new
channel; a leave carried out on everybody (the property's mutant) breaks it. That being
listed does add it is the comment that `old_list` refutes.

In `PrivateChat`, `lost` holds what the missing lock and
the fixed sizes may cost, and `NothingElseVanishes` that nothing else is lost: the order of the
writes in `join` and `leave` (into the new array first) is what makes it true.
`MainReadsAtOnce` needs that a single thread never takes a line that `main()` was told of;
with a second join another thread may take it, hence `p <= 1`. It is about `read()` and
`accept()`: in `send()`, `main()` waits for any client that does not read, and nothing
in the code bounds that. `PrivateStaysPrivate` holds for any two joins. After a third it
does not: its client is in no array, but there are three threads on two places, and two of them
may bring the same client back twice, so that it is still in `client_socket[]` after it
joins again; the model shows it with six lines. `LeaveReturns` exempts a client
that reads no more, as its thread waits in `send()`.

**Runs that refute a comment.** Each is a trace of the model; the
comment is quoted in PROJECT.json under "findings".

| Run | Comment | What the code does |
|---|---|---|
| `null_head` | a join checks that its sender has logged in (`main.c` 502) | the caller follows `client->name` first: with no registrations the server ends |
| `names` | a join adds the client's information (`client.c` 490) | it adds the name of whoever registered last |
| `lost_slot` | a socket is stored "if position is empty" (`src/server.c` 145, 245) | `main()` and a thread find the same position empty, and the second store overwrites the first |
| `leave_code` | a leave returns 10 if successful, 5 if not (`main.c` 108) | it is confirmed to a client that was not in the channel |
| `number_in_use` | a create makes a new channel (`client.c` 519), a join enters an existing one (490) | any number can be joined; the counter moves onto it and the new channel has a member nobody listed |
| `old_list` | the users in the message of a create are added (`src/src/server.c` 564) | the older server does not look at the message |
| `list_digits` | all the descriptors in the message are found (`main.c` 552) | one of two digits is read as its digits, or missed |

Two more comments do not say what the code does, and are in PROJECT.json as hazards: the
list can hold a pair twice (`main.c` 458 prints "unique" combinations; `&create 5 5`),
and a login does not persist until logout (`client.c` 611; leaving the last channel ends
it, on the server's side only). The runs above contain both.

**Fairness.** `FairSpec` of `ChatSystem` assumes weak fairness of the server's loop as a
whole and of each client's reading. Both are `while` loops around a `select()` that
returns when something is readable or after at most a second, on non-blocking
sockets, so a process that is scheduled goes on. `FairSpec` of `OldSystem` assumes the
server's loop only. `FairSpec` of `PrivateChat` assumes it of `main()` and of each thread: a step
that blocks (an empty `select()` or `read()`) is not enabled, everything else is ordinary
code of a scheduled thread. A `send()` to a client that reads no more is not enabled
either. No fairness is assumed of typing, connecting, exiting, stalling or of
`accept()` failing. The properties allow for the end of the server, and `LoginIsLearned` for a
discarded reply: both do happen.

## 4. What is proved

TLAPS proves, for all values of the constants that satisfy the named assumptions
(any finite or infinite set of descriptors, any width, buffers and commands):

| Theorem | Module | Statement |
|---|---|---|
| `TypeCorrect` | `ChatSystemProofs` | `Spec => []TypeOK` |
| `FlagsCorrect` | `ChatSystemProofs` | `Spec => []FlaggedStillReadable` |
| `OutboxCorrect` | `SessionProofs` | `Spec => []OutboxMatchesList` |
| `AgreementCorrect` | `SessionProofs` | `Spec => []LoginAgreement` |
| `ChatCorrect` | `SessionProofs` | `Spec => []ChatOnlyWhileLoggedIn` |
| `RoomsCorrect` | `RoomsProofs` | `Spec => KeepsRooms`: the server implements `ChatRooms` |
| `OldCallerCorrect` | `OldSystemProofs` | `Spec => []CallerIsNewest` |
| `OldHeardCorrect` | `OldSystemProofs` | `Spec => OnlyNewestHeard` |
| `OldRoomsCorrect` | `OldSystemProofs` | `Spec => KeepsRooms`: so does the older server, with lists not heeded |
| `RequestsCorrect` | `PacketsProofs` | `Spec => []RequestDecoded` |
| `RepliesCorrect` | `PacketsProofs` | `Spec => []ReplyDecoded` |
| `RelayCorrect` | `PacketsProofs` | `Spec => []RelayFits` |
| `ListsCorrect` | `PacketsProofs` | `Spec => []CreateListDecoded`: every list of single digits that the client's copy has room for |
| `PrivateTypeCorrect` | `PrivateChatProofs` | `Spec => []TypeOK`, also after joins behind the array |
| `ReadsAtOnceCorrect` | `PrivateChatProofs` | `Spec => []MainReadsAtOnce` |
| `NothingVanishesCorrect` | `PrivateChatProofs` | `Spec => []NothingElseVanishes` |
| `SecretCorrect` | `PrivateChatProofs` | `Spec => PrivateStaysPrivate` |
| `FieldCorrect` | `PacketsProofs` | a number packed, stored through the wide pointer and loaded again is cut to 16 bits, and only the two bytes behind its field may change |
| `KeepLemma` | `ClientListProofs` | a filter returns a sequence of exactly the elements that pass |

*Lists.* `Keep` is a recursive function, so that it can be reasoned about.
`KeepExists` shows, by induction over a set and without an operator parameter
(`SetInduction` rests on the least element of a set of naturals), that the
function its definition chooses exists; `KeepLemma` follows by the same
induction, and `KeepDistinct` that a filter of a list without repetitions has none.
`PushLemma`, `DeleteLemma`, `ListenersLemma`, `NameLemma`,
`CreateLemma` and `UsersLemma` are what the rest needs to know of the list.

*Types.* `TypeOK` is inductive; `TypeNext` has one lemma per group of actions. What
the steps of client and wire do is in `ChatClientProofs`, which both systems use.

*Flags.* `FlaggedStillReadable` is not inductive: a connection visited twice in one pass
would be read empty the first time. `FlagInv` adds that `backlog`, `client_temp` and
`todo` hold no descriptor twice, and that those waiting and those accepted are told
apart by `peer`, without which an accept could repeat one in `client_temp`.

*Sessions.* Neither `LoginAgreement` nor `ChatOnlyWhileLoggedIn` is inductive.
When a relayed message is put on a connection, that its receiver will read it
logged in follows from the receiver's node in the list, through the agreement;
and that the agreement survives the confirmation of a logout follows from the list
having no node of the receiver by then. What links a reply to the list is
`OutboxMatchesList`, which in turn holds because nothing is served between a
handler and its sends. The conjunction of the three and `TypeOK` is `SessionInv`.
`HandlerKeeps` reduces every handler to two facts, that its reply matches the
new list and that whoever it registers is owed a LOGIN; `SendKeeps` moves a
reply from the outbox to a queue, `ReceiveKeeps` from a queue to the client's
state. `LoggedInAfter` says what a prefix of the queue does to
`is_logged_in`; `ShiftedQueue` relates it for a queue and its tail.

*Rooms.* `ClientListProofs` says also what the list operations are as seen through `Memberships`
(`PushMemberships`: one pair more; `DeleteMemberships`: the pairs of a client, or one;
`CreateMemberships`: the creator and all those listed that are present), and what a relay and
a send are as seen through `Owed`. With them, each action of a server maps to one of
`ChatRooms` on the first request of the queue it reads, the other requests of the read
being those dropped (`LoginRefines` ... `SendResponseRefines`, one lemma per handler) and every step of the
clients and the kernel asks for something or leaves its variables alone. The only invariant needed is the type
invariant, for `main.c`; for the older server also that `temp` is `client_fd`.

*The older server.* `OldInv` says that `max_fd` is `client_fd`, that no other descriptor is ever
flagged, and why the newest has the highest number: descriptors are given out in
order, and the listen queue is in that order and above all those accepted.
`CallerIsNewest` follows at once; `OnlyNewestHeard` follows as no step reads from another
descriptor and no list operation on `client_fd` changes the pairs of another client.

*Packets.* No property of `Packets` is inductive: what a read decodes depends on the
whole stream before it. `IInv` adds `StreamInv`: while a side is in step, its stream is the
concatenation of the packets of the requests (or replies) in the history, in order
(`Carries`), which the reads of the other side may cut anywhere. TLC checked the types,
`StreamInv` and the four properties as invariants of the instance of `packets` before the
proof. The argument has three parts. The first is about streams: `OffsetLemma` and
`OffsetAppend`, `OffsetDrop`, `FramedAppend`, `FramedDrop` (where packets end, what an
append adds, what a read that ends with a packet leaves). The second is `unpack()` after
`pack()`: `UnpackRequestLemma` and `UnpackReplyLemma` follow the directives one by one
with the memory they write, of which `StoreLemma` (and `FieldCorrect`) says that a store
of four bytes spoils only what the next directive writes again. For the reply, what an
earlier message left in the uncleared buffer lies behind the packet and is not reached
(`GotReplyLemma`). The third is the arithmetic in 8 bits of `RelayFits` (`RoomLemma`), and
of `ListsCorrect` the places of the digits in the text of a list (`ListTextLemma`,
`ListedLemma`). The recursion in the
model (`Offset`, `unpack`) is by functions; that each exists is proved in `RecursionLemma`,
by the same induction over a set as for lists, and that of `FlattenSeq` in `FlattenLemma`.
`PacketsAssumption` asks that texts have no zero byte and that a relay fits the buffer of
1024 bytes (`BUFSIZE`) it is read into; that listed descriptors have at most two digits,
which is what the model's `Digits` writes. Of the lists nothing more is assumed: those
whose line the client has no room for are not typed (`FitsLine`), and the theorem says
nothing of them.

*Prototype.* The four properties need one invariant each, which the three others do
not follow from (`PrivateInductive` is their conjunction):

* `TypeInv`: `TypeOK`, and at which point of its program each thread and `main()` use an
  index, that it is within its array, and that places of `private_sockets[]` from `p` on
  have never been written. That `p` itself is within the array is not claimed: after a
  join behind it, `p` goes on as the number of threads does.
* `CoreInv`, for `MainReadsAtOnce`, is about the time with one private thread.
  The set of `select()` goes stale while the thread puts a socket back; nevertheless
  `main()` finds in it only sockets that still have something to read. The reason
  (`ComesBackBehind`): a socket that went away in this very pass left an empty position
  behind the one being visited, the thread takes the first empty position, so the socket comes
  back behind and is not visited again in the pass.
* `HeldInv`, for `NothingElseVanishes`: a socket stays known while it is moved, as who
  clears a place (`Clearing`, and `Vacating` for a thread) has stored it somewhere else
  before, or has it in `lost`: after the third join, `main()` clears the position of a
  client it stored behind the array.
* `SecretInv`, for `PrivateStaysPrivate`: until the third join, a client between `join` and
  `leave` is in no position of `client_socket[]` that `main()` could visit, in no thread's
  hands on the way back, and is not the one being read.

TLC checked these invariants on small instances before the proof. `SocksAssumption`
(0 is no client's descriptor) holds as 0 is the standard input; `BoundsAssumption` that the array has a
position; `JoinsAssumption` limits the joins followed to four, as far as what lies behind the array is known.

*Only model-checked.* Liveness (`EveryConnectionAccepted`, `EveryPacketReported`,
`EveryVisitHappens`, `LoginIsLearned`, `NewestIsHeard`, `LeaveReturns`: the prover does
not do `ENABLED`), and what the refuting runs show. Every invariant of a passing run, and
every action property and refinement, is a theorem.

## 5. What is not modelled

* In `ChatSystem`: the text of messages and names, and a packet split over two reads.
  No control depends on the former. `Packets` has both for the requests that carry
  text or numbers to a limit (SEND, CREATE_CHANNEL, JOIN_CHANNEL); the other
  commands use the same formats with an empty or unwritten text.
* What a side makes of a read that begins inside a packet: any bytes taken for a command.
* What writing past a block does: `RelayFits` says when a relayed text does, on
  memory that was clean; what earlier uses of it leave between prefix and text is
  relayed with the text (`Junk`), and no property says more of it. The
  lines of GET_USERS, whose block is shrunk to one line (`main.c` 479), are
  named as a hazard.
* A command line longer than the client's buffers of 20 bytes (`client.c` 27). The line of a
  create is copied there as a whole (285-287); `Packets` types only lines that fit. The
  other commands copy theirs likewise (270, 298, 316, 354); their arguments are a number
  or nothing.
* The directive `c` of `unpack()` and length prefixes in formats: no program uses them.
* The place of `res_code` among the client's locals is that of the build with the options
  of `src/src/CMakeLists.txt`; the mutant of `ReplyDecoded` is another place.
* Set-up failures before the loops, the menu, unknown commands and printing.
* A client killed while it waits in the listen queue: for the servers it is
  a client that ends just after it was accepted.
* More than 1024 connections (`FD_SETSIZE`), a full listen queue.
* The keyboards after a server of `src/src/` has ended.
* The name a client of the older server registers: the handler is given a length of 0 and
  takes it without one. A name is data there; no property of `OldSystem` is about it.
* In `PrivateChat`: a RST caused by an interrupted client's unread input (its end is a FIN),
  a line split over reads, and a change of the arrays, or a send that waits, in the middle
  of a loop over an array (`src/server.c` 104-116, 213-226, 256-261 and the two echoes,
  189-192 and 273-276): each is one step, which is taken when none of its sends would
  wait. The greeting (137) never waits, as nothing was sent to that client before.
* The byte in front of the buffer that 241 clears when `read()` fails: the failed read leaves the
  buffer as it was (`ReadPrivate`), the byte is not followed.
* A fifth join, and what a third one overwrites in a build whose `main()` keeps something
  of use behind `private_sockets[]`.
* Crash recovery: nothing is stored.
* `common.c`, `common.h`, `tests/main.c` and generated build files: nothing of the chat.

## 6. Plan

1. (done) `Cpt`, `Wire`, `ClientList`, `ChatServer`, `ChatClient`, `ChatSystem`;
   runs `commands`, `fair`.
2. (done) `ChatRooms` with requests and lists, and the refinement; `ChatClaims`.
3. (done) `ClientListProofs`, `ChatSystemProofs`, `SessionProofs`.
4. (done) `OldServer`, `OldSystem`, `OldClaims`; run `old`.
5. (done) `Serialization`, `Packets`, `PacketClaims`; run `packets`.
6. (done) `PrivateChat` with joins behind the array and sends that wait; runs `private`,
   `lost_slot`.
7. (done) Proofs of `FlaggedStillReadable`, of both refinements and of the older server.
8. (done) Proofs of every property of `PrivateChat` and `Packets` that is not liveness.
9. `PrivateChat`: the loops over whole arrays entry by entry.
10. `Packets`: GET_USERS, with the sizes of its blocks, and what the memory behind a
    relay's prefix holds.
