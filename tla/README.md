# A verification project for toxcore

TLA+ modules that model the core of toxcore and toxav, TLC configurations that
check them on small instances, and theorems that TLAPS checks for every value
of the constants. Every definition that stands for code is listed with its
source lines in `PROJECT.json` ("map"); definitions keep the names of the C
functions wherever there is one function to name.

    tlc -workers 2 -config CryptoTransport.cfg MCCryptoTransport    # a run
    tlapm Connections_proofs.tla                                    # a proof

## 1. The system

Tox is a peer-to-peer messenger. A friend is known by a public key; two friends
find each other's address through a DHT and an onion of announcing nodes, open
an encrypted connection over UDP or TCP relays, and exchange messages, files,
group messages and calls on it. The library is single threaded
(`tox_iterate` runs every timer and every handler), except for the audio/video
threads of toxav, which send on the same connections.

| Component | State | Operations | Who it talks to |
|---|---|---|---|
| `net_crypto.c`, packet rings | `send_array`, `recv_array`: rings of 32768 slots between two 32-bit packet numbers | add, read, clear, request packets | data handlers of the connection |
| `net_crypto.c`, handshake | per connection: status, session and peer session keys, nonces, `temp_packet` and its number of tries; the secret of the cookies | cookie request/response, handshake, first data packet, retries, time-outs | peers; `friend_connection` through callbacks |
| `net_crypto.c`, table | `crypto_connections`, `ip_port_list` | create, wipe, find by key or by address, one round of the main loop | `friend_connection`, `network`, `TCP_connection` |
| `net_crypto.c`, quota | `packets_left`, `packets_left_requested`, rates | write, resend, refill | `Messenger` (send queue full or not) |
| `net_crypto.c`, locks | `connections_mutex`, `connection_use_counter`, `tcp_mutex`, `conn->mutex` | every public call | toxav threads against the tox thread |
| `friend_connection.c` | per friend: status, DHT key, lock on the DHT, id of the crypto connection, ping times, reference count | new, lock, kill, DHT and onion callbacks, main loop | `onion_client`, `DHT`, `net_crypto` below; `Messenger`, `group` above |
| `toxav/msi.c`, `toxav/toxav.c` | per friend: an `MSICall` (state, capabilities of both sides) and a `ToxAVCall` | call, answer, call control; init, push, pop messages; friend offline | `Messenger` (lossless custom packets, friend status) |
| `Messenger.c`, `friend_requests.c` | friends, receipts, file transfers, requests that were shown, the save file | messages, files, typing, status, save, load | `friend_connection`, `net_crypto`, `onion_client` |
| `TCP_server.c`, `TCP_client.c`, `TCP_connection.c` | relay connections, slots of each, onion/oob packets; which relays serve which friend | handshake, routing requests, ping, sleep/wake | `net_crypto`, `onion_client` |
| `DHT.c`, `ping.c`, `ping_array.c`, `assoc.c` | close list, friend lists, open requests, cache of unused nodes | get/send nodes, hole punching, eviction | `network`; `friend_connection`, `onion` |
| `onion.c`, `onion_announce.c`, `onion_client.c` | secret of return paths, announce entries, paths and path nodes of each friend | three-hop routing, announce, search | `DHT`, `friend_connection` |
| `group.c` | closest peers, group connections, message numbers of peers | invite, join, message relay | `friend_connection` |
| `toxav/rtp.c` and media | RTP reassembly, jitter buffers, bit-rate control | send, receive, encode, decode | lossy packets of `Messenger` |
| `network.c`, `LAN_discovery.c`, `crypto_core.c`, `tox.c`, `toxdns`, `toxencryptsave`, `other/` | sockets, handlers, keys, API | I/O, primitives, wrappers | all |

What is hard here:

* **numbers that wrap around**: packet numbers are `uint32_t`, the nonce number
  in a packet has 16 bits, and every window test is an unsigned difference;
* **an unreliable network below a reliable service**: packets, requests and
  handshakes are lost, repeated, delayed past a restart of the peer;
* **crossing**: both friends open a connection, or place a call, at once;
* **callbacks**: a handler in one module kills or replaces an object another
  module further up the stack still refers to;
* **threads**: two mutexes, a spin loop on a counter and a moving array;
* **time-outs and retries** that race with late answers;
* **tables with holes**: ids that are reused, and loops over them.

PROJECT.json lists these as hazards, each at its line, with the property that
would catch it.

## 2. The modules

| Module | Models | Properties |
|---|---|---|
| **Connections** | | |
| `PacketsArray` | the ring: `add_data_to_buffer`, `get_data_pointer`, `add_data_end_of_buffer`, `read_data_beg_buffer`, `clear_buffer_until`, `clear_buffer`, `set_buffer_end`, and what request packets say of it | (used by the next one) |
| `CryptoTransport` | two ends with the same key: lossless and lossy data, request packets, kills, resending, failed sends | `EndsAreRight`, `RefinesChannel` |
| `ReliableChannel` | the abstract specification of the above: two ordered channels with truthful receipts | |
| `RequestCodec` | the bytes of a request packet, one action per round of the encoder's and the decoder's loop | `AgreesWithReference` |
| `CryptoNonce` | 16 bits of the nonce on the wire, `recv_nonce` in steps of `DATA_NUM_THRESHOLD` | `OldPacketsRejected`, `WindowAroundNewest` |
| `SendQuota` | the two counters of the congestion control | `QuotaOrdered` |
| `CryptoHandshake` | cookies, handshakes, confirmation, retries, restarts of a node | `SessionsAgree`, `HandshakesEnd` |
| `ConnectionTable` | ids and addresses of connections, and which of them the main loop reaches | `TableIsSound`, `HalfOpenEndsOrIsCutOff`, `GivesUp` |
| `ConnectionLocks` | the tox thread and the toxav threads around the array | `PointerStaysValid`, `SpinEnds` |
| `FriendConnection` | one friend connection over one crypto connection | `LayersAgree`, `CallbacksAlternate`, `WipedForLastHolder`, `SilenceIsNoticed`, `RemovedAfterSilence` |
| **Friends** | | |
| `MessengerFriend` | two users in each other's friend lists: ONLINE and OFFLINE packets, the announced name, messages and read receipts | `FriendsAgree` |
| `FileTransfer` | the file transfers of `Messenger.c` from one friend to another | `TransfersAgree`, `FinishedMeansDelivered` |
| `Savedata` | friend list, friend requests and the save file over restarts | `SavedIsRestored`, `RequestsAreShownOnce`, `StatusMessageIsRestored` |
| `AvCall` | MSI messages and the calls of toxav between two friends | `CallsAreBacked`, `PictureIsRight`, `CapabilitiesAgree`, `RingsUntilDisconnected` |
| `RtpSession` | frames of a call in parts, `handle_rtp_packet` | `FramesAreSound` |
| **Relays** | | |
| `TcpStream` | packets in a TCP stream over partial sends, with and without priority | `StreamStaysInOrder` |
| `TcpRelay` | `TCP_server.c` with the clients of `TCP_client.c` | `RelayAndClientsAgree` |
| `TcpConnections` | `TCP_connection.c` of one client with its relays | `RelayCountsAreExact` |
| `SortedList` | `list.c` | `FindsWhatWasAdded` |
| **Finding nodes and friends** | | |
| `Dht` | `DHT.c` and `ping.c` of one node | `SendsTheClosest`, `GoodNodesAreKept` |
| `DhtNat` | hole punching towards one friend | `HolePunchingIsSound` |
| `PingArray` | `ping_array.c` | `RefinesBook` |
| `RequestBook` | the abstract specification of the above: requests that are open, answered once or given up | |
| `Assoc` | `assoc.c` | `AssocIsSound` |
| `Onion` | `onion.c`: layers and return data over three nodes | (with the next one) |
| `OnionAnnounce` | extends `Onion` by the entries of `onion_announce.c` at the node where paths end | `AnswersFindTheirWay`, `EntriesAreEarned` |
| `OnionClient` | `onion_client.c` of one node | `AnswersAreOwn` |
| **Groups** | | |
| `GroupRing` | which peers are closest, and one packet that is passed on through a group | `WordGoesRound` |
| `GroupNumbers` | by which numbers copies are told from new messages | `CopiesAreDropped` |
| `GroupChat` | extends both: one member with its peers and connections | `ConnectionsAreHeld`, `ClosestAreSound` |
| **Instances and proofs** | | |
| `MC...` | instances for TLC. `MCWire`, `MCConnections`, `MCMessenger`, `MCOverlay` and `MCLookup` hold several machines that share no state; the variable `part` says which one a behaviour moves | |
| `CryptoTransport_proofs` | the data phase of a connection | |
| `Connections_proofs` | the table, its locks, friend connections, the sorted list, TCP streams, request packets | |
| `Contact_proofs` | handshakes, hole punching, friend requests | |
| `WrappingCounters_proofs` | nonces, send quota, numbers of group messages | |
| `Messenger_proofs` | friends and files | |
| `Av_proofs` | calls and their frames | |
| `Requests_proofs` | the ring of requests, the onion, the relay | |
| `TcpConnections_proofs` | the relays of a client | |

Several properties are conjunctions of named parts, each with its own comment:
`EndsAreRight` = `TypeOK`, `NothingFreedTooEarly`, `ReceiptsAreTruthful`, `RecvWindowFitsRing`;
`SessionsAgree` = `TypeOK`, `KeyConfirmed`, `DhtKeyMatchesSession`;
`HandshakesEnd` = `NoHalfOpenForever`, `OpenLeadsToEstablished`;
`TableIsSound` = `TableTypeOK`, `OneConnectionPerKey`, `AddressesLeadHome`, `TableIsBounded`;
`FriendsAgree` = `MessengerTypeOK`, `OnlineIsMutual`, `NamesAgree`, `ReadReceiptsAreTruthful`;
`TransfersAgree` = `DataIsRight`, `FinishedIsTruthful`, `PausesAgree`, `EveryFileIsServed` with the types;
`FramesAreSound` = `FullMessagesAreWhole`, `DecodesInOrder`;
`ClosestAreSound` = `ClosestAreNearest`, `ClosestFitArray`;
`AnswersAreOwn` = `ListsHoldOwnAnswers`, `OnlyOwnAnswersKeepAPath`;
`HolePunchingIsSound` = `PunchesAreAnswered`, `PortsAreTriedInTurn`;
`RelayAndClientsAgree` = `LinksAreMutual`, `ClientsAgreeWithRelay`;
`AssocIsSound` = `AssocKeepsTheBest`, `CloseEntriesAreGood`;
`RefinesBook` is the refinement of `RequestBook` with `RecentIsAnswerable`.
Definitions whose name ends in `_Variant`, or in an underscore and what they do
differently, are mutants: versions of the definition next to them with a
plausible error, with which a property no longer holds (PROJECT.json, "mutants").

### How state and actions correspond to the code

**CryptoTransport.** `send[e]` and `recv[e]` are the two `Packets_Array`s of
each end: a ring of slots, `start` and `end`, all modulo `Word` (2^32 in the
code). A data packet carries `recv_array.buffer_start` (the acknowledgement),
its number and its content. `handle_data_packet_helper` is one action with its
early returns in order: an acknowledgement that cannot be applied drops the
packet; a kill wipes the connection; the first good packet makes it established;
then the packet goes into the ring and everything at its beginning is delivered.
`send_crypto_packets` sends requests and resends; timers may fire at any moment,
and whether a packet is older than a round trip is a free choice, so every
behaviour of the real clock is included. The network is a set of at most
`MaxInFlight` packets; each can be lost, and arrive any number of times before.
Each packet's content is the count `k` of the packet written, so the history
variables `written`, `delivered`, `acked` state what the application sees.

**CryptoHandshake.** A session number stands for what a new connection draws at
random (key pair, nonce, cookie request number), an incarnation for what a node
draws at start (DHT key, cookie secret). `msgs` only grows: a packet arrives at
any later time, any number of times, or never. The handlers are
`handle_cookie_request` and the UDP/TCP variants as one, `handle_packet_cookie_response`,
`handle_packet_crypto_hs` in both its uses (known connection and new one,
including the replacement of a connection whose DHT key has changed), data
packets as far as they confirm the key, and kills. `kill_timedout` and
`send_crypto_packets` are the retries; a send that fails counts as no try.

**ConnectionTable.** `conns` is `crypto_connections` (ids from 1),
`ip_port_list` the list of addresses. `do_net_crypto(due)` is one round of
the main loop, with the set of connections whose timers are due; as in the code
its loops *stop* at the first unused entry. A try counts when its packet could be
given to the socket, which is the case once the connection has an address.

**ConnectionLocks.** One action per lock operation of a thread. `Route` says
from where the tox thread got the packet it handles, i.e. whether it holds
`tcp_mutex` when it changes the array. `moves` counts changes; `seen[t]` is the
count when thread `t` took its pointer.

**FriendConnection.** `fc` is the `Friend_Conn`, `crypto` the connection of
net_crypto to the same friend (half open or established; its handshake is
`CryptoHandshake`). Callbacks run inside the action that causes them, as in the
code: killing a crypto connection calls back and changes `fc` in the same step.
Times are ages, capped one above the largest value they are compared with.

**MessengerFriend.** `friend[u]` is the entry of the other user in `u`'s
`friendlist`; `SetStatus` is `set_friend_status` with everything it resets. The
crypto connection is an ordered queue in each direction that can go down on
either side at any moment, and deleting a friend takes it down unless a group
chat holds it too. `sent` and `got` are the packet numbers of the connection,
which start again with the next one; receipts refer to them. `lost` records that
an ONLINE or OFFLINE packet met a full queue, whose result the code ignores.
The name stands for name, status message, user status and typing.

**FileTransfer.** `ft` is `file_sending` of the sender and `file_receiving` of
the receiver. A packet names a number; the file it was sent about is a label
that no handler reads and only properties do. The application is free to accept,
pause, resume, seek and kill whenever `file_control` and `file_seek` let it, and
to answer a request for a chunk when it likes. `crossed` records that a control
packet has met a later transfer of its number: what holds until then is stated
by the four properties, what does not hold afterwards by `FinishedMeansDelivered`.

**AvCall.** `msi` and `av` are the two records that toxav keeps for a friend.
One action per message handled, per API call and per change of the friend's
status; API calls may fail half way because a send fails or the mutex of the
session is taken, and what they have changed by then stays. `told` is what the
application has been told of its call, ends included.

**TcpRelay, TcpConnections, TcpStream.** `TcpRelay` has the relay's two queues
and its array of accepted connections, whose places and slots are reused, and
for every client the slots of its `TCP_Client_Connection`. A socket is a number
with a sequence of packets in each direction; it breaks at any moment.
`astray` has the connections on which a client has sent a disconnect request for
a slot that he had not been told of.
`TcpConnections` is the same protocol from the side of one client with several
relays: `tc` is `TCP_Connections`, with the ties of each peer and the counts of
each relay, and the relay is reduced to what it answers. The loop of
`do_tcp_conns` is taken apart: one step for each packet read and one for the
rest of each relay's round, in an arbitrary order of relays, then
`kill_nonused_tcp`; no call of the layers above falls in between (`loop`).
`stray` records that `kill_tcp_connection_to` has told a relay to disconnect a
slot that its tie never had (section 4). How packets become bytes is in
`TcpStream`: a packet gets its nonce when it is written, priority packets
that the socket does not take wait in a queue of their own, and the reader can only decrypt packets
whole and in the order of their nonces.

**Dht, DhtNat, PingArray, Assoc.** `close` and `friends` are `close_clientlist`
and `friends_list`; keys are bit strings, and an address has an age in place of
its two time stamps. A node enters a list by answering, so every answer the code
accepts is an action, and answers come late, from another address or with
another key. `do_DHT` is one action with everything it does in its order.
The first friends are the ones `new_DHT` makes up (`FakeKeys`); their nodes are
saved with those of the close list.
`PingArray` is the ring that decides which answers are accepted. `DhtNat` is the
part of `DHT_Friend` that hole punching uses. `Assoc` is the cache of nodes that
are in no list, with its buckets, hashes and collisions.

**Onion, OnionAnnounce, OnionClient.** A packet is the layers it still has and
the return data it has collected; return data is sealed with the secret a node
has at the time, which changes. The requests that end at the storing node are
handled by `OnionAnnounce`, whose ping ids depend on the path's last node and
the period. `OnionClient` is the other end: its state is one record, and
functions that call each other in the code are operators on that record.

**GroupRing, GroupNumbers, GroupChat.** Public keys are numbers on a circle.
`chat` is one `Group_c`: peers, `closest_peers`, `close` with its types, and the
locks the group holds on friend connections. The other members send whatever
the code lets them send, and friends accept invites or cannot be sent one.
`lost` counts the locks that the code never gives back. In `GroupRing` every
member has come to know the others in an order of its own; one packet is passed
on, and `lapses` has what kept it from going on: a send that failed, a handler
that failed or that nobody had set, a sender that a member did not know.

**Savedata.** A file is a sequence of sections, which a restart may find cut off
anywhere: the sections before that place are read. `Messenger`'s `friendlist` keeps its holes, and the ring of shown
requests its index.

**RtpSession.** A unit of a frame is known by frame and place, so that a mixture
of two frames, or a part that is missing, can be seen in what is handed on.

**SortedList.** `find` is the loop of the code with its position, step and
direction, each round of it a step; nothing happens between the rounds.
`bs_list_add` and `bs_list_remove` begin with a search and go on from where it
ends.

## 3. Runs

| Run | Instance | Shows |
|---|---|---|
| `transport` | ring of 2 slots, numbers modulo 10, 2 packets in flight; a new connection with 1 packet each way, and a used one (first number 9) with 3 packets one way and 1 the other | receipts, memory and the refinement of `ReliableChannel` |
| `wire` | handshake: 3 sessions, 2 incarnations of each node, 2 tries, the two nodes symmetric; request packets for windows up to 8 numbers; a stream with packets of 2 and 3 units; an onion of 4 nodes and 2 users with 1 entry at the storing node; hole punching with 2 nodes and ports modulo 16 | sessions agree although packets of earlier ones come late; request packets say what they should; a stream is never out of step with its nonces; answers come back to those who asked; only those who can be reached are stored; ports are tried in turn |
| `connections` | table: 3 peers, 2 addresses, one of them local; locks: 2 toxav threads, UDP and relay packets; friend: 2 DHT keys, 2 holders, time-outs of 2; handshake: 2 sessions; nonce numbers modulo 7 of 42 nonces; quota with refills of 0..3 | ids and addresses are consistent and half open connections end unless a hole cuts them off; pointers stay valid and the spin loop ends; the layers agree and silence is noticed; handshakes end; windows and counters wrap safely |
| `messenger` | friend: 5 events, queues of 3, symmetric users; files: 2 numbers, 2 files of 0, 3 or unknown bytes, chunks of 2, 3 controls, 2 connections, queues of 3; calls: 1 medium, 4 requests, 1 failed send; frames: 3 of 2 or 3 units in packets of 2, numbers modulo 3 | the two sides of a friendship, of a transfer and of a call agree, and frames come out as they went in |
| `overlay` | relay: 3 clients, two of them connected, 3 sockets, 1 slot each, 4 calls; client: 2 peers, 2 relays, 2 slots, 5 calls; list: 8 data; ring: groups of 2 to 6 members on a circle of 16, 4 closest peers, 1 lapse; group: 4 keys for one member, 2 closest peers, numbers modulo 8, a window of 2, 5 calls | relay and clients agree on every slot, counts of relays are exact, the search finds what was added, groups hold what they need and reach everybody |
| `lookup` | DHT: keys of 2 bits, buckets of 1, friend lists of 2, one friend of `new_DHT`, 4 calls; ring of 2 requests with indexes modulo 4; onion client: 2 friends in 1 place, 1 path, lists of 2, 7 events; cache: 6 or 8 places, 3 calls; save file: 2 friends, texts up to 2, 5 calls | good nodes are kept and the closest sent; requests are answered once; late answers do not reach the wrong friend or path; what was saved comes back |
| `table_holes` | 2 peers | **violated**: `GivesUp` |
| `locks_oob` | 1 toxav thread, out-of-band packets | **violated**: `SpinEnds` |
| `friend_dht` | 1 DHT key | **violated**: `RemovedAfterSilence` |
| `files_reused` | the same files, 1 number | **violated**: `FinishedMeansDelivered` |
| `av_glare` | the same calls without failed sends | **violated**: `RingsUntilDisconnected` |
| `saved_status` | 1 friend, texts up to 2 | **violated**: `StatusMessageIsRestored` |

### Why the bounds are enough

*transport*: with a ring of 2, three packets fill the ring, wrap around its
slots and, from first number 9, wrap the packet number too; runs of one
received packet (`MaxRun`, 255 in the code) let a request packet free a packet
behind a hole; `Word` is larger
than any difference that two windows, one in flight and one stored, can have
(`LimitAssumption`), which is the relation 2^32 has to 32768. Two packets in
flight are reordered, duplicated and overtaken by requests.
*codec*: windows longer than two runs, and limits from 0 bytes on.
*nonce*: 20 packets pass the 16-bit wrap twice and the wrap of the whole nonce
once; `Threshold` keeps its relation to the space, `3 * Threshold + 1`.
*handshake*: two sessions are what crossing needs, the third one is a session
of an earlier or later incarnation whose packets are still around.
*stream*: four packets of two sizes and room for four units cut every packet at
every place, with others waiting behind it.
*onion*: four events are a request, its answer, a key that changes between them
and one more; two paths in opposite directions share their nodes, and two users
compete for one entry.
*nat*: two nodes that see the friend at two of three ports; six calls are enough
for an answer and a round of guesses, ports that change, and another round at
the new ones, with guesses that wrap. All the ports are of one family.
*table*: three entries are what a hole with something on both sides needs.
*messenger*: five events are two additions, a connection and two more: a friend
added again and a name or a message, or a message and a second connection. Three
controls are a kill that crosses an accept, and one more; a file of 3 bytes ends
in a short chunk, and two connections let a loss fall between any two packets.
Three frames of two parts let parts of two frames of one millisecond mix and a
third overtake them, and their numbers wrap.
*relay*: two clients are connected at the beginning, and the third socket is for one
of them who connects again before his old connection is gone, or for a third client
who gets a slot that was another's; four calls are two requests that link, a break
or a disconnect, also one that goes astray, and a new request.
*client*: two peers in two places and two relays, one of them for the onion; five
calls are add, kill and add again around a response that is on its way, and sleep;
what follows a disconnect request that goes astray takes a few calls more, and
nothing is claimed of it.
*list*: eight data are enough for every step of the search to be taken, from
both edges, with growing and shrinking at a capacity of 2.
*ring*: with six members one has five others for four places, so that orders matter,
and two on either side, so that a lossy packet has a choice among several; without
a lapse the packet must reach all, with one all but the member that lapsed, and of
two nothing is claimed.
*group*: for one member, three others are one more than the closest, so that one is
outdone; `close` has three places, so that it is never full: what happens then (the
result of `add_conn_to_groupchat` is ignored) is modelled and not exercised;
numbers pass their wrap with gaps on both sides of the window and of half the space.
*dht*: keys of two bits have buckets with competing nodes, and lists of two are
full with one node left over; ages reach "bad" and "gone"; a list of a friend is
there from the beginning, and four calls are three answers and a restart, or a
friend of the user's with his own list and two answers.
*ping array*: five requests in a ring of two come round twice and wrap the index.
*onion client*: seven events are a friend added, asked for, deleted and replaced
by another in his place before the answer comes, with a path replaced meanwhile;
the ring of path nodes wraps.
*cache*: three calls fill all the places a hash leads to and push one out.
*save file*: five calls are two friends of different kinds, a deletion, a save and
a start from it, cut off after any section.
Most of these properties are also proved without the bounds (section 5).

### Fairness

`do_net_crypto` and `do_friend_connections` are called by `tox_iterate`, which
an application has to call for ever: weak fairness of those actions.
`FriendConnection` adds that time passes. `ConnectionLocks` assumes that the tox
thread takes the steps it can take and that a toxav thread goes on with a call it
has begun; nothing is assumed of who gets a free mutex, nor of how often a toxav
thread calls. Calls of two threads that overlap without end never leave
`connection_use_counter` at 0, and nothing in the code keeps new ones out while the
tox thread waits: `SpinEnds` claims an end of the wait unless some thread begins
calls for ever.

What a main loop can do for a half open connection depends on its route, because
a send that fails counts as no try (`net_crypto.c:1154`). In `ConnectionTable` the
timers of connections with an address run out and their sends succeed; a
connection without one needs a relay, of which nothing is assumed, and
`HalfOpenEndsOrIsCutOff` and `GivesUp` are about those with an address only.
`CryptoHandshake` (in `connections`) splits its behaviours with the variable
`network`: "none" promises nothing, and nothing is claimed; "routed" says that
sends do not fail for ever, and `NoHalfOpenForever` is claimed; with "patient",
besides, of the packets of a kind that are available for a node some is handled
(weak fairness of `Arrives`), no retry limit is reached and nobody kills the
connection, and only then `OpenLeadsToEstablished` is claimed. The other runs have
no fairness.

### Deadlock

Every run but `av_glare`, `friend_dht` and `table_holes` holds a part that its
bounds (packets, sessions, calls) bring to a stop, and says `CHECK_DEADLOCK
FALSE` for that reason.

## 4. Findings

* **`table_holes`** (`net_crypto.c:2660`). `kill_timedout`, `do_tcp` and
  `send_crypto_packets` *return* at the first unused entry of the table, so a
  connection behind a hole is neither served nor given up until the entry is
  used again. `net_crypto.h:58` promises a maximum number of tries "before
  giving up". `HalfOpenEndsOrIsCutOff` is what does hold.
* **`locks_oob`** (`net_crypto.c:506`). `tcp_oob_callback` runs with
  `tcp_mutex` held; if the handshake makes the tox thread wait for
  `connection_use_counter` while a counted toxav thread waits for `tcp_mutex`,
  both wait for ever. `toxav.h:54` says that the API is fully thread-safe.
* **`friend_dht`** (`friend_connection.c:359`). A DHT key that is already known
  does not refresh `dht_pk_lastrecv`, so a friend is removed from the DHT
  although he is heard of. `friend_connection.h:48` says "after last hearing
  about him".
* **`files_reused`** (`Messenger.c:1523`). A control packet names only a number.
  The sender kills a file and offers another, which gets the same number; an
  accept of the first that was on its way is taken for the second. The receiver,
  who has not accepted it, drops its data, and the sender is told that the file
  is finished (`tox.h:2012`; `tox.h:1932` on the reuse of numbers). From the
  same cause a kill meant for one file ends the next one; and since a control
  for an unknown transfer is answered by a kill, even if it is itself a kill,
  one crossing leaves kills going to and fro for as long as the connection lasts.
* **`av_glare`** (`msi.c:670`). Two friends who call each other at once lose both
  calls and neither application is told; `toxav.h:299` says the library rings
  until the friend is disconnected.

* **`saved_status`** (`Messenger.c:2687`). A status message of
  `MAX_STATUSMESSAGE_LENGTH` can be set (`Messenger.c:594`) and is saved, but
  loading takes only shorter ones: it is gone after a restart. `tox.h:652` says
  that *all* information is stored.

Hazards that no property is about: the lossy data callback may kill the
connection its caller goes on with (`net_crypto.c:1340`); the round trip time is
never taken from a request packet, because `l_sent_time` starts as ~0
(`net_crypto.c:767`); MSI errors are answered by errors (`msi.c:799`) and file
controls for unknown transfers by kills (`Messenger.c:1528`), for as long as the
connection lasts; a change of capabilities undoes a mute (`toxav.c:990`); a full
queue may swallow ONLINE and OFFLINE (`Messenger.c:160`; `FriendsAgree` excludes
it); a chunk that could not be sent is not asked for again (`Messenger.c:1473`);
waking a connection does not lower `sleep_count` of relays that are awake
(`TCP_connection.c:527`), so that a relay in use may be put to sleep; a
connection that is killed before the relay has answered its routing request
tells the relay to disconnect slot 0 (`TCP_connection.c:473`), which may be
another peer's, and the response to that peer's next request then makes a tie
that is ONLINE REGISTERED without lowering `lock_count`
(`TCP_connection.c:839`): the count stays too high while the relay is connected, so that
`kill_nonused_tcp` spares the relay, and a slot may name the connection of
another peer (`RelayCountsAreExact` is about what holds until then, and
`RelayAndClientsAgree` excepts the slots of such a connection); `punching_index`
goes on when the ports of a friend change, so that the ports nearest to the new
ones are left out (`DHT.c:1953`; `PortsAreTriedInTurn` says where the tries begin);
`not_kill` counts living nodes in 8 bits, so that exactly 256 of them are taken for
none and all are marked bad (`DHT.c:1451`); a half open connection to which nothing
can be sent is never given up (`net_crypto.c:1154`); a push or pop left over from
one call is applied to the next (`msi.c:709`); a key that
shares exactly 128 bits with ours would go into a bucket past the end
(`DHT.c:791`); lock numbers of a DHT friend may be given twice (`DHT.c:1329`); a
part of a frame that arrives twice hides a missing one (`rtp.c:318`;
`FramesAreSound` excludes it), and 32-bit milliseconds wrap (`rtp.c:190`); events
of one epoll batch name places that the first of them may change
(`TCP_server.c:1205`). The models have these behaviours where they are modelled
at all; no message in the repository says what should happen instead.

## 5. Proofs

All constants are arbitrary within the named assumptions of the modules.

| Theorem | States | Argument |
|---|---|---|
| `TransportIsRight`, `TransportIsReliable` | `EndsAreRight`; the refinement of `ReliableChannel` | `TransportInv`, see below |
| `HandshakesAgree` | `SessionsAgree` | `HsInv`: every packet in the network is `Honest`, every connection `IsSound`; see below |
| `RingKeepsBook` | `RefinesBook`: the refinement of `RequestBook`, and `RecentIsAnswerable` | `RingInv`, see below |
| `TableStaysSound` | `TableIsSound` | `TableInv` adds that a used entry has a key, that an unused one is wholly cleared, and that `ip_port_list` names no id past the end of the array |
| `FriendsStayTrue` | `FriendsAgree` | `MessengerInv`: what a user sees once it has handled what is on its way to it; see below |
| `AnswersReachTheirUser`, `EntriesStayEarned` | `AnswersFindTheirWay`, `EntriesAreEarned` | `OnionInv`: where the return data of every packet and entry ends, and which ids a request can show; see below |
| `QuotaIsOrdered` | `QuotaOrdered` | the counters are ordered once the main loop has run, and both stay below the word size: neither decrement wraps |
| `NonceWindow`, `NonceNoReplay` | `WindowAroundNewest`, `OldPacketsRejected` | the inductive part is that `recv_nonce` trails `newest` by at most 2 thresholds; what a receiver rebuilds is then a matter of residues modulo `3 * Threshold + 1` |
| `CopiesStayDropped` | `CopiesAreDropped` | `NumbersInv(n)`, for the `n`-th message the newest, see below |
| `FriendLayersAgree`, `FriendCallbacksAlternate`, `FriendWipedForLastHolder` | the three invariants of `FriendConnection` | `FcInv` = types, the three invariants and `Held`, which ties the reference count to the holders and says that a slot that does not exist is all zeros; one step per action |
| `PointersStayValid` | `PointerStaysValid` | `LocksInv` adds `Counted` (the use counter is the number of threads between the two lock sections), `Excluded` (who holds which mutex where) and `Bounded`; cardinalities of finite sets do the rest, for any number of threads |
| `AvCallsAreBacked`, `AvPictureIsRight` | two invariants of `AvCall` | a step changes the records of one node: `NodeOK(e)` for both nodes is the invariant, and `NodeStep` reduces each action to the node it belongs to |
| `AvCapabilitiesAgree` | `CapabilitiesAgree` | `FirstCall`: before the first call all is quiet; then it is over for one side for good (no invitation is left that could begin it again), or in one of four phases (`Inviting`, `Ringing`, `Answered`, `Talking`) in which the last message to a side, or what it knows if none is left, is what the other has set |
| `TransfersStayAgreed` | `TransfersAgree` | `Agreed`: what is on its way about one number, see below |
| `HolePunchingStaysSound` | `HolePunchingIsSound` | `PunchingInv` counts the answers to NAT pings, of which one may still wait for `do_NAT`, and says that all the turns of `punch_holes` since the ports changed, from where `punching_index` stood then, have been tried; `TurnOfPort` gives each port at a distance its turn |
| `RequestsStayShownOnce` | `RequestsAreShownOnce` | `RequestsInv`: the ring holds the last requests shown, the last of them at the index, so what is overwritten was shown `MAX_RECEIVED_STORED` requests before |
| `ListsFindWhatWasAdded` | `FindsWhatWasAdded` | `ListInv`, see below |
| `TcpStreamStaysInOrder` | `StreamStaysInOrder` | `StreamInv`: all that is ahead of the reader, in the stream, pending and queued, is `Readable` from where the reader is, be that before or behind a length; a write leaves it as it is or adds a whole packet at its end |
| `RequestsAreUnderstood` | `AgreesWithReference` | `CodecInv`, see below |
| `RelayCountsStayExact` | `RelayCountsAreExact` | `TcpConnInv`, see below |
| `RelayLinksStayMutual` | `LinksAreMutual`, the relay's half of `RelayAndClientsAgree` | `RelayInv`: one connection for a key, one slot of a connection for a peer, links that name each other, and a size beyond the last connection that the number of clients bounds; a socket that is open, or from which there is something left to read, has an owner and carries packets whose slots exist |
| `FramesStaySound` | `FramesAreSound` | `RtpInv`: which places of the frame in `mp` are filled, see below |

**The connection is a reliable channel.** None of the parts of `EndsAreRight` is
inductive, nor does the refinement follow from them: they are about numbers modulo
2^32, slots modulo the size of the ring, and packets that were sent long ago.
`TransportInv` says in plain counts what all these mean. `Counts`: of the packets
an end has written, the peer was given at least those acknowledged, and those not
acknowledged fit the ring. `Rings`: `send_array` spans the packets `acked + 1 ..
written`, `recv_array` starts after those delivered, and a slot that is in use
holds the packet whose number leads to it. `Honest`: a packet, however old,
acknowledges what was delivered; a data packet carries the content its number
stands for; and what a request packet does not list, the peer has. The last one
stays true because a receiver never gives back what it has, which is why an old
request packet may be applied to a window that has moved. The first half of the
module shows what each function of the ring does to a ring that spans given
counts, for instance that `clear_buffer_until` and `DropFirst` leave all other
slots alone although numbers wrap. `StepIsSound` then says what a step of one
end has to show, and there is one lemma for each action. `RecvWindowFitsRing` is
the interesting part: the bound in `add_data_to_buffer` admits a number one past
the ring, and it is `Counts`, the send window of the *peer*, that excludes it.

**Sessions agree.** What an end believes rests on packets that may be as old as the
network. `HsInv` says of every packet, sent or waiting as `temp_packet`, what its
maker knew (`Honest`): a cookie response and the two cookies of a handshake name
the same pair of incarnations, and a data packet was encrypted with a key its
sender had computed. And it ties every connection to the keys and to the
handshake its DHT key came from (`IsSound`).

**Answers find their way.** No node of a path knows more than the next address, and
an answer that arrives at a user carries nothing to compare it with.
`OnionInv` follows the return data: a packet has as many parts as nodes have
handled it and not yet undone (`Depth`), and the *first* part, which is the last
to be taken off, names the user who made the request; when it becomes an entry's,
that is the user who is stored. A node that has changed its key meanwhile drops
the answer, which is why the keys themselves do not occur in the invariant.
For `EntriesStayEarned` it says that a request shows an id its sender was told, or
none, which stays true because users forget nothing; an entry is compared with
an id at the moment it is made (`handle_announce_request`) and both grow older
together. What `qsort` makes of the entries is any sorted arrangement
of them: the proof needs only that it makes up none.

**Copies are dropped.** `CopiesAreDropped` compares what a member does, which only
sees numbers that wrap, with the list of all packets it ever took. `NumbersInv(n)`
says that the `n`-th is the newest of that list, that `last_message_number` is its
number, and (`WindowOf`) that `recv_lossy` has, for each of the last `LossyCount`
packets up to the `n`-th, whether it is in the list. Numbers wrap at `NumberWord`
and flags at `LossyCount`, which divides it: `SlotOfWord` shows that the flag found
from a number is the one that belongs to its packet, after any number of wraps.
`AheadIs` places a packet in, below or above the window, and this is where
the assumption on lags and gaps is used: an older copy would be taken for a
new one. `MovedWindow` is the other half: of the flags of the moved window, those
of packets never seen are the ones just cleared. A window of a single packet
(`LossyCount` 1, the code has 256) is excluded by assumption: its two ends are
equal, which the code takes to mean that nothing has come yet, and copies would
pass.

**The table of connections.** The three parts of `TableIsSound` need each other.
An entry that is given out again must not be reached by the address of the one
before: `crypto_kill` clears the entry and its address together, and
`ip_port_list` never names an id beyond the end, so neither a reused nor a
reallocated entry inherits anything. The bound on the array follows from one
connection for each key only because `create_crypto_connection` wastes at most
the entry it has just made when it fails.

**Friends agree.** `FriendsAgree` is about moments at which nothing is on its way,
and says nothing of the way there. `MessengerInv` says of every moment what the
two will see: `EndsOn(u)` is whether `u` sees its friend online after the packets
on their way to it, `Answers` whether one of them will be answered by another
ONLINE, `Learns` which name it will know. `Agrees` has the three facts of a
connection that is up: a user who is nobody's friend will not be seen online; of
two who have each other as friends, each will see the other, or an ONLINE that is
still on its way will be answered by the one it lacks; and a user that counts its
name as sent, and will hear of no OFFLINE, has a friend who will know it. `Delivered`
ties a receipt to its packet: the number is below the count of packets the peer was
handed and the message was shown, or it is the place of the message in the queue,
where the last ONLINE or OFFLINE before it is an ONLINE. The first half of the module
is about such queues alone (`OnLast`, `OnTail`, `AnswersTail`, `LearnsTail`: what a
packet more at the end, or one less at the front, changes); then one lemma per
action. The hypothesis `~ lost` cannot be weakened to "no ONLINE was lost": a
lost OFFLINE leaves a user online that was deleted.

**The ring of requests.** `RingInv` says that an entry in use belongs to a request
whose place it is and that has not been answered (`Occupied`), and that each of
the last `ArraySize` requests, unless answered or timed out, has its entry
(`Kept`). It says nothing of `last_deleted`: the sweep clears timed out entries
only, wherever it starts, and so the proof shows that setting it back, which
`ping_array_add` does, matters for memory and not for correctness. The arithmetic
is that `ArraySize` divides 2^32.

Assumptions that carry weight: `NumSpace = 3 * Threshold + 1`
(`DATA_NUM_THRESHOLD` is `UINT16_MAX / 3`), no nonce is used twice under a key,
`MinQueue + 5 * MaxRefill` is less than 2^32 (that is what the limit on a refill
amounts to), finitely many threads. For the transport, the size of the ring
divides 2^32 and an end writes fewer than 2^32 packets, less two windows
(`WordAssumption`, `LimitAssumption`): a packet that the network keeps while the
numbers go round once is taken for another one, which the code cannot tell either.

**Frames come out whole.** `len` of `mp` only counts bytes; that it stands for the
bytes that are there is not to be seen in the receiver alone. `RtpInv` says that,
while no packet has arrived twice, there is a set of places of one frame, as many
as `len`, that hold the bytes of that frame, and that no part still on its way
fills one of them again. So `len = tlen` leaves no place for anything else. That a
part with the time stamp and the number of `mp` is of the same frame needs the
sender: of the frames of one millisecond there are fewer than `SeqWord`, counted
back from `sequnum` (`Sent`), and a call that begins anew does so in a later one.

**Files agree.** A number says nothing of the file it stands for, and numbers are
used again. `Agreed` speaks of one number and of everything that is on its way
about it: offers come in the order of their files and after everything about
earlier ones; whatever answers an offer finds it taken; data finds the receiver's
transfer accepted and still there unless it is done with the file; the chunks on
their way lead from what the receiver has to what the sender has sent, with the
last seek as the beginning while the sender does not know that it is accepted;
and the last pause or accept tells what the other side will think. It holds until
a control packet meets a later file of its number, the finding `files_reused`.

**The search of a sorted list.** The loop of `find` halves its step with rounding
and may turn round. `LoopInv` says that while it moves by more than one place it
has twice that distance of room on either side, so that it cannot leave the array,
and that once it moves by one it has come from the neighbour, so that where it
turns there is nothing between the two. That it ends within twice the length of
the list is part of the invariant, since a measure goes down in every round.

**Request packets are understood.** Both ends walk over their own windows.
`CodecInv` says of the bytes written, and of those not yet read, that they tell
what is missing, one stretch of packets for each byte (`Lists`), and of the two
loops that they are inside the stretch of the byte at hand.

**Counts of relays are exact.** `lock_count` is changed by callbacks that come with
packets, and a packet may be older than the connection it finds. `TcpConnInv`
therefore speaks of the packets too. Slots and ties in use are each other's, so that
a notification about a slot is one about its tie (`SlotsSound`); a routing request
or response on its way is awaited by a tie that has no slot yet, and there is one at
most for each peer, so that no response finds a tie in use (`RequestsSound`); a relay
that is not connected has none of it (`IdleSound`); no peer has two connections
(`KeysSound`). All but the first two survive a disconnect request that goes astray:
`Sound(tc, exact)` is proved of every step for both values of `exact`, and the one
action that may go astray gives up `exact`. The attempt to prove the unconditional
statement is what showed that it is false: TLC needs more calls than the run has.

Only model-checked, and why:

* liveness (`HandshakesEnd`, `HalfOpenEndsOrIsCutOff`, `SpinEnds`, `SilenceIsNoticed`),
  which is out of the prover's reach;
* `SavedIsRestored`, `SendsTheClosest`, `GoodNodesAreKept` and `AssocIsSound`: what
  they compare is computed by folds over sequences (a file that is read section by
  section, lists that are sorted), so that a proof would be an induction over data;
* `WordGoesRound`: that a message reaches every member is a statement about paths in
  the graph of closest peers, of any length;
* `ClosestAreSound` and `ConnectionsAreHeld` of `GroupChat`, and `AnswersAreOwn` of
  `OnionClient`: no obstacle of principle, but their actions are long compositions of
  updates of one record, and the invariants have not been worked out;
* of `RelayAndClientsAgree`, the clients' half (`ClientsAgreeWithRelay`), which would
  need an account of all packets in both directions like the one of `TcpConnInv`.

Where a proof needs the end of a loop (`Readable`, `Cleared`), it takes the least
number of a set, which the library's theorems on well-founded relations provide.

## 6. What is not modelled

* Cryptography: keys and nonces are values that are equal or not; a packet of
  another key does not decrypt.
* The rates of the congestion control (floating point): a refill is any number
  up to a bound. Round trip times are free.
* In `ConnectionTable`, IPv6 addresses (they are treated like the IPv4 ones); the
  relays of a connection are those of `TcpConnections`, on their own.
* In `FriendConnection`, addresses, TCP relays, LAN discovery and the packets
  that are passed through.
* Of `Messenger.c`, custom packets and the type of the
  connection that is shown (UDP or TCP). How many chunks are asked for in one go
  (free slots of the queue, congestion) is free. In `FileTransfer` neither user
  removes the other in the middle (`m_delfriend`; PACKET_ID_OFFLINE then breaks the
  transfers of the other side while a group chat keeps the connection): adding and
  removing is in `MessengerFriend`. Of the save file, the sections of
  the DHT, the relays and the path nodes.
* In `TcpStream`, memory running out: `add_priority` would lose the rest of a packet
  whose nonce is used already (`TCP_server.c:436`), and the stream be out of step for
  good. In `SortedList`, a `resize` that succeeds for the first of its two arrays and
  fails for the second; failing for the first is modelled.
* In `TcpRelay`, the encryption handshake, proxies and the batches of epoll; in
  `TcpConnections`, data and out-of-band packets, which change none of its state.
* In `Dht`, packing of nodes, answers to LAN addresses and the hardening code,
  which is never called; the build without `ENABLE_ASSOC_DHT`.
* In `OnionClient`, which nodes `rand` picks for a path and when timers fire are
  free choices.
* In `Assoc`, address families other than the two of IP.
* In the group modules, friends removed while in a group (`number_joined` names a
  friend connection whose number could then be another's), and in `GroupNumbers` a
  peer that is deleted and added again, with which its numbers start anew.
* In the group modules, names, titles and several groups at once, so that group
  numbers do not appear; two keys whose distance is the largest number are assumed away
  (`GroupRing`).
* In `AvCall`, codecs and bit rates beyond "there is one"; `RtpSession` leaves out
  the bandwidth controller. After the application holds a dangling `msi_call`
  pointer nothing is claimed.
* Components marked `not_modelled` in PROJECT.json: `network`, `LAN_discovery`,
  `crypto_core`, `tox.c`, `toxdns`, `toxencryptsave`, codecs, `other/` and the tests
  are I/O, wrappers or third-party interfaces; group audio is left.

## 7. Plan

1. *Done*: `net_crypto`, `friend_connection`, `Messenger` with files, requests and
   the save file, calls and their frames, relays, DHT and onion, groups.
2. *Left to model*: the jitter buffer of group audio; relay lists of
   `friend_connection` together with `TcpConnections`; several groups.
3. *Proved*: see section 5.
4. *Proofs left*, in this order: the clients' half of `RelayAndClientsAgree` for any
   number of clients, with the packets of both streams as in `TcpConnInv`;
   `ConnectionsAreHeld` and `ClosestAreSound` of `GroupChat`; `AnswersAreOwn` of
   `OnionClient`.
