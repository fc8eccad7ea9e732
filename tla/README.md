# A TLA+ model of Nku_Computer_Network

The repository holds two programs with logic of their own:

* `lab2` is a reliable file transfer over UDP: a sender and a receiver with a
  three-way handshake, cumulative and selective acknowledgements, a sliding
  window, TCP Reno congestion control, adaptive retransmission timeouts, window
  probes, resets and a closing handshake.
* `lab1` is a chat server and client over TCP, with a thread per connection.

`lab3` is a set of static pages. There are no tests in the repository.

This development models the handshake, the data and closing phases, congestion
control, the timers and the wire format of `lab2`, and the server, the client and the
framing of `lab1`. Each model is checked by TLC on small instances; every safety
property that holds, and every refinement, is proved for all values of the constants.

## Inventory

### lab2: the file transfer

| Component | State | Operations | Correct when |
|---|---|---|---|
| `CongestionControl` | `cwnd_`, `ssthresh_`, `dup_ack_count_`, `in_fast_recovery_` | `on_new_ack`, `on_duplicate_ack`, `should_fast_retransmit`, `on_fast_retransmit`, `on_timeout` | the window never falls below a segment; the trigger at exactly three duplicates is never missed; recovery inflates the window by the duplicates and by nothing else |
| `SendWindow` | `base_seq_`, `next_seq_`, a map of segment entries (`sent`, `acked`, `retrans_count`, data, times) | `initialize`, `mark_acked`, `get_segment` (creates an entry), `set_base_seq`, `advance_base_seq`, `advance_next_seq`, `calculate_window_size`, `all_acked` | an acknowledged segment was received; `next_seq_` stays within the window of `base_seq_`; the next segment was not sent before |
| `ReceiveBuffer` | `expected_seq_`, the map of segments out of order | `is_in_window`, `add_segment`, `extract_continuous_segments`, `build_sack_mask` | what is extracted is the file, in order, once; what is kept fits the window; the masks are true |
| `ReliableSender` | the above, `peer_wnd_`, `zero_window_` and the persist timer, RTO estimate, `bytes_acked_`, FIN state, time of the last ACK | `handshake`; in a loop `try_send_data`, `process_network` (`handle_ack`, `handle_fin_ack`), `handle_timeouts`, `handle_window_probe`, `try_send_fin` | success is reported only when the file was written; it never hangs |
| `ReliableReceiver` | `buffer_`, the output file, `consecutive_timeouts_`, statistics | `do_handshake`; in a loop `process_data_packet`, RST, `handle_fin`, time-outs | the output file is always a beginning of the input file |
| `rtp` | none | `serialize_packet`, `parse_packet`, `compute_checksum`, `generate_isn` | parsing inverts serialising; a damaged packet is refused |
| `TransferStats`, logger, mains | counters and times for printing | | |

The sender and the receiver are two single-threaded processes that share nothing
but the UDP socket between them. What is hard: every packet may be lost,
repeated, delayed or reordered, and both loops keep state (window edges, map
entries, counters) that an old packet may find changed; sequence numbers start
at a hash and wrap; several timers (RTO, FIN, global, persist, the receiver's)
race with late answers; one read of the file or one step of closing may fail
while the rest goes on.

### lab1: the chat

| Component | State | Operations | Correct when |
|---|---|---|---|
| `ChatServer` | `running_`, `listenSock_`, `clients_` under `clientsMtx_`, the accept thread | `start`, `stop`, `broadcast`, `removeClient`, `acceptLoop` | all clients see broadcasts in one order; no session is freed twice, freed by its own thread, or leaked; `stop` returns |
| `ClientSession` | `sock_` (atomic), `nickname_`, its thread | `start`, `run`, `forceClose`, the destructor (joins the thread) | |
| `chatproto` | none | `sendAll`, `recvAll`, `sendFrame`, `recvFrame` | frames survive any splitting of the byte stream |
| `ChatClientNetwork` | `sock_`, `connected_`, `disconnecting_`, the receiver thread | `connectTo`, `disconnect`, `sendText`, `receiverLoop` | the state shown is the state of the connection; each thread is joined |
| `ChatWindow`, mains | Win32 user interface | | |

What is hard: sessions are removed and freed from whichever thread finds that a
send to them failed, including their own; a blocking send happens under the
mutex; the client's socket is shared without a lock.

The hazards of both programs are listed, each at its line, in `PROJECT.json`.

## Modules

| Module | Models |
|---|---|
| `CongestionControl` | the class of that name: its methods as functions from state to state, and a specification of the object on its own (`CongestionSpec`) |
| `SendWindow` | the class of that name, as functions on a record |
| `ReceiveBuffer` | the class of that name, as functions on a record, over sequence numbers modulo `SeqMod` |
| `DataTransfer` | both main loops and the network: EXTENDS the three above |
| `ReliableDelivery` | the abstract specification: what the two programs promise together |
| `RetransmissionTimers` | `update_rto`, the timer of each segment and its doubling, the persist timer, the global timeout |
| `Handshake` | `handshake` and `do_handshake`, for several runs of the sender and of the receiver, with whatever else the sender sends |
| `Checksum` | `serialize_packet`, `parse_packet`, `compute_checksum` |
| `ChatServer` | `ChatServer` and `ClientSession` with their threads, the mutex and the life of the session objects |
| `TotalOrderBroadcast` | the abstract specification: what the server promises to those in the room |
| `ChatClient` | `ChatClientNetwork` on the UI thread and the receiver thread, and the part of `ChatWindow` that drives it |
| `ChatFraming` | `sendFrame`, `recvFrame`, `sendAll`, `recvAll` and the byte stream between them |
| `FrameChannel` | the abstract specification: what `sendFrame` and `recvFrame` promise their callers |
| `MCDataTransfer`, `MCHandshake`, `MCChatFraming` | values for TLC |
| `MCCorners` | four instances of `DataTransfer`, one for each corner of the parameters, in one run |
| `MCParts` | `CongestionControl`, `RetransmissionTimers` and `Checksum` in one run: `part` says which of them a behaviour is of |
| `DataTransfer_proofs` (with those of `CongestionControl`), `ReliableDelivery_proofs`, `RetransmissionTimers_proofs`, `Handshake_proofs`, `Checksum_proofs`, `ChatServer_proofs`, `ChatClient_proofs`, `ChatFraming_proofs` | theorems |

`Handshake` is about how `DataTransfer` starts, an established sender and receiver, and about
what is left on the network by the transfers before.
`RetransmissionTimers` refines a choice of `DataTransfer`: there a timer may expire
whenever its segment is unacknowledged, here it expires when its time has come.

### How DataTransfer corresponds to the code

The sender's loop is a fixed cycle of six steps; `snd_pc` names the one that
comes next. The receiver's is one step per packet; `rcv_pc` is `recv` in the loop
of `run()`, `closing` in `handle_fin`, `closed` afterwards.

| `snd_pc` | Actions | Code in `sender.cpp` |
|---|---|---|
| `send` | `GiveUp`; `TrySendData` | global timeout 764-770; `try_send_data` |
| `network` | `NoPacket`; `HandleFinAck`; `HandleAck` with its early return and its cases `HandleNewAck`, `HandleDuplicateAck`, `HandleOldAck`, each ending in `HandleSack` | `process_network` and `handle_ack` with everything it calls, `advance_base_seq` included |
| `timers` | `HandleTimeouts` | `handle_timeouts` |
| `probe` | `HandleWindowProbe` | `handle_window_probe` |
| `fin` | `SendFin`, `ResendFin`, `NoFin` | `try_send_fin` and the two tests that end the loop |

| `rcv_pc` | Actions | Code in `receiver.cpp` |
|---|---|---|
| `recv` | `ReceiveTimeout`, `ReceiveRst`, `ReceiveOther`, `ReceiveData` (`RefuseData` or `AcceptData`), `ReceiveFin` | the loop of `run`, `process_data_packet`, the head of `handle_fin` |
| `closing` | `ReceiveFinalAck`, `NextBurst` | the loop of `handle_fin` |

An action is a whole handler: the processes are single-threaded and share
nothing, so nothing can happen between two statements of a handler that either
could see.

* **Network.** `net` is the set of all packets sent so far. Receiving does not
  remove a packet, so a packet may arrive at any time, repeatedly or never. A
  damaged packet fails `parse_packet` and is a lost one for the sender; the
  receiver counts it as a timeout, and so does `ReceiveTimeout`, which is enabled
  at any time.
* **Time.** A timer may expire whenever what it waits for has not happened. So the
  estimate of the RTO needs no state here, and every interleaving of timers is
  covered, those that `RetransmissionTimers` excludes among them. The minimum interval of gap retransmissions becomes the choice of the
  set `resent`.
* **Segments.** The map of `SendWindow` creates a default entry when it is first
  asked for a segment, so an absent entry and a default one behave alike; the
  record of sets and counts stands for the map. The erasures of `set_base_seq` (all
  entries left of the edge) and of `advance_base_seq` (only those passed) are kept
  apart, for the difference is visible: an old SACK creates an entry below the
  edge.
* **Data.** The payload of a segment is an element of `Payload`; the file is the
  sequence of its segments' payloads. `FailingReads` are the segments that
  `load_segment_payload` may fail to read.
* **The congestion window** is a double. It is counted here in `1/Unit` of a
  segment and rounded down, and saturates at `MaxCwnd`. The other counters that
  the code lets grow, `dup_ack_count_` and `bytes_acked_`, saturate at
  `MaxDupAcks` and `MaxBytesAcked`; `retrans_count` at one above its limit, for
  it is only compared with that limit.
* **Start.** `Init` is the state that a completed handshake leaves. The ACK of the
  sender and the SYN+ACK may still be on the way, and both matter: `handle_fin`
  takes the first for the final ACK, `handle_ack` takes the second for a duplicate
  acknowledgement.

Not in the model: printing and statistics other than `bytes_acked_`; packets from
other addresses (both sides drop them, although at the receiver they reset the
timeout count, which `ReceiveOther` covers); failure of `sendto`, which is a loss.

### How Handshake corresponds to the code

`Senders` are runs of the sending program, each with the `Endpoint` it sends from
and its `SndIsn`. `sender_main.cpp` binds port 9000 unless told otherwise, so a run
that is started again looks to the receiver like the one before it, and packets
of the earlier run may still arrive: `Start` requires the port to be free, `net`
keeps everything.

| State | Code |
|---|---|
| `conn[s].pc`, `.attempt`, `.peer_isn` | where `handshake` is, its loop counter, `peer_isn_` |
| `listener.pc` = `listen` / `syn_received` / `established` / `returned` | the outer and the inner loop of `do_handshake`; the loop of `run`; its end |
| `listener.client`, `.isn`, `.peer_isn`, `.attempt` | `client_`, `isn_`, `peer_isn_`, the inner loop counter |
| `listener.run`, `listener.by`, `rounds` | history: the how many-th run of the receiver it is, what completed the handshake, and every SYN that was answered, in all runs |

One step of a side is what it does between two calls of `wait_for_packet`. A
timeout, a damaged packet, one from a wrong address and one of no use have the same
effect on either side, an attempt used up: `Retry` and `RepeatSynAck`.

Of the data and closing phases there is what `do_handshake` and `handshake` tell apart,
which is the type of a packet and the number it acknowledges: DATA (`SendData`), the window
probe, an ACK of the number 0 (`SendProbe`, `send_window_probe`), the FIN (`SendFin`), the
FIN+ACK (`ReceiveFin`), the final ACK (`ReceiveFinAck`), and the RST (`SendRst`). The final
ACK carries the number of the sender's own FIN and one more, `isn_ + total + 2`
(`FinalNumber`), not one of the receiver's ISN. `do_handshake` tests the flag and the number
only, so either may be taken for the ACK of a handshake, in a later run of the receiver
(`Restart`) as well as in this one. When a sender sends them is abstracted to "at any time
once established", a probe only if the receiver advertises a window of zero
(`RcvWindow`); `DataTransfer` says more.

Numbers are modulo `SeqMod`, 2^32 in the code. `generate_isn` adds a clock to a salted hash
of the addresses: the receiver does not give one client the same ISN twice (`ReceiveSyn`).
In a later run of it the salt is another; that clock and salt make up for each other is
left out, as a chance of one in 2^32. For different clients, and for runs of the sender,
nothing is assumed.

### How Checksum corresponds to the code

A word has two bytes of base `Base` (256 in the code). The words of the header
other than checksum and length are one word, `fields`: the code treats them alike.
`DamageByte` and `Resize` are the network's, external to the code.

### How RetransmissionTimers corresponds to the code

The loop of `run()` again, with `step` naming the handler that comes next. Time
passes in `process_network`, in units no shorter than one call of it; `age[s]` is
`now - last_send`, `since_ack` is `now - last_ack_time_`, `persist_left` is
`persist_timer_ - now`. `handle_timeouts` is one step per segment, because `rto_`
changes between two of them: it is doubled for *each* segment that has expired, and
the next one is compared with the doubled value. `srtt_` and `rttvar_` are doubles;
they are counted in eighths and fourths of a unit, so that the gains 1/8 and 1/4 are
divisions, rounded up where they do not come out even. What is acknowledged, sent
again by a fast retransmit or by `handle_sack`, and read from the file is left open.
The history variables count retransmissions, probes and quiet time since the last
ACK.

### How ChatServer corresponds to the code

One process for the accept thread, one for each session's thread, one for the thread
of `main` that calls `stop()`. `pc` says where each is:

| `pc` | Code in `chat_server.cpp` |
|---|---|
| `accept`, `push`, `start`, `assign` | `acceptLoop`: `accept` and `new`; `push_back` under the mutex; `start()`, in two steps: the new thread runs before `thread_` has been assigned |
| `hello`, `recv` | `run`: the first `recvFrame`; the one in the loop |
| `lock`, `send` | `broadcast`: the mutex; one step for each client that is visited |
| `close`, `delete` | `broadcast` and `stop` after the lock: `forceClose` of all, then `delete` of each, which joins its thread |
| `remove`, `end`, `done` | `removeClient`; closing `sock_`; `run` has returned |
| `idle`, `listen`, `join`, `swap`, `returned` | `stop` |

`object` is `freed` once a session was deleted; `Crash` is what becomes of a thread
that joins itself (`std::thread::join` throws, out of a destructor) or uses a session
that was deleted. The latter is undefined, so the memory may also be found intact.
`removed[t]` is `toRemove` of a broadcast or `toClose` of `stop()`.

Left out: the order of `clients_` (a broadcast visits its members in any order), what
messages say beyond their kind and whether they fit `MAX_PAYLOAD`, the reuse of
socket handles by the operating system. `recvFrame` reading a part of a frame is in
`ChatFraming`.

### How ChatClient corresponds to the code

`ui` is where the UI thread is: its message loop, `connectTo` (`connect`,
`connecting`, `show`) or `disconnect` (`disconnect` to `finish`); `op` remembers who
called `disconnect`. `receiver` is where `receiverLoop` is. `posted` is the queue of
WM_CONN_STATE messages, `shown` the text of the button. The two threads share
`connected_`, `disconnecting_` and `sock_`, which has no lock: the receiver finds a
closed handle or `INVALID_SOCKET`, and `recvFrame` fails with either.

### How ChatFraming corresponds to the code

`stream` is the bytes on the way; one step of `sendAll` or `recvAll` is one call of
`send` or `recv`, of any size. A byte counts to `LenBase - 1`, and the length has two
bytes instead of four. `Reset` loses the rest of the stream. `sent` and `received` are
the frames for which `sendFrame` and `recvFrame` have returned true; with the connection
and who has failed (`Failed`) they are the state of `FrameChannel`, which knows of no bytes.

## Runs

| Run | What it shows |
|---|---|
| `parts` | congestion control on its own (`Unit` = 4, up to 16 segments, every initial threshold); the timers on their own: three segments, every order of ACKs, masks, losses, samples and window sizes until the connection is given up; and every packet with up to three bytes of payload, intact, with any one byte changed, cut anywhere or followed by any one or two bytes |
| `transfer` | the main run: four segments, sending window 4, receive window 3, a segment that may be unreadable, one retransmission allowed before the RST, two FIN retries and a burst of two; safety, and the refinement of `ReliableDelivery` |
| `corners` | three segments in four corners: an ordinary transfer; sequence numbers modulo 16 that wrap within the file; the highest ISN of all at the sender, so that `handle_ack` takes every ACK for invalid; a receiver that advertises a window of zero. What is written is the file, in order, and success means all of it; and under fairness the sender returns or resets |
| `handshake` | three runs of the sender, two at one endpoint with different ISNs and one elsewhere with an ISN equal to one of them; two runs of the receiver, which answers two SYNs; two attempts on either side; files of no segment and of three; a window of zero, so that probes are sent |
| `chat_server` | two clients, each with a chat message, that connect, fail, leave or go away in any order, while the server may be stopped |
| `chat_client` | three calls of `connectTo`, each connection ended by the user, the server, or both at once, and the program closed at any time |
| `chat_framing` | three frames: empty, short, as long as `MAX_PAYLOAD`, longer |
| `reset`, `wrap_receiver`, `implicit_ack`, `chat_join`, `chat_freed` | counterexamples: see the findings below |

**Properties of `CongestionControl` and `RetransmissionTimers`.**

* `RecoveryCounts`, `InflationMatchesDupAcks`: recovery is entered at exactly three
  duplicates and inflates the window by what came after, whatever comes between.
* `KeepsTrying`: while no ACK comes, each segment in flight is sent again at least
  once in the longest timeout, although a lost window doubles `rto_` once for each
  of its segments. So there are at least four tries in the 300 s before the sender
  gives up.
* `KeepsProbing`: while the window is closed and no ACK comes, probes go on at
  intervals of at most 60 s, through any number of openings and closings.
* `RtoCoversSample`: `rto_` is never below the round-trip time measured last (or its
  upper limit), also when the sample comes after retransmissions have doubled `rto_`
  or the estimate was far below.

**Properties of `DataTransfer`.**

* `DeliversReliably`: the two programs implement `ReliableDelivery`: the file is
  written in order, without a gap, and success means all of it is there. The sender's
  outcome is computed from `fin_complete_` and its having returned.
  It is checked in `transfer` and once more in the corners, where numbers wrap.
* `AckedAndCounted` is `AckedReceived` and `ProgressNotBehind`: what the sender takes
  for acknowledged, by number or by mask, in any order, the receiver has, and
  `bytes_acked_` counts it.
* `AcksConsistent`: of two ACKs neither contradicts the other, in whatever order they
  arrive. It is why the first segment of the window is never one that was already
  sacked.
* `NoWedge`: the `break` in the loop of `try_send_data` is never taken. It would
  stop the sender for good.
* `WindowRespected`, `NoOverflow`: the windows are respected at the sender and on the
  network, so that the receiver never throws a segment away for want of room.
* `SkippedMeansReset`: a hole in what was sent (a segment that could not be read)
  has cost a RST.
* `EndsOrResets`: the sender returns, or it has sent a RST.

**Properties of `Handshake`.**

* `SenderAgrees`: an established sender has the answer to its own SYN, whatever SYN+ACKs to
  earlier runs arrive.
* `AckAgrees`: a receiver that was established by an ACK agrees with a sender on both ISNs,
  whatever ACKs of earlier runs and rounds arrive. There is one exception, which the property
  names: an ISN of the receiver whose successor is a number that probes (0) or final ACKs
  (`FinalNumber`) of this client carry (`OtherNumbers`). For such an ISN agreement really is
  lost, in either of the two ways: TLC finds it at once when the exception is taken out, with
  probes and, at a window that is not zero, with final ACKs. The numbers of `MCHandshake` are
  chosen so that both happen, and that other ISNs are used too.
* `ClientHasConnected`: however the handshake was completed, by an ACK of whatever kind or
  by DATA, the client has completed one with the receiver, in this run of it or an earlier
  one; nobody else's packet does it.
* `HandshakeEnds`: both sides leave the handshake; the receiver may of course wait
  for a SYN.

**Properties of `Checksum`.** `ChecksumIsOnesComplement` compares the loop with the
arithmetic definition of the sum (modulo 2^16 - 1, with zero only for all zeros);
`RoundTrip`, `DamageRefused` and `ResizeRefused` say what `parse_packet` accepts. Two
damaged bytes can cancel out, so nothing is claimed of them.

**Properties of `ChatServer`.**

* `ExclusiveOwner`: a session is in `clients_`, or in the hands of exactly one thread
  that took it out and will delete it. So none is deleted twice and no broadcast
  visits a deleted one, although deletion happens outside of the lock.
* `JoinedBeforeFreed`: a session is deleted only when its thread has ended. Not so in one
  window, which `acceptLoop` opens: the session is in `clients_`, its thread may be running,
  and `thread_` has not been assigned yet, so the destructor finds nothing to join. The
  property says that there is no other such window, that `stop()` never deletes in it, and
  that it is closed once `stop()` has joined the accept thread. What happens in it is
  finding 5 (`FreedHasEnded`). `AssignThread` assigns to the object whether it has been
  freed or not, as the code does.
* `QuietAfterStop`, `StopReturns`: `quit` ends the server, and then no thread uses it;
  both except where threads wait for each other in `join` (finding 4), and
  `QuietAfterStop` also when a thread runs on in a session that was freed (finding 5).
* `NobodyStuck`: apart from those join cycles, a thread that waits for the mutex or in
  `join` waits, directly or through others, for one that goes on: never in a circle, and
  never for a thread in an `accept` or `recv` that may not return. A set of threads all of
  which rest or wait for a member of it has no waiting member. (`Rests` and `WaitsFor`
  together are exactly the threads without a step of their own.)
* `LeaveAnnounced`: a client that vanishes while its session is at `recv` is announced
  to the others, whatever else is going on.
* `HearsInOrder`: the server implements `TotalOrderBroadcast`: everybody in the room
  hears the same messages in the same order and misses none.

**Properties of `ChatClient`.**

* `WindowAgrees`: when the messages are handled the button shows what `connected_`
  says, however the end of one connection overlaps with the next.
* `OneReceiver`, `SocketClosed`: no second receiver is started beside a first, and no
  connection that is up is forgotten.
* `UiReturns`, `LossIsShown`: the UI thread comes back from `join`; a connection that
  the server closes is shown as lost.

**Properties of `ChatFraming`.** `CarriesFrames`: the two functions implement
`FrameChannel`. Frames come out whole, in the order in which they went in and each once; a
payload that is too long leaves no trace; and neither end fails before the connection does,
so what `recvFrame` takes for a header is never a piece of a payload. `AllArrive`:
everything that was sent arrives, unless the connection breaks.

**Bounds.** Four segments are one more than the receive window, so that the window
must move, and enough for a gap, segments on both sides of it and two gaps
retransmitted for one ACK. `cwnd` counts whole segments in these runs (`Unit` = 1)
and reaches 8, beyond every window, so that it is in turn the smallest and the
largest of the limits. `MaxDupAcks` = 4 passes the threshold of three. One
retransmission stands for the limit of 15 (two in the corners), one or two FINs for 5:
only the comparison with the limit matters. `MaxBytesAcked` is 8 in `transfer`, twice
the file, and 0 where progress is not looked at, which takes the counter out of the state. In the wrapping corner `SeqMod` = 16
stands for 2^32.

For the timers the units are few: the longest timeout is 4 of them, twice the initial
one and four times the shortest, the probes come after 1, 2, 3 units, and the connection
is given up after 11, long enough for a segment to be sent again twice and for three
probes. Three segments are the fewest with an expired segment between two others.

In `Handshake` two attempts stand for five: one that is repeated and one that is the
last. Two ISNs allow the receiver two rounds with each client, so that one is old; two rounds
(`MaxRounds`) in two runs of the receiver (`MaxReceiverRuns`) are an old one and the one at
hand, of the same client or of two, in the same run or not. `SeqMod` = 8 makes the number
after the ISN 7 that of a probe and of the final ACK of the file of three segments. With
base 4 a word has 16 values, and three bytes of payload give both an odd and an even
number of them and several carries. Two chat sessions are the fewest that can remove
each other; the theorems about the server hold for any number. Three connections are the
fewest where the second one has both a predecessor and a successor. A byte of base 2 and a
`MAX_PAYLOAD` of 2 make a length with two significant bytes.

**Fairness** (`FairSpec`). The sender's loop never blocks for more than 50 ms, so
some step of it always follows (weak fairness of `SenderStep`). Time passes, so
the timer of the segment at `base_seq` and the timer of the FIN run out when
they are looked at again and again (strong fairness of `BaseExpires` and
`ResendFin`; strong because they are looked at once in every round of the loop).
Another retransmission of the base segment restarts its timer, but counts
towards the limit too. Nothing is assumed of the network, of the receiver or of
the global timeout: `EndsOrResets` holds even if each delivers ACKs for ever
and `GLOBAL_TIMEOUT_MS` never runs out. That the transfer *succeeds* on a network
that delivers often enough is not claimed: a sender may run out of FIN retries.

Of `ChatServer`: every thread goes on when it can, and `recvFrame` returns when the socket
was closed or the client has gone. Nobody has to connect, to talk, to leave or to type
`quit`. That a send does not block for ever is an assumption about the clients: they
read what they are sent. The code does not make sure of it: the send is under the
mutex, without a timeout.

Of `ChatClient`: both threads go on when they can, and `connect` returns. The user and
the server need not do anything. Of `ChatFraming`: both ends go on as long as the
connection lets them.

The fairness of `Handshake` is weak fairness of `Retry` and `RepeatSynAck`: every
wait of the handshake but the one for a SYN is limited by `HANDSHAKE_TIMEOUT_MS`.

`CHECK_DEADLOCK` is off for `Handshake`, where the receiver may wait for a SYN when
no sender is left, for `ChatFraming`, where
the bound on the calls or a reset ends a behaviour, and for `ChatServer`, whose threads
end. It is on everywhere else; `Finished`, `Returned`, `Parsed` and `Ended` are the states in which
a program has stopped.

## Findings

1. **`ResetIsFinal`** (`reset`): when the retransmission limit is passed the sender
   sends a RST, but neither closes the connection nor stops sending.
2. **`NextExpectedInWindow`** (`wrap_receiver`): near 2^32 the upper edge of the
   receive window wraps and the expected segment is refused.
3. **`DataAgrees`** (`implicit_ack`): any DATA from the client's address completes the
   handshake. If the receiver is in a round that an old SYN of an earlier run
   opened, DATA of a sender established by another round completes it, and the
   receiver discards all that follows as out of its window.
4. **`NoJoinDeadlock`** (`chat_join`): the comments of `chat_server.cpp` (lines 88 and
   107) say that deleting outside of the lock avoids a deadlock. But a broadcast runs on a
   session's own thread and visits that session too: if the send to it fails, the thread
   joins itself; and two sessions that remove each other join each other.
5. **`FreedHasEnded`** (`chat_freed`): the comment at `chat_server.cpp:153` says that the
   destructor of a session makes sure its thread has ended. But `acceptLoop` has the session
   in `clients_` before `start()` has assigned `thread_`: the thread may already run, and if
   its JOIN cannot be sent to it, or another's broadcast cannot, the session is deleted
   without a join. The thread goes on with its members freed, and `acceptLoop` assigns
   `thread_` to the freed object.

The second needs an ISN within one file of 2^32; the ISN is a hash, so a long file
makes that likely enough to matter. The sender has the same defect: `handle_ack`
takes an acknowledgement number that has wrapped for an invalid one. The corners
`wrapped` and `highest` of the run `corners` show that this costs progress, never correctness; the theorems about
`DataTransfer`, which hold for every ISN, prove the latter.

Remarks without a run:

* An old SACK re-creates an entry that was erased (`get_segment`), so `bytes_acked_` may
  count a segment twice and the percentage run ahead; it is never behind.
* The comments in `sender.cpp` (lines 30 and 766) speak of a global timeout of 30 s; the
  constant is 300000 ms. The one before `handle_timeouts` (line 526) names
  `DATA_TIMEOUT_MS`; the code compares with `rto_`.
* The persist timer starts at 5 s but the backoff is incremented before the interval is
  computed, so the probes follow after 5, 10, 20, 40, 60 s.
* When the server ends a connection the client leaves its socket open until the next
  `connectTo` or the end of the program, for `disconnect` finds `connected_` false;
  `src/lab1/README.md:86` says that closing the window closes it.
* A click on the button after the receiver has cleared `connected_` but before its
  message is handled connects again, although the button still says disconnect.
* A session is in `clients_` before its HELLO, so a client hears broadcasts before it has
  joined (`src/lab1/README.md:21` says otherwise); one that fails before its HELLO stays in
  the list until a broadcast finds it. Frames of other types are ignored, not answered by
  closing the connection (`src/lab1/README.md:24`).
* A session that leaves by itself is taken out of the list and never deleted.

## Proofs

`tlapm` checks the eight proof modules completely. Constants are arbitrary, subject to
the assumptions named in the modules (`CongestionAssumption`, `TimersAssumption`,
`SendWindowAssumption`, `ReceiveBufferAssumption`, `DataTransferAssumption`,
`HandshakeAssumption`, `ChecksumAssumption`, `ChatServerAssumption`, `ChatClientAssumption`,
`ChatFramingAssumption`). Those of the
transfer say that windows fit the SACK mask, which the constructors enforce with
`std::min`; that the bound `MaxCwnd` is wide enough to hold a whole window; and
that a file, with a mask behind its end, has fewer segments than there are sequence
numbers. Those of the timers say
that the initial and the shortest values are not zero and not above the longest. That of
the packet format says that the length of a payload is a word: `MAX_PAYLOAD` is 1460, a
word holds 65535.

**CongestionControl.** `CongestionTypeOK` is inductive; `RecoveryCounts` is
inductive relative to it; `InflationMatchesDupAcks` relative to both (a duplicate
ACK inside recovery adds one to both sides, one that enters it sets the count
to exactly three).

**DataTransfer.** The theorems hold for every initial sequence number, so also for a
transfer whose numbers wrap anywhere in the file. `handle_ack` and `ReceiveBuffer`
compare absolute numbers without regard to wrapping, and the proofs show that this never
makes anything wrong, only progress is lost: two relative numbers are never the same on
the wire (`AbsInjective`); one step more is one step more there (`AbsPlus`); an
acknowledgement number that passes the sender's test has not wrapped (`AbsAboveIsn`,
`ValidAck`); and a segment that passes the receiver's test is one of the next
`RcvWindow`, wherever the edge of the window has wrapped to (`InWindowMeans`).

The properties are not inductive. The invariant `Inv` is

* `TypeOK`,
* `ReceiverInv`: what is written is a prefix, `expected_seq` is the number after it on
  the wire,
  and what the buffer holds are segments of the file between the next but one and
  the upper edge of the window;
* `WindowInv(w, n, R)`: relative to the number `n` of segments written and the set
  `R` received, `base_seq` is at most `n + 1`, what is marked acked is in `R`, what
  is marked sent lies below `next_seq`;
* `NetInv`: every DATA packet is a true segment below `next_seq`; every ACK is
  `Truthful` (its number is at most `n + 1`, its mask names members of `R`); a FIN
  means that all is written;
* `ControlInv`: the closing states of both programs presuppose the same;
* `WindowRespected`.

The predicates are relative to `n` and `R` because handling an ACK passes through
intermediate windows, and because receiving a segment enlarges `n` and `R` under an
unchanged sender: `WindowInv` and `NetInv` are monotonic in both. The proof has a
lemma for each operator of `SendWindow`, one for `HandleSack`, and one for each
action. `AcceptData` is the long one: the run that is extracted is shown, by the
well-ordering of the naturals, to be the next stretch of the file.

**ReliableDelivery.** With `Inv` at hand every step of `DataTransfer` is one of
`ReliableDelivery` or leaves it alone: `written` grows by what `AcceptData` extracts,
which `Inv` says is the next stretch of the file, and the sender succeeds only in
`HandleFinAck`, where it says that all is written. `AcksConsistent` is inductive
relative to `Inv`: of two ACKs of which neither says more than the receiver has, a new
one names as missing only the segment the receiver still lacks, which no earlier mask can
name, on the wire no more than in the file. `SkippedMeansReset` needs that entries once sent stay sent or are left of the
window. `ProgressNotBehind` follows each call of `handle_ack` through its two
credits: what the window says is acknowledged (`Acknowledged`: its marks, and all left of
its edge) never grows by a segment that is not credited, and moving the edge adds none.
`AcksTakenRight` joins it to `AckedReceived`, which is a part of `Inv`.

The last section is about going forward, again from `Inv`, with one more invariant:
`AtEdge`, the edge of the window is the first segment not acknowledged, and nothing left of
it is kept as sent. That is what the loop in `advance_base_seq` is for, and it is needed
because `set_base_seq` and `get_segment` erase and create entries of the map. From it follow
three action properties. `NothingForgotten`: no ACK, however old, takes back what another
said. `RetransmitsOnlyMissing`: whatever makes the sender send a segment again, it is one
that is not acknowledged after that step. `EdgeKeepsCounting`: `base_seq` and the
retransmissions of the segment there only go up, and a timeout of that segment takes them
up, or a RST is sent. Since both are bounded this is the variant of `EndsOrResets`; only
that the timers do run out is left to the model checker.

**RetransmissionTimers.** `TimersInv` adds to the types

* `Ages`: a segment in flight is never older than the limit of `rto_`, but for the unit in
  which it is about to be looked at. That is where the doubling could hurt, and why the
  scan is modelled segment by segment;
* `QuietTime`: the quiet time of a segment is made up of its tries, each of which pays for
  `MaxRto + 1`, and of its age; `Idle`: the clocks of the others stand at zero;
* `ProbeTime`: the time since the last ACK and what is left of the persist timer are made
  up of the probes, each of which pays for `MaxProbe`;
* `RtoCoversSample`, from the arithmetic of `update_rto` (`UpdateRtoCovers`): what the old
  estimate is short of the sample, the deviation makes up for.

The library has no theorem that 2^b is not zero; it is the number of subsets of a
set of b elements (`PowerOfTwo`).

**ChatServer.** `Ownership` says where each thread is in its deletions (`Places`,
`Victims`), that a session being accepted is nobody's (`Newborn`), that a broadcast visits
members of `clients` (`Iteration`), and `ExclusiveOwner`. `JoinedBeforeFreed` rests
on `Assigned`: a session that is alive has its `thread_` assigned, or is the one `acceptLoop`
has in its hands, and it has none once `stop()` has joined it; so a deletion waits for the
thread, or is that of the newcomer. For the refinement of `TotalOrderBroadcast`, `HeardSoFar`
says that during a broadcast those already visited have heard one message more than
those in `todo`, and everybody the same otherwise, and `NotYetGone` that a session says
farewell once: so a message is published only when all have caught up.

**ChatClient.** `ClientInv` is `Types`, `Receivers` (what `joinable` and the place of the
receiver have to do with each other and with the UI thread), `Sockets` (the same for the
handle and the connection), `Messages` (the last message in the queue, or what is
shown when it is empty, agrees with `connected`, unless one is about to be posted) and
`Budget`, which bounds the queue.

What `UiReturns` says without time is `JoinEnds`, where the UI thread waits for the receiver
`recv` fails, and `CountsDown`, away from the message loop each step of either thread makes
`ToGo` smaller, so there are at most 54 of them. What `LossIsShown` says without time is
`ShowsTheTruth`: when both threads have come to rest and the messages are handled the button
shows whether the connection is up, not only what `connected_` says of it. It needs
`EndedMeansOff`: the receiver does not end with `connected_` set, unless `disconnect` is about
to clear it.

`QuietAfterStop` needs a second invariant, `Shutdown`, which says that the shutdown loses
sight of nothing: a session object that is alive is in `clients`, in the hands of a
thread that deletes it, about to be pushed by `acceptLoop`, or its own thread has left
the loop (`Accounted`); a thread that has sessions to delete is on the way to it
(`Busy`); `stop` takes the list when `acceptLoop` has ended, so it stays empty
(`Emptied`); and a thread that has ended has closed its socket (`SocketsClosed`).

`NobodyStuck` needs `Unblocked`: the listening socket is closed when `stop` waits for the
accept thread (`ListenClosed`), the sockets of sessions are closed when one of them is being
deleted (`ForcedClosed`), and a thread that can be joined has been started (`Started`). So a
thread that is waited for does not rest; who holds the mutex is in its broadcast and waits
for nothing (`HolderGoesOn`); what is left are threads in `join` that wait for threads in
`join` (`OnlyJoinsBlock`), and a set of these that is closed is a join cycle.

**ChatFraming.** What has been received of the current call of `recvAll`, what is on the
way and what `sendAll` still has to send are one tape of bytes. `Aligned`, the heart of
`FramingInv`, says that there are offsets at which the frames from the one being received
to the one being sent lie on the tape, one behind the other, the first at zero or, once
its header has been read, a header's length before the tape; the last reaches as far as
the sender has got. Every step moves bytes within the tape, takes a header or a payload
off its front (the offsets shift) or puts one at its end (one more offset). What is read
as a header is then the header of the next frame, so its length is right, and what is
delivered is that frame.

For `CarriesFrames` every step is mapped: the call of `send` that empties `out` for the last
time is `Put`, the step of the receiver that delivers is `Take` (`HeaderTakes` for a frame
without a payload, `PayloadTakes`), `Reset` is `Break`, the errors are `Fail`; `InStep` is why
no other step of the receiver fails. `RestsWhenDone` is what `AllArrive` says without time:
if no call of `sendFrame` is in progress and `recvAll` waits for bytes on a connection that is
up, the tape is empty and every frame has been delivered.

**Checksum.** The sum is a recursive function, and the library's induction theorems
cannot be used; that `Sums` is the function its equation describes, and what it computes,
is shown by the smallest counterexample: of the arguments for which a statement fails
there would be a least one (`Smallest`, from the well-ordering of the naturals), and the
one before it is a contradiction. `Represents(s, t)` relates the 16-bit sum `s` to the
number `t` the words add up to: they are equal modulo 2^16 - 1, and one is zero exactly
when the other is. `RepresentsStep` shows that one turn of the loop keeps it. So a datagram
is accepted exactly when its total is a multiple of 2^16 - 1 and not zero (`FullSum`,
`TotalRefuses`); what was serialized has such a total, and another byte changes it by less
than 2^16 - 1, but not by zero (`ByteChangesTotal`). Of a datagram of another length, the
length field is what it was (`ParseResized`).

**Handshake.** The invariant `HInv` says what each packet proves: a SYN+ACK belongs
to a round in `rounds` (`SynAckInv`), an ACK or DATA comes from the endpoint of a
sender that has completed a round (`AckInv`, `DataInv`); the number of an ACK is the
successor of that round's ISN, or else one of `OtherNumbers`; and what a sender or the
receiver holds is a round (`SenderInv`, `ListenerInv`). `AckAgrees` follows because different
ISNs have different successors, also at the wrap (`SuccessorsDiffer`), and no client has two
rounds with the same ISN (`RoundsDiffer`): the round of the ACK's sender and that of the
receiver are the same one. `DataAgrees` fails for want of just this: DATA names no round.
A step that completes nothing is dealt with once (`QuietSender`, `QuietReceiver`): what it
may send is named by `Later`. The bounds `MaxRounds` and `MaxReceiverRuns` are constants, and
the theorems hold for all values of them.

| Theorem | Property |
|---|---|
| `CongestionTypeCorrect`, `RecoveryCountsCorrect`, `InflationCorrect` | `CongestionTypeOK`, `RecoveryCounts`, `InflationMatchesDupAcks` |
| `InvAlways`, `TypeCorrect` | `Inv`, `TypeOK` of `DataTransfer` |
| `WritesPrefix`, `SuccessIsDelivery` | `PrefixWritten`, `SuccessMeansDelivered` |
| `AckedIsReceived`, `NeverWedged`, `RespectsWindow` | `AckedReceived`, `NoWedge`, `WindowRespected` |
| `NeverOverflows` | `NoOverflow`, for a window that is not zero |
| `ImplementsDelivery` | `DeliversReliably` |
| `AcksAgree`, `SkippingResets`, `ProgressKeepsUp` | `AcksConsistent`, `SkippedMeansReset`, `ProgressNotBehind` |
| `AcksTakenRight` | `AckedAndCounted`, which is `AckedReceived` and `ProgressNotBehind` |
| `WindowAtEdge`, `NeverForgets`, `ResendsOnlyMissing`, `TimeoutsAddUp` | `AtEdge`, `NothingForgotten`, `RetransmitsOnlyMissing`, `EdgeKeepsCounting` |
| `NeverSilent`, `ProbesGoOn`, `TimerCoversSample` | `KeepsTrying`, `KeepsProbing`, `RtoCoversSample` |
| `HandshakeTypeCorrect`, `SenderAgreement`, `AckAgreement`, `ConnectedClients` | `TypeOK`, `SenderAgrees`, `AckAgrees`, `ClientHasConnected` of `Handshake` |
| `OnesComplementChecksum`, `ParsesWhatWasSent`, `RefusesDamage`, `RefusesResizing` | `ChecksumIsOnesComplement`, `RoundTrip`, `DamageRefused`, `ResizeRefused` |
| `TypeCorrect`, `OneOwner`, `EndedBeforeFreed`, `QuietWhenStopped`, `NoneStuck`, `BroadcastsInOrder` | `TypeOK`, `ExclusiveOwner`, `JoinedBeforeFreed`, `QuietAfterStop`, `NobodyStuck`, `HearsInOrder` of `ChatServer` |
| `AlwaysFraming`, `FramesStayInOrder`, `ReceiverStaysInStep`, `NothingLeftBehind`, `ImplementsFrameChannel` | `FramingInv`, `FramesInOrder`, `InStep`, `RestsWhenDone`, `CarriesFrames` of `ChatFraming` |
| `ClientTypeCorrect`, `SingleReceiver`, `NoSocketLost`, `WindowIsRight`, `WindowTellsTheTruth` | `TypeOK`, `OneReceiver`, `SocketClosed`, `WindowAgrees`, `ShowsTheTruth` of `ChatClient` |
| `JoinsEnd`, `ReturnsInBoundedSteps` | `JoinEnds`, `CountsDown` of `ChatClient` |

**Only model-checked:** liveness, for the prover has no rules for fairness and ENABLED:
`EndsOrResets`, `HandshakeEnds`, `StopReturns`, `LeaveAnnounced`, `UiReturns`, `LossIsShown`
and `AllArrive`. For all of them but `HandshakeEnds`, which is a counter of attempts, the
part that is not about fairness is a theorem: `EdgeKeepsCounting`, `NobodyStuck` (twice),
`JoinEnds` and `CountsDown`, `ShowsTheTruth`, `RestsWhenDone`. The properties in `MCCorners`
are those of `DataTransfer` for four values of the constants, and the theorems those for
all values.

## Not modelled

* **Command lines, logger, statistics:** arguments, printing and arithmetic on time stamps.
  Of the statistics `bytes_acked_` is in `DataTransfer`, because it is kept by the
  protocol's handlers.
* **The window of `lab1`:** controls, layout and text; the conversions between UTF-16 and
  UTF-8; chat lines, which only pass through.
* **`lab3`** and the build products: no behaviour.
* **Rounding of doubles** in `update_rto`, and in the congestion window below `1/Unit`.
* **The FIN timer** in units of time: in `DataTransfer` it expires by choice.
* **An ISN that repeats** for one client, by chance or because the salt of a later run of the
  receiver makes up for the clock.
* **One model of a whole connection,** `Handshake` followed by `DataTransfer`. The first
  already lets whatever a transfer sends come into a handshake, and the second starts
  with the handshake's packets still under way, so what a composition would add is the
  state in which an established sender meets a receiver that has given up, or is in
  another round; finding 3 shows how that comes about, and the properties of the second
  then say nothing, for they are about one pair of ISNs. This is what a next step would
  be about.
