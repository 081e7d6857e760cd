# The vxi11 library in TLA+

This directory models the Rust library `vxi11` (a VXI-11 client for bench
instruments: ONC RPC over TCP and UDP, a port mapper client, the VXI-11 core
channel, three instrument drivers, a UART decoder, and programs that use them),
checks the models with TLC on small instances, and proves theorems about all
of them with TLAPS. `PROJECT.json` lists the runs,
the definitions with the source lines they stand for, the mutants each property
catches, the hazards, the findings and the theorems.

## The system

| component | state | operations | interacts with |
|---|---|---|---|
| `rpc/tcp_clients.rs` `TcpClient` | stream, `lastxid`, packer, unpacker | `connect`, `do_call`; callers take an xid and pack first | the server over a TCP stream; its callers read the unpacker after `Ok` |
| `vxi11/mod.rs` `CoreClient` | a `TcpClient`, `opt_link` | `new`, `create_link`, `write`, `read`, `ask`, `destroy_link` | the port mapper, in `new`; one instrument, which other clients use too |
| `devices/*` `SDS1202X`, `SDG2042X`, `SPD3303X` | a `CoreClient`, a throttle, a cached state | `new`, `ask`, `Drop`; gets, sets and operations of several asks | the caller, who may drop it at any time; other clients of the instrument, between asks |
| `rpc/udp_clients.rs` `UdpClient` | socket, `lastxid`, buffer | `do_call` | one server over datagrams |
| `rpc/udp_clients.rs` `BroadcastUdpClient` | socket with a timeout, `lastxid` | `start_call`, `make_call` | every server on the network |
| `rpc/port_mapping` | a TCP or UDP client | `get_port`, `dump` | the port mapper |
| `xdr.rs`, `*/xdr_pack.rs`, `rpc/xdr_unpack.rs` | a byte buffer | pack and unpack of words, booleans, opaque data; messages | the other end of the wire |
| `devices/sds1202x/protocol_decode.rs` | local to `uart` | `uart` | samples of an oscilloscope channel |
| `bin/` | counters, records | capture loops over the devices, and what they compute of a capture | an oscilloscope and its trigger |
| `utils.rs` | -- | a least squares fit | not modelled |

The library has no threads of its own: a client object belongs to one thread.
What is concurrent is the world around it. A server may answer late, twice, in
pieces or with an error in the reply header; a connection may end between any
two steps, also after a call was executed and before its reply was read;
datagrams are lost, repeated and reordered; and several clients, in this or in
other programs, use one instrument without locking it (`lock_device` is always
false). None of this is exercised by a test: the repository has none.

What makes each component correct:

* TCP client: `Ok` means this call's own reply, whole; nothing is left behind
  that a later call could mistake; an error may hide an execution only when the
  connection was lost.
* Core client: an `ask` returns the answer to the command it wrote; a `write`
  that returns `Ok` was taken; no command is repeated; one link per client.
* Devices: a device in its caller's hands owns the link it names, its asks are a
  session of their own with the instrument, and the instrument gets every link back.
* Operations: a value that is returned was true of the setting it was asked for; `Ok`
  means that the setting was as commanded; a capture is one acquisition.
* UDP clients: stale, repeated and cut datagrams are never taken for answers;
  one datagram too many does not multiply.
* XDR: what one end packs is what the other unpacks, in order, to the last byte,
  however it is cut on the way.
* UART and the comparison of channels: the bytes on the line are the bytes returned;
  the delay between two channels is the delay recorded.

## Modules

    RpcCall  <--refines--  TcpClient
       :  (assumed by)
    CoreClient  <--extends--  Device  --refines-->  Session
                                                       :  (assumed by)
                                                   Operations
    UdpClient      BroadcastClient      Xdr      Uart  <--extends--  Compare

    Remainders  <--  TcpClientProofs, UdpClientProofs, BroadcastClientProofs
    DeviceProofs (and CoreClient's)    OperationsProofs    XdrProofs    UartProofs (and Compare's)

Every `MC*` module extends one of the upper group, names the values that a `.cfg`
cannot write, and the symmetry. Every `*Proofs` module extends the module it is named
after; `DeviceProofs` also has the proofs about `CoreClient`, which `Device` extends, and
`UartProofs` extends `Compare`, which extends `Uart`.

**`RpcCall`** is the abstract synchronous call. A call is begun, executed at
most once, possibly after its caller has given it up, and ends with `Err` or
with `Ok` on the answer to an executed call: this one, or one at least `XidMod`
calls older, which 32-bit xids cannot tell apart.

**`TcpClient`** is `do_call` with what its callers do before it (`lastxid += 1`,
pack). One action is one fragment read or one branch of the comparison of xids,
so the server and the connection interleave at every blocking read. A reply is
`ReplyLen` words, each of which remembers its reply, so that a record made of
pieces of two replies would be seen. `calls` and `executed` are history
variables. `overflow_checks`, one of `Builds`, is the build that runs: a debug
build, where an overflowing `lastxid` panics, or a release build, where it wraps.
The server answers in the order it reads, may send its latest reply again
(`MaxDups` times), and may refuse a call in the header.

**`CoreClient`** has any number of clients, each waiting in at most one call, and
the instrument they share. `do_call` is one step here, as `RpcCall` allows: the
reply is delivered, or `CallFails`. The model assumes a server that repeats no
reply, so that a call that failed on a live connection was not executed
(`TcpClient!ErrMeansNotExecuted` is what justifies that). The instrument is
external and is modelled by what the client relies on: it gives out link ids
(which may come back: `RecyclesLinks`), answers an invalid id with error 4, takes
a write whole or not at all, answers in any number of pieces, or not at all, and either
drops unread output at the next command or keeps it (`keeps_output`, both kinds in
`core_safety` and `device_life`). The id in a `create_link` reply that says error
is any of `ErrorLinks`.

**`Device`** restricts the use of a `CoreClient` to what `new`, `ask` and `Drop`
do. It adds two variables and conjoins them to `CoreClient`'s actions: `session`,
where a device is in its life, and `port`, what its client is connected to.
`CoreClient::new` takes a port mapper's `u32` and connects to its lower half, which
may belong to another service (whose refusals are `CallFails`) or be 0; dropping the
`CoreClient`, whatever the reason, closes the connection in the same step. In its runs
`ErrorLinks` are the valid ids themselves and ids come back, which the bare
`CoreClient` does not survive (below).

**`Session`** is what a device promises its caller: one ask after another, each taken
by the instrument at most once and while it lasts, and answered with the oldest answer
given to this session and not read, or failed. `Device!ImplementsSession` is the
refinement. In it `new`'s `*IDN?` is the first ask, and the unread answers are those the
instrument holds for the device's link and the one in a reply on its way.

**`Operations`** is every get, set and operation of the three devices, and the capture
loops of the programs, as the sequences of asks they make (`Plan`) and how an answer
changes what is left (`Rest`: `wait` asks again, `set_output` acts on a difference,
`enable_output` selects the channel first). It takes an ask from `Session`: `Take`, then
`Answered`, `Misanswered` or `Fails`, with other clients and the trigger between any two
of them. Values are members of small sets and a waveform is the number of its
acquisition; of the regular expressions only what they let pass is kept (`Parses`,
`Outcomes`): the form of an answer and not its channel, any text for `SAST?`, an
`unwrap` that panics, a `?` that returns. `held` remembers how the instrument has been
since the operation began, so that a property can say "at some moment of the call".

**`UdpClient`** is `UdpClient::do_call` with `UdpPortMapperClient::dump`. The
network is a set of requests that wait to be answered, lost or refused, and the
socket's buffer. `Builds` has the same meaning as in `TcpClient`, here and in
`BroadcastClient`.

**`BroadcastClient`** is `BroadcastUdpClient`; what it prints is kept in a set. A lost
datagram is one that is never served, or finds the socket's buffer full. `send_to` may
fail, after the xid was taken (`SendFails`). `while let Ok(..)` ends the receive loop with
`Ok` at the timeout (`TimeOut`) and at any other error of `recv_from` (`ReceiveFails`);
the history variable `interrupted` tells the two apart, as the code does not.

**`Xdr`** is `Packer` and `Unpacker` byte by byte, with each message as the
sequence of its fields; a behaviour packs one message, sends it, and unpacks it. It is
sent as a datagram, whole or cut after any word (the buffer of 8092 bytes is a
multiple of four), or on a stream: `do_call` marks it as one fragment, a server as one
or as two, cut after any byte. `ReadFragment` reads as `do_call` does, in whole words, so
a fragment that ends inside a word is read past its end; `cut` remembers that, and how
it ends is left to the words that happen to follow.

**`Uart`** runs the decoder on captures made from known frames, so that its result
can be compared with what was on the line: `SendFrame` puts a frame on `line`, after the
end of an earlier one and a rest, and `Capture` samples the line, with late falling edges
and ripple, or takes an empty capture. Then come the phases of `uart`: `Measure`, one
`Scan` for each sample, `ToPulses`, `Search`, and one action for each branch of the loop
over the pulses and their symbols. `overflow_checks` is the build that runs.
`samples_per_symbol` is an integer (the code's is an `f32`); samples wrap as `i8`,
bytes as `u8`, and division rounds to zero as in Rust.

**`Compare`** is what `02_oscillator_compare` computes of two such channels: the
midpoint of channel 2 as an `i8`, the test that the edge is in view, and the two
crossings.

## Runs

| run | question | bounds |
|---|---|---|
| `tcp_safety` | is `Ok` right and, when overflow panics, exact; is anything left behind; does `do_call` return, and does it implement `RpcCall`? | both builds, 4 calls, 3 xids, replies of 2 words in 1 or 2 fragments, 2 repeats |
| `tcp_stale_error` | finding 1 | |
| `core_safety` | are asks, writes and links right in any order of use? | 2 clients, 2 links, 3 operations each |
| `core_already` | finding 2 | |
| `device_life` | are they right, with ids that come back, as the devices use them; do devices implement `Session`; are links given back? | 2 devices, 2 links, 5 and 3 operations; a port mapper that answers 0, the port, a number of which it is the lower half, or another's port |
| `operations_interleaved` | do operations return true values and do what `Ok` says, are captures fresh, and do they return? | 2 clients, each model, 2 operations on an SDS1202X and 3 on the others, 1 failed ask for each client, 2 acquisitions |
| `udp_dump` | is `dump` right, and when does it block? | both builds, 4 calls, 3 xids, 2 repeats |
| `broadcast_safety` | is what is kept right and complete? | both builds, 2 servers, 4 calls, 3 xids, 1 repeat, a socket that holds 3 datagrams |
| `xdr_messages` | do both ends agree on every message? | 19 messages, opaque data of 0, 3 and 5 bytes; datagrams cut after every word, streams after every byte |
| `uart_captures` | are clean frames decoded, in both builds, and delays measured? | 2 frames, 5 signals, 4 samples a symbol, delays up to two symbols |
| `uart_idle`, `uart_zero` | findings 3 and 4 | |

Why the bounds are enough. With three xids the fourth call reuses the first one's, so
that a reply from before the wrap can be taken; in a debug build the third panics. Two
repeats are the first number at which one stale reply hides behind another. Two
fragments per reply are the first number at which a record could be put together
of two replies. Two clients and two links are the smallest instance in which an
id can be given to someone else, and three operations are create, use and
destroy; the fifth of the first device is there so that an answer left by one ask
can be read by another. In `operations_interleaved` the longest operation is six asks
long, and a client that meets another, or an answer it left behind, needs one
operation more; two acquisitions are the first number at which a capture could be mixed,
and one failed ask leaves the queue one answer out of step for all that follow. Two
frames are needed because the last is never decoded. The bytes of
`uart_captures` are the refused one (0), one whose eighth bit is low, so that the
stop bit is a pulse of its own (85), and one whose eighth bit is high, so that it
is not (170); the signals include levels whose sum wraps, and a swing that does.
`MaxCalls`, `MaxOps`, `MaxDups`, `MaxFails`, `MaxAcquisitions`, `MaxInbox` and `Frames`
bound the runs only; deadlock is not checked because a bounded client stops, as a caller
may.

Clients and servers are interchangeable, and symmetry is used in the runs that
check no liveness.

Fairness. `TcpClient!Fairness` has the thread in `do_call` run on and the server
answer (or the connection end). Nothing in the code justifies the second part:
the stream has no read timeout, so a silent server blocks the caller, and
`CallReturns` says only that the client's own loops do not. `CoreClient` states no
fairness. `Device` assumes that each call is executed or fails, that `new` goes on from
its connection to `create_link` and to `*IDN?` (it is one function; asks and the drop are
up to the caller), and that an instrument frees the links of a dead connection in the
end. `Operations` assumes of an ask what `Device` shows under that fairness, that it
returns or fails, and nothing of the trigger: a signal may never come, which is what
`WaitsOnlyForTrigger` leaves room for. `UdpClient` assumes something happens to each
request; its property excludes loss, which is what makes `recv` block.

### What the runs show about the code

1. `tcp_clients.rs:63` (`tcp_stale_error`): the error in a reply header is returned
   before the xid is compared. A repeated error reply fails the next call, and as
   that call's own reply is now the stale one, possibly the ones after it.
2. `vxi11/mod.rs:97` (`core_already`): `opt_link` is stored before the reply's error
   is looked at; a `CoreClient` whose `create_link` failed can neither use nor create
   a link.
3. `protocol_decode.rs:95` (`uart_idle`): idle symbols after a frame whose eighth bit
   is high are decoded as another byte.
4. `protocol_decode.rs:79` (`uart_zero`): the byte zero is refused.

Visible in the models, without a run of their own:

* The `expect` in each device's `Drop` panics when the call of `destroy_link` itself
  fails, because the connection was lost or the server refused the call in the header
  (`Device!Dropped`), and never because the instrument does not know the link
  (`DropIsNeverRefused`).
* Any late error reply ends a broadcast's receive loop
  (`BroadcastClient!RejectHeader`, `udp_clients.rs:99`), and any error of the socket ends
  it with `Ok` (`ReceiveFails`, `udp_clients.rs:97`).
* The stop bit after `0xFF` overflows `current_byte` in a debug build
  (`Uart!DataBitFails`, `protocol_decode.rs:97`).
* A record cut inside a word is read past its end, and `do_call` then takes data for a
  fragment's length and waits for it (`Xdr!ReadFragment`, `tcp_clients.rs:52`).
* On an instrument that keeps unread output, an `ask` whose read failed leaves its
  answer to the next `ask` of the same device, which returns it as its own
  (`Session!Return`). The parsers mostly cannot tell; `set_output` and `enable_output`
  are deceived about the state they find ("Already in the commanded state",
  `sdg2042x.rs:169`), and leave it. The properties of `Operations` are therefore about
  operations that begin with nothing unread (`clean`), and about instruments that
  drop it.
* `02_oscillator_compare.rs:96` says of the midpoint "This way avoids the overflow
  risk": that is true of the sum of the levels, but their difference overflows when
  the swing is more than 127. `OffsetIsDelay` is stated for those that fit.
* The channel is commanded as `INST 1` and answered as `CH1` (`Operations!Inst`);
  `oscillator_resonance` sets the offset of channel 1 twice and that of channel 2
  never (lines 40 and 41); the `?`s in the programs' loops skip the clean-up after
  them.

With ids that come back, `AskReturnsItsAnswer` is false of `CoreClient` used in any
order, as `destroy_link` keeps `opt_link` and a later `ask` would go to another client's
link. `core_safety` therefore has `RecyclesLinks = FALSE`; `device_life` shows the
property with `TRUE`, because a device is gone once its link is, and
`ImplementsSession` extends it to instruments that keep output: no device gets the
answer to another's command.

## Proofs

All theorems are for every value of the constants that the named assumptions
(`ConstantsAssumption`, `PortsAssumption`, `ReplyAssumption`, `RequestsAssumption`,
`NamesAssumption`, which TLC evaluates in the runs) allow. Each module has an inductive invariant, one lemma per action, and in it one
step per conjunct the action can disturb.

**`TcpClientProofs`**: `TypeCorrect`, `OkAnswerIsOurs` (`OkIsOwnAnswer`),
`OkLeavesNothingBehind` (`InSyncAfterOk`), `DebugBuildIsExact` (`ExactInDebug`),
`ErrIsNotExecuted` (`ErrMeansNotExecuted`), `LagIsBounded` (`LagBounded`) and
`Refinement` (`ImplementsRpcCall`).
`OkIsOwnAnswer` alone is not inductive: it says nothing of replies that are
still under way. `IInv` adds that requests on the way are to calls begun, in
order, with `lastxid` their number modulo `XidMod` (`ClientInv`, `RequestsInv`);
that each reply on the way is to a call begun, in order, older than every
request, carries that call's xid, and is to an executed call if its header says
so (`StreamInv`); that the fragments in the stream, after those in `record`, form
whole replies (`FramingInv`); and what `Ok` says of the unpacker (`OkInv`). The
refinement maps each step to `Begin`, `Execute`, `Succeed`, `Fail` or a stutter.
`IInv` was checked with TLC on the bounds of `tcp_safety` first.
`ErrIsNotExecuted` adds `StepInv`, that without repeats the only thing on the way is the
call under way, or its reply, and assumes `HonestHeaders`: a call that is executed is answered with a
`REPLY`. That assumption is needed. A header with another `mtype` fails the call,
whatever the rest of it says. `LagIsBounded` adds `LagInv`: on a live connection the
records in the stream and the requests not yet answered are no more than the repeats,
and one for a call that is being read. Records are counted by the places where one ends
(`Records`), and the proof by how a reply that is appended and a fragment that is read
move those.

**`UdpClientProofs`**: `TypeCorrect`, `ListIsOwn` (`OkIsOwnList`), `LagIsBounded`
(`LagBounded`), from `NumberInv` (every request and datagram carries the xid of a call
begun, of which a debug build makes fewer than `XidMod`) and `CountInv` (requests and datagrams together are no more than the repeats, and
one for the call under way). **`BroadcastClientProofs`**: `TypeCorrect`, `KeptAreOurs`
(`KeptAreAnswers`), `NoneIsMissed` (`OkKeptAllArrived`), from `NumberInv` and
`ArrivedInv` (what has arrived during the call is kept, or still in the socket, which is
empty when the timeout ends the loop).
**`Remainders`** has the facts on xids modulo `XidMod` that all three need.

**`DeviceProofs`**, about `CoreClient`: `TypeCorrect`, with `CallInv` (a reply on its way is of the kind
its call expects); `CommandsInOrder` (`TakenOnceInOrder`) and `ConfirmedIsTaken`
(`WriteOkWasTaken`), from `TookInv` (what was taken is older than a write that has not been executed);
`OneLink` (`OneLinkPerClient`), from `LinkInv` (a link held for a client that is up is
the one in `opt_link`, or in the reply that will put it there); and `AskIsAnswered`
(`AskReturnsItsAnswer`). That one rests on `AskInv`: between the write of an ask and its
read the output queue of the link holds an answer to that write and nothing else. It is
inductive only where a call that arrives on a live link is from the link's owner
(`Mine`), which `CoreClient` owes to instruments that give no id twice (`FreshIds`,
`OwnInv`).

About `Device`: `DeviceTypeCorrect`, `DeviceOwnsItsLink` (`OwnsItsLink`),
`DropOnlyLosesCalls` (`DropIsNeverRefused`) and `DeviceAskIsAnswered`. `DInv` ties the
call of each device to its session (`CallOf`) and says that while the connection is up
the instrument holds the link from the reply that names it until it has taken the
`destroy_link` (`HoldsInv`). With it `Mine` holds without `FreshIds`, and the lemmas
about `CoreClient` carry `AskReturnsItsAnswer` over to instruments that recycle ids.
`DeviceIsSession` is the refinement (`ImplementsSession`), on any instrument: each step
is `Ask`, `Take`, `Lose`, `Return`, `Fail` or `End` of the session of one device, or a
stutter, and leaves the sessions of the others alone (`OthersKeep`). `SessionInv` says what
the mapping needs: how many operations a device has begun at each point of its life, that
nothing was taken or is in the output queue before its first ask, and that it reads only
after its last ask was taken; `TookInv` of `CoreClient` gives that an ask is taken
once.

**`OperationsProofs`**: `ValuesAreTrue` (`ValuesWereHeld`), `PanicsAreStale`
(`PanicsOnlyWhenStale`) and `LagIsBounded` (`LagBounded`), for any operations, whatever
their asks. `QueueInv` counts the answers unread; `FreshInv` says that an operation that
began with nothing unread has nothing in the queue but the answer to the ask it is in,
and that this answer was true in a state that is remembered. `TypeCorrect` (`TypeOK`) is about the parsers: what an
operation asks is a query or command of its model with values that fit (`Asks`), the
instrument's answers fit their settings, and a parser lets pass only the kind of value
that was asked for, also from an answer to something else. `CapturesAreFresh`
(`CaptureIsFresh`) follows a capture through its asks, which arm, then wait, then read
(`InOrder`): while nobody else commands the trigger, the scope has acquired nothing since
it was armed, or one waveform and has stopped, and once the operation has been told so it
has stopped (`ArmedInv`); the waveforms read are that one (`CaptureInv`). `OkIsCommanded`
(`OkMeansCommanded`) is about the asks: `DutyInv` says of every setting an operation
promises that it has been as commanded, or that its command is still in `todo` and not
taken, or that the operation is looking at it and will command it unless the answer, true
if nothing was unread, says that it is. `RequestsAssumption` says that a device has the
operations of its own model, for a channel or for the whole device, which Rust's types and
the parameters of the functions see to.

**`XdrProofs`**: `TypeCorrect`, `FieldsAreRead` (`ReadsWhatWasPacked`), `WholeMessages`
(`WholeMessageUnpacks`) and `PanicsAreCuts` (`PanicsOnlyWhenCut`), for any 32-bit words
and any opaque data of any bytes. `PackOpaque` pads the buffer as a whole and
`UnpackOpaque` skips what makes the rest of it aligned; because every field begins at a
multiple of four, both depend on the field alone. `Enc` is what a field is packed as, wherever
it begins (`PackIsEnc`), and three lemmas say what the unpacker makes of it: followed by
anything aligned it is read back and the rest is left (`UnpackEnc`), cut short between two
words it is an error, or a panic if it is opaque (`UnpackCut`), and whatever the bytes are
the rest stays aligned (`UnpackTypes`). A word and its four bytes are the same number
(`ValueOfWord`), and `FragmentRead` is the same for a fragment with its length.
`ReadsWhatWasPacked` is not inductive by itself, as it says nothing of the bytes not yet
read: `Laid` gives the places between which the fields lie in the packer's buffer,
`ReadingInv` what the stream still has of it, and `UnpackingInv` that the unpacker has what
lies after one of those places, up to where the message was cut. `SizeInv` keeps the length
of a record to 31 bits. It rests on `MaxOpaque`: opaque data are at most 64 MiB, so that
every message fits into one fragment; `do_call` casts the length to a `u32` and sets its
highest bit without a look at it (`tcp_clients.rs:32`).

**`UartProofs`**: `TypeCorrect` (`TypeOK`), `DecoderCorrect` (`DecodesAllButLast`) and
`DelayIsMeasured` (`OffsetIsDelay`), for any number of frames, bytes, idle symbols, samples
a symbol, and signals. `DecodesAllButLast` speaks of the last state only; the inductive
invariant (`Invariant`) follows a capture through the phases of `uart`:

* `TypeInv`: where each frame lies on the line (`Laid`), that the samples are those of the
  line, and that transitions come in order. With it the place value stays one of eight
  powers of two, which is what `checked_pow` is for.
* `ThresholdsInv`: the capture shows both levels without ripple (`Extremes`), so that the
  thresholds are a fifth of the swing, rounded down, inside them; a sample is beyond a
  threshold only if the line is at that level, and is so without fail at its second
  sample after an edge, or at the first if the ripple is small (`Delay`).
* `ScanInv`: between two transitions found the line has one symbol, and each transition is
  in the symbol its edge begins, at most `Delay` samples after its start (`EdgesInv`); of the
  sample looked at last, the transition to its symbol is found, or is still late
  (`Looked`). At the end none is missing (`FoundInv`).
* `PulsesInv`: the pulses are what is between those transitions. As twice `Delay` is less
  than a symbol, the length of a pulse, rounded, is the number of symbols between its
  edges (`NextPulse`).
* `SearchInv`: the search does not pass the rest, and stops at the pulse that holds it,
  not at one of the frame before.
* `DecodeInv`: the symbols consumed say where the decoder is: at the start of a frame
  (`AtStart`), at its `i`-th data bit with the lowest `i` bits in `current_byte` (`InData`), at
  its stop bit (`AtStop`), or, in a pulse that holds the eighth bit as well, in the idle
  symbols after it, which the loop takes for bits of another byte and which `Clean` keeps
  too few to complete one (`PastStop`). `EndInv` is the conclusion.

The preconditions of the two properties (`Readable`, `Clean`, and a ripple that stays off
the rounded middle) follow the code: a swing below five has thresholds that no sample
crosses, a ripple of a fifth of the swing, rounded down, hides the first sample after an
edge, and with one sample a symbol a level may never be seen without ripple. The
conjuncts of the invariant were checked with TLC, on the bounds of `uart_captures` and on
captures with two, three and five samples a symbol, before they were proved.
`ConstantsAssumption` says of the signals that their samples fit in an `i8`, and that a
capture begins with less than a frame before the rest.

Only model-checked: all liveness (`CallReturns`, `LinksAreReleased`, `WaitsOnlyForTrigger`,
`WaitsOnlyForLost`), which is out of the prover's reach. Every invariant the passing
runs check is proved.

## Not modelled

The least squares fit (`utils.rs`): a closed formula over `f64`. Of the programs in
`bin/`, GPIO, time stamps, Fourier transforms, printing and the set-up before the loops
(one set after another). The programs in `examples/`: scripts of device operations, one
after another, with sleeps and the fit between them. The wording of commands and answers, beyond what the regular
expressions let pass; serialization; the throttle of `ask`, which is a delay; and the
asserts on caller input in `vxi11/xdr_pack.rs`.

## Plan

Done: `RpcCall`, `TcpClient`, `CoreClient`, `Device`, `Session`, `Operations`,
`UdpClient`, `BroadcastClient`, `Xdr`, `Uart`, `Compare`, and the proofs above.

What could follow:

1. A server that repeats replies under `CoreClient`, as `RpcCall` allows: then a command
   may be executed after its `ask` has failed.
2. `samples_per_symbol` as a fraction in `Uart`.
