# tache-rs: models, checks and proofs

TLA+ modules of the parts of tache-rs that keep state, the TLC runs that check
them on small instances, and TLAPS proofs for instances of every size.
`PROJECT.json` maps every definition to the source lines it stands for.

## 1. The system

tache-rs is a rule-based proxy under construction: a server process accepts
connections on configured inbounds, is to choose an outbound by rules, and
forwards. What exists today are the parts below; rules, outbounds and the
forwarding itself are traits or `unimplemented!()`.

| Part | Source | State it keeps | Operations | Hard about it | Correct means |
|---|---|---|---|---|---|
| SOCKS5 client | `protocol/socks/v5.rs` | TCP stream to the proxy, `proxy_addr`, the `BufReader` of `read_response` | `connect*`, `bind*`, `accept`, `read`, `write` | a peer that answers anything, or speaks early; no timeouts; fixed arrays and `as u8` lengths | nothing is asked before authorisation; packets fit; `Ok` only when granted; the stream is the far end's bytes |
| SOCKS5 UDP client | same | UDP socket, the TCP stream that keeps the association | `bind*`, `send_to`, `recv_from` | scatter read into two buffers, then two overlapping copies; loss, duplication, reordering | `Ok` only with one datagram's whole payload and address |
| SOCKS5 messages | `protocol/socks/socks5.rs` | none; positions in a byte stream | `read_from`, `write_to`, `serialized_len` of five messages | cut and foreign streams, lengths 0, 255, 256 | reader and writer stay in step |
| Server | `bin/local.rs`, `engine/mod.rs` | configuration, vector of inbound futures, accept queues, connection tasks | `main`, `launch_server`, `run`, `single_run_*`, connection tasks | polling order, one failure among many, ctrl-c at any moment, tasks on other threads | inbounds come up in order; each connection that said something is closed; the process ends when it must and says so |
| HTTP codec, date cache | `protocol/http/http.rs` | bytes read so far; a per-thread rendered date | `decode`, `encode`, `now` | segmented, pipelined and cut input; a clock that is set back, tasks that change threads | requests in order, no byte lost; a date the clock has shown |
| Configuration, DNS | `config.rs`, `dns_resolver.rs`, `context.rs` | the configuration, the resolver made of it | `load_*`, `get_dns_config`, `create_resolver`, `resolve` | derived key names, options that are absent or null; one bad entry of several; a configuration changed under its resolver | what is saved is what is loaded, and what the example shows takes effect |
| TUN device | `tuntap/` | remembered name, descriptors `tun` and `ctl`, an `Arc` shared by two halves | `new`, setters, `enabled`, `set_name`, `persist`, `split`, `into_raw_fd`, drops | system calls failing half way, descriptor numbers reused, other processes changing the same interface | no descriptor leaked or closed twice; the remembered name is the interface's; no step reaches somebody else's interface |
| Addresses | `utils.rs` | none | parsing, serialization, `to_socket_addrs` | two variants told apart by their text alone | host and port survive a round trip |

Interactions: `main` loads the configuration and hands it to `run`, which
resolves every listen entry (`utils.rs`) and makes one future per address; a
future decodes HTTP, SOCKS or nothing at all on each accepted connection and
ends in `run_rule`, which always fails today. The SOCKS clients, the codec of
`socks5.rs` and the TUN crate are libraries nothing calls yet.

## 2. Modules

### Socks5Addr, Socks5Client

`Socks5Addr` holds the sizes: `Writable` and `AddrLen` are `write_addr`,
`HEADER` the arrays of `MAX_ADDR_LEN + 3` bytes.

`Socks5Client` is one call of `connect*`, `bind*` (followed by `accept`) or the
UDP `bind*`. `pc` is the place in `connect_raw`, `password_authentication`,
`read_response` and `accept`; each action reads one answer and goes on to the
next write or returns (`Fail`). The stream from the proxy is a sequence of
units, a unit being what the code parses in one go. `read_exact` takes a unit
from the socket; `read_response` fills a `BufReader` with whatever has arrived
(`FillBuf`) and drops it, with what is left in it, when it returns. Lengths are
real, and the length bytes are taken modulo 256 as `as u8` does. The proxy and
the far end are external: they answer with any combination of field values the
code tells apart, may close at any time, and the far end may send at once
(`early`, a fact about the far end that is chosen initially) or only after it was
written to. `proxy_addr` is the number of the reply it came from.

Two simplifications on the proxy's side. A reply and its address arrive in one
step (`SendReply`); a proxy that goes away between them is a call that fails, which
`IoError` allows everywhere. And the second reply of a BIND does not come before
`bind` has returned (the guard of `RemoteConnects`): the far end connects to the
address `bind` returns, which the caller is told to forward before it calls
`accept` (`v5.rs:394-403`). A proxy that sent both replies back to back would have
the second swallowed by the `BufReader` of the first, and `accept` would wait for
it; `CallReturns` and `SuccessIsGranted` say nothing of such a proxy.

### Tunnel

What a `Socks5Stream` promises its user, without the protocol: a tunnel is opened
once, opening may lose a prefix of what the far end sent before (at most `MaxLost`
bytes, and nothing when the far end does not speak first), and after that every
byte comes through in order and once. `Socks5Client!T` is the refinement mapping:
the tunnel is open while the caller has a stream, `sentN` is what the proxy has
relayed, `out` what the caller has read, and `lost` is what is neither with the
caller nor still in the socket. `lost` is bounded by the `BufReader`'s capacity
less one, since the reply's address is in the buffer too.

### Socks5Datagram

`send_to` and `recv_from`, byte by byte: a buffer is a sequence of
`<<datagram, position>>`. `AfterRead` is the `readv`, `AfterMove` the
`ptr::copy`, `AfterCopy` the `copy_from_slice`; `Misfit` is the case in which
these go past the caller's buffer. The network loses, repeats and reorders.

### Socks5Codec (MCSocks5Codec)

Every `write_to_buf`, `serialized_len` and `read_from` on sequences of bytes.
The reader and the writer run concurrently over a stream that may be cut short
or carry one foreign byte. `Address::read_from` as committed uses a cursor after
moving it and the file is outside the module tree; the model reads the port from
behind the name, which is what the code next to it does for IPv4 and IPv6.
`UdpAssociateHeader::read_from` hands out every fragment number, also those its
struct comment excludes; the model does too. `Reply` is its number: `from_u8` and
`as_u8` name 0 to 8 and keep every other. `MCSocks5Codec` gives TLC the addresses,
names and lists; `Places` and `Cuts` bound where the stream is damaged. A method
list has at most 255 entries: the struct comment asks for 1 to 255, and neither
`new` nor `write_to_buf` checks it.

### Server

`proc` is where the main thread is. `SetupInbound` is one round of the loop of
`run`, and `vf` its vector of futures. A poll goes through `vf` in order:
`single_run_tun` is ready at once, the others `Bind` when first polled,
`AcceptConn` while connections are queued, and are `Pending` after that; then
`PollSignal` looks at ctrl-c. A poll that finds nothing parks the thread until
something happens (`Wake`). `Serve` is the whole of a connection task, on another
thread. Names that do not resolve, binds and accepts that fail are inputs.

### TunDevice (MCTunDevice)

The device of both platforms, system call by system call. `files` is the kernel's
descriptor table with lowest-free allocation, so that closing a number twice
closes somebody else's; `ifs` are the kernel's interfaces; `dev` the program's
handles. `Fails` is any system call returning an error: inside `new` it drops what
is open, after `new` it leaves the device as it was. `enabled` is two actions,
since another process can act between its two `ioctl`s. Requests find the
interface by the remembered name (`Named`), `persist`, `user` and `group` by the
descriptor (`Mine`). The kernel and an administrator (`AdminMay`) are external,
and so is `configure`, whose trait is not in the repository: it applies the fields
of the `Configuration` through the setters, `todo` being the set of those left and
`First` their order. `SetAttr` stands for the five setters, which differ in the
`ioctl` alone; the getters, `Read` and `Write` change nothing and are left out.

`platform` says which file runs. Linux attaches with `TunSetIff` and has
`SetName` and `TunSet`; macOS attaches with `ConnectUtun`, has `SetAlias`, and its
`set_name` always fails. The three calls of `ConnectUtun` are one step: until the
last of them nobody else can reach the descriptor, and a failure of any is
`Fails`, with the same outcome. The requests by name are the same code twice
(`Requests`). `Utun` lists the names utun0, utun1, ...; that the kernel takes unit
*k* for utun(*k*-1), and 0 for any, is its interface (`UnitNames`, external).

### Http (MCHttp)

One connection. The client's requests are sequences of units (request line,
blocks of headers, empty line) which it sends in segments of any length and may
leave anywhere. `Read` is `Framed` taking what has arrived, `decode` one call of
`Http::decode` on the buffer (or of `decode_eof` at the end of the stream):
`Parse` is httparse, `Take` the `split_to` and the request builder, which can
still refuse a path after the head has left the buffer; `Total` adds up the
headers httparse counts against the array of `decode`. A request is then
answered by whichever thread polls the task (`encode`, with the thread's cached
date, `fmt` and `update`), or the task returns (`Leave`). At this commit `run_rule`
refuses every request, so that `single_run_http` always leaves at the first, and
nothing calls `respond`: the loop that drives `encode` is the model's, and no
property is about it, only about the date `encode` writes. Requests have no body
here; `decode` builds them without one and would read a body as the next head.
Time runs in half seconds, so that `next_update` and the clock can stand
inside a second; the clock may be set back at any moment.

### Config (MCConfig)

A file is a set of keys and the values that matter. A key is its words and the
separator between them, so that what `rename_all` does to fields and variants is
told apart (`Key`, `DNSMode`); the text of an address is the sequence of its parts
between colons, which is what `split(':')` sees. `Load` is `load_from_file` with
its error and its panic, `NoFile` the defaults, `Save` what `Serialize` would
write (nulls included), `NewContext` and `resolve` the resolver that is made of
the configuration, and `config_mut` a change of the configuration under it. About
the resolver nothing is claimed but its type: see the disagreements below.

## 3. Runs

| Run | Result | Properties |
|---|---|---|
| `client` | holds | `TypeOK`, `Authorised`, `FramesFit`, `SuccessIsGranted`, `OnlyPrefixLost`, `ImplementsTunnel`, `CallReturns` |
| `client_early` | violated | `StreamIntact` |
| `udp_fits` | holds | `TypeOK`, `DeliveredIntact`, `HeaderAsDocumented` |
| `udp_like_std` | violated | `RecvLikeUdp` |
| `server` | holds | `TypeOK`, `BindsInOrder`, `OneDownAllDown`, `CleanExit`, `ConnectionEnds`, `ServerEnds` |
| `codec` | holds | `TypeOK`, `InSync`, `PayloadUntouched`, `ReadStandsForBytes`, `BuffersSuffice`, `ReaderDecides` |
| `tun` | holds | `TypeOK`, `Ownership`, `NothingLeftBehind`, `StalenessComesFromOutside`, `OnlyOwnInterface` |
| `tun_template` | violated | `NameIsCurrent` |
| `tun_utun` | violated | `NameAsConfigured` |
| `http` | holds | `TypeOK`, `RequestsAsSent`, `BufferInStep`, `DateWithinClock`, `TaskEnds` |
| `config` | holds | `TypeOK`, `SavedIsLoaded` |
| `config_example` | violated | `DocumentedTakesEffect` |

Some of them in words:

- `ImplementsTunnel`: every step of the handshake, of its proxy and of its user is
  a step of `Tunnel` or changes nothing there. The hard step is the one that
  returns the stream: the tunnel opens with exactly what the dropped buffer held
  lost, whichever of connect's and accept's replies it was read with.
- `RequestsAsSent`: however the stream is cut up, the loop gets the requests a
  reader of the whole stream would get, up to the first that must be refused, and
  ends cleanly just when the client closed between two requests. With 16 headers
  a request passes, with 17 it fails, also when the 17th comes later.
- `BufferInStep`: no byte of a pipelined request goes with the head before it.
- `DateWithinClock`: the date of a response lies between the clock and the latest
  time the clock has shown; it is exact unless the clock was set back.
- `SavedIsLoaded`: every configuration that was loaded can be saved and loaded
  again, with nulls for absent options, and means the same. A host that is an IP
  address may change its variant of `Address`, never its host or port.
- `StalenessComesFromOutside`: a device whose name is right makes no name wrong,
  neither its own (also not by a `set_name` the kernel refuses) nor another
  device's: names go stale by the administrator's doing alone.
- `OnlyOwnInterface`: whatever step a device makes, an interface that is not that
  device's alone is left as it is, except by a request with a name that has gone
  stale. The step may reach the interface by its name, or by a descriptor number
  that was closed and given out again. Here and above the administrator may do
  everything, and `set_name` is given any name but a template.

The violated runs are disagreements between the code and what a comment, an
example or a test says of it:

- `client_early`: bytes of the far end that arrive together with the proxy's
  reply are in the `BufReader` when it is dropped. `OnlyPrefixLost` bounds the
  damage: a prefix, no longer than the buffer, and nothing when the far end waits
  to be spoken to.
- `udp_like_std`: a payload longer than the caller's buffer is not cut as
  `UdpSocket::recv_from` does: the call panics or writes past the buffer.
- `tun_template`: `set_name("tun%d")` (`linux/device.rs:177`) remembers the
  template and not the name the kernel completed it to, as `new` does. From then on
  `name()`, "the device name" of the trait, is no device's name, and every request
  of the device fails.
- `tun_utun`: a device configured as utun1 becomes utun0.
- `config_example`: of the example file, `no_delay`, `external-ui`,
  `skip-cert-verify` and other keys are dropped, and `mode: fake-ip`, which its
  comment offers, panics: the derived spelling is `fake-i-p`.

Other disagreements met while modelling, without a run of their own:

- `run` resolves, always with an `Err`, on the first lookup, bind or accept that
  fails, and `launch_server` panics; `local.rs:83` says this should never happen.
  `OneDownAllDown` and `CleanExit` describe what happens.
- `config.rs:559` logs that a server it cannot parse means a fallback to the
  system's configuration; the server is only left out, and a list without a
  usable server gives a resolver without servers. No property takes a side.
- `config_mut` (`context.rs:49`) changes a configuration whose resolver stays what
  it was. Nothing calls it and nothing says what should happen.
- `enabled` (`linux/device.rs:187-198`) reads, changes and writes the flags in two
  system calls, so that what another process changes in between is undone. The
  model has the administrator between the two; that flags are kept is false there,
  and the kernel offers no better way.
- The example says that `mode` defaults to Rule; the key is required in a file,
  and the default without a file is Direct.
- `build_connection_meta` looks a host up without a port, which
  `to_socket_addrs` never accepts: `dst_addr` is always `None`.
- `time::at(now).rfc822()` renders local time, with its zone.
- `fe80:1::2` is taken for the domain `fe80` with port 1.

**Bounds.** Lengths are chosen on both sides of each limit of the code: names of
0, 1, 255 and 256 bytes; payloads of 254 and 300 bytes around what the header
array of 263 leaves free. `MaxPayload` = `BufCap` = 3 lets the reader's buffer
hold a reply and payload, and be full. Two connections, two addresses, two
inbounds with two addresses each give every order of one inbound failing before,
while or after another serves; HTTP stands for the listening kinds, which differ
in how they parse only. `MaxFds` = 3 is one less than two complete devices need,
so that numbers are reused and opening fails while one device is complete and the
other half made, split or handed out; `MaxIfs` = 2 leaves room for an interface
of each, or of one and of somebody else. `tun_template` has 4 descriptors. An interface of somebody else may be there from the start.
TUN runs use symmetry of devices, and on Linux of names, which no property and no
initial state tells apart. Two requests are enough for a head to be followed by
another in the buffer, by half of one or by the end of the stream; five half
seconds let a cache be fresh, stale by half a second and stale by more, on two
threads. The files of `config` vary one thing of a small complete file at a time
(its keys, an address of up to four parts, up to three servers, the modes). The
codec's stream is cut after 0, 1 or 2 bytes or before its last, and damaged in one
of its first six bytes: the five at which a reader branches, and the first of a
name.

**Fairness.** `CallReturns`: the calling thread runs, and the proxy answers or
closes; the code has no timeout, so without the second a call may wait for ever.
`TaskEnds`: the task is polled while it can go on. `ConnectionEnds`,
`ServerEnds`: the main thread and the pool's threads run;
clients and operator owe nothing. `ReaderDecides`: the reading task runs.
`ServerEnds` is for finitely many connections: the accept loop does not yield
while connections are ready.

**Deadlock** checking is off where a call that has returned, a process that has
ended, or a reader without bytes has nothing left to do.

## 4. Proofs

Every safety property that a passing run checks is also a theorem, for every
choice of the constants that satisfies the assumptions named in the modules. The
assumptions say what kind of thing a constant is (lengths are natural numbers, the
reader's buffer is not empty, an IPv4 address has four bytes) and, of the sizes the
code limits, one thing: a handshake request has at most 255 methods, which the
comment of its struct asks of the caller. TLC evaluates them on every run. The
strengthened invariants below were found by trying to prove the property as it
stands and looking at the step that failed.

| Module | Theorems | Inductive invariant |
|---|---|---|
| `Socks5ClientProofs` | `TypeCorrect`, `RequestIsAuthorised`, `FramesAlwaysFit` | `TypeOK`; `TypeOK /\ Handshake /\ Authorised`; `FrameInv` |
| `Socks5StreamProofs` | `SuccessMeansGranted`, `LossIsBounded`, `PatientPeerIntact`, `ClientImplementsTunnel` | `StreamInv` |
| `Socks5DatagramProofs` | `TypeCorrect`, `RecvDeliversIntact`, `RoomIsEnough`, `HeaderIsDocumented` | `Inv`, `HeaderInv` |
| `Socks5CodecProofs` | `ReadsWhatWasWritten`, `TypeCorrect`, `BuffersAreLargeEnough`, `MessagesStandForBytes`, `ReaderInStep`, `PayloadStaysOnTheStream` | `Shape /\ Stands`, `Shape /\ Follows` |
| `ServerProofs` | `TypeCorrect`, `InboundsBindInOrder`, `OneInboundEndsAll`, `CleanExitIsClean` | `OrderInv` |
| `TunDeviceProofs` | `TypeCorrect`, `DescriptorsHaveOneOwner`, `InterfacesGoWithTheirDevice`, `NamesGoStaleFromOutside`, `NamesStayCurrent`, `StepsStayHome`, `LinuxNamesAsConfigured` | `TypeInv`, `OwnInv`, `NameInv` |
| `HttpProofs` | `TypeCorrect`, `RequestsComeAsSent`, `BufferStaysInStep`, `DatesWithinClock` | `WireInv /\ ClockInv` |
| `ConfigProofs` | `TypeCorrect`, `SavedConfigIsLoaded` | `ConfInv`, `AnswerInv` |

**SOCKS5 client.** `Authorised` is not inductive: that the request follows only an
accepted password depends on what is in flight. `Handshake` ties the client's
`pc`, the packets sent and the units in `rx` to what the proxy chose: a method
unit in flight carries `chosen`, a password answer `status`, and before the
request nothing else is on the way. `FrameInv` adds the types to `FramesFit`: the
sends are guarded by `Writable`, so that no length byte wraps.

`StreamInv` does the same for the two replies and the payload: for every place the
client can be at, `First` and `Second` say what `rbuf \o rx` begins with (the
reply, its address, then payload in order), how often the proxy has granted, and
that what the proxy has relayed is there whole until the buffer is dropped. From
it follow the bound on the loss and the refinement. `ClientImplementsTunnel` maps
each action to a step of `Tunnel`: `ReadAddr` where it returns the stream is
`Open`, with the contents of the dropped buffer lost, `PeerSends` is `FarSends`,
`UserRead` is `Deliver`, dropping the stream is `Close`, and everything else
changes nothing there. `PatientPeerIntact` is the part of the refuted
`StreamIntact` that is true.

**Datagrams.** `RecvDeliversIntact` rests on `BufferHoldsPayload`, that the read and
the two copies put position *p* of the payload at position *p* of the buffer, by
cases on whether the datagram ends inside the header array; `HeaderLenBound`
gives the header at most `HEADER` bytes.

**Codec.** `ReadsWhatWasWritten` is the fact about bytes: for each message and each
kind of address, what `read_from` returns of any bytes that begin like the written
ones. The stream's invariant is `Follows`: what is on the wire is what is due, the
bytes of the messages not yet read and then the payload, or a beginning of it once
the stream was cut. `Stands` needs neither a writer nor an undamaged stream: what
was accepted stands for the bytes taken.

**Server.** `OrderInv` contains the three order properties and `Progress`, which says
for each place of the main thread which futures are new, listening or done; none
of the three is inductive without it.

**TUN device.** `OwnInv`: open descriptors have one owner, attached descriptors a
living interface each of their own, and an interface without descriptor is
persistent or somebody else's. `NameInv` adds that no two interfaces have one name;
a name that is not stale then leads to the interface behind the descriptor and to
no other. Ownership, clean-up, `NamesGoStaleFromOutside` and `StepsStayHome` are
proved against every administrator. The two theorems about names that go stale
carry the hypothesis that `set_name` is given no template (the run `tun_template`
shows why), and `NamesStayCurrent` that the administrator does nothing but change
flags. `LinuxNamesAsConfigured` is for `Platforms = {"linux"}`, since macOS breaks
it.

**HTTP.** `WireInv` says where everything is in the stream `Bytes(heads)`: what is
left to send is its end, the buffer and the socket hold, unit by unit, what comes
after the last request taken, and the reason for an error is in the request after
that (it must be refused, or the client closed within it). Each step of `decode`
follows from two lemmas on what `Parse` says of a buffer with a part of a request
(`PartOfHead`) and with all of it (`WholeHead`). `ClockInv` says that a cached date
was right when rendered, is good to the end of that second and is not ahead of
the latest time.

**Configuration.** `ConfInv`: a configuration in memory is well formed, and while the
file is the saved one it is `Serialized(conf)`; `AnswerInv` adds that nothing is
asked before there is a resolver.

*Induction.* The provers cannot use the library's induction theorems, which take an
operator. `HttpProofs` needs two facts about recursive functions, sums
(`TotalStep`) and the concatenation of requests (`PreStep`); it proves them with
`Upwards`, induction on the members of a set, which follows from the
well-foundedness of `<`. The other modules need none: a codec stream has at most
two messages, and buffers are compared position by position.

**Only model-checked**: the liveness properties (`CallReturns`, `ReaderDecides`,
`ConnectionEnds`, `ServerEnds`, `TaskEnds`), which are about fairness and out of
the prover's reach; and of course the five violations.

## 5. Not modelled

- Logging, `Display`/`Debug`, constants and C layouts of `sys.rs`: no behaviour.
- `Display` for `Address` and `Config` formats itself without end; nothing formats
  either, so no state shows it.
- Rules and outbounds: no bodies to model.
- Bodies of HTTP requests, and `Engine::respond`, which nothing calls.
- A proxy that sends both replies of a BIND at once (see Socks5Client).
- The DNS query cache of `context.rs`: created, and used by nothing.
- The TCP stream that keeps a UDP association alive: the code never looks at it,
  and no document says what should happen when it ends.
- A limit on connections: the code has none.

## 6. Plan

Done, in this order: the SOCKS5 client and its proofs, the datagrams and their
proofs, the server, the codec, the TUN device on Linux and macOS, the abstract
tunnel and the refinement, the HTTP codec, configuration and name resolution.

Then the proofs of section 4, in the order of its table but for the codec and the
HTTP connection, which came last: they need facts about whole streams.

Left: the liveness properties stay with TLC. Worth adding are action properties
that say what a step may never do where a run has only the invariant (a cached
date never moves back while the clock does not), with theorems from the invariants there are; an abstract specification
of the HTTP connection as a queue of requests, which `WireInv` should refine; and
a shorter route for the conversions of `Socks5CodecProofs`.
