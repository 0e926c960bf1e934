# A TLA+ model of server_gps_service

The service listens on a list of TCP ports, takes packets from GPS trackers,
appends their records to text files and acknowledges them. This directory holds
TLA+ modules of its concurrent and sequential logic, TLC configurations that
check them on small instances, and TLAPS proofs of the results that matter most.

## The system

| part | source | state | operations | correct when |
|---|---|---|---|---|
| Server, one per port | `server.go`, `conn.go` | `inShutdown`, `listener`, `conns`, `mu` | `ListenAndServe` (accept loop), `addConn`, `deleteConn`, `handle` (one goroutine per connection), `Shutdown` | the connection table is exact, Shutdown ends and cuts nobody off, the port is served again after a pause |
| Service control | `service.go`, `exec.go` | the request being served, the `servers` map | `Execute`: Pause, Continue, Stop; `stopServers`, `startServers`, `initServer` | what is reported to the service manager is what the servers do |
| Ports | `utils.go` | none | `MakePortsFromSlice` | every configured port gets a server that can be stopped |
| Session | `server.go` `handle` | the handler's `gps`, the registry `srv.GPS` | read a packet, `GetGPS`, parse, `SetGPS`, reply | acknowledged records are stored, under the right tracker, in order |
| Gryphon Pro parser | `clients/gryphonPro.go` | `GPSInfo` of the session | `ParseData`, `ParceGPSData`, `ParceODPData` | records are kept or refused for the reason given |
| Teltonika, Bitrek, Cargo parsers | `clients/`, `hash/crc16.go` | `GPSInfo`; the answer `CountData` | `ParseData`, the codec walks, `CheckSumCRC16` | a packet is taken when it is one, and then all of it; the read position stays in step with the packet |
| Wialon, Gryphon M01 parsers | `clients/` | `GPSInfo` | `ParseData`, `WialonIPS`, `WialonRetranslator_v1`, `ParceForm` | records are filed under the name the packet gives |
| Files | `models/models.go` | tracks, errors, ODP | `SaveErrorList`, `SaveToFileList`, `SaveODPList`, `SaveToError`, `SaveToFile`, `Chk` | nothing of an accepted packet is dropped |
| Configuration | `config/config.go` | the file `<program>.json` | `ReadConfig`, which writes a default on the first run | a configuration in use is not replaced |
| Command line, installation | `main.go`, `install.go` | the service manager's entry, the event source | `install`, `remove` | what succeeded is complete |
| Remote control | `manage.go` | a request and its deadline | `controlService` (stop, pause, resume) | a timeout means what it says |
| Logging, paths | `utils.go` | none | | |

How they interact: `Execute` runs on one goroutine and calls `Shutdown` of every
server, or sets `inShutdown` to false and starts `ListenAndServe` again. An
accept loop, the handlers and the control goroutine share one `Server`; `mu`
protects the table and the registry, but `inShutdown`, `listener`, and the
table reads in the accept loop and in `Shutdown` are unprotected. Handlers share
the registry (read before a packet is parsed, written after) and the files
(appended to, one file per tracker and day). Only `GryphonPro` is wired into
`handle` (server.go:203 names the others in a comment); the other parsers are
chosen by editing that line.

What is hard: the interleavings of `Shutdown` with accepting and leaving
connections; a Continue that finds remains of before the pause; the registry as
a read-modify-write around a parse; a save that fails half way and the tracker's
retry; panics recovered into an acknowledgement; reads that cut a stream where no
packet ends; read positions driven by the packet's own counts; requests with a
deadline answered by a loop over servers that each take their time; processes
that find, write or lose one configuration file. `PROJECT.json` lists each hazard at its line.

## Modules

```
Gate  <-- implements --  GpsServer  -- GpsServerProofs, MCGpsServer
Gate  <-- one per port --  Service  -- ServiceProofs, MCService
Store <-- GpsSession  -- GpsSessionProofs, MCGpsSession
Store, Crc16 <-- TeltonikaSession -- TeltonikaProofs, MCTeltonika
Store <-- RelaySession -- RelayProofs, MCRelay
IoElement  -- WalkProofs, MCIoElement, MCWalks
GryphonFrame -- WalkProofs, MCGryphonFrame, MCWalks
Ports <-- Startup -- StartupProofs, MCStartup
DataLemmas <-- GpsSessionProofs, TeltonikaProofs, RelayProofs, WalkProofs,
               StartupProofs
```

`Gate` — what one listening port promises, without loops, locks or sockets:
clients come in while it is open; told to pause or stop it closes, waits until
the last client has left, and only then reports back.

`GpsServer` — one `Server` and the control goroutine. An element of `Loop` is one
call of `ListenAndServe`, an element of `Conn` one accepted connection. Program
counters follow the code between blocking points and accesses to shared state:
`Listen`/`ListenFails`/`AssignListener` (55-67), `CheckShutdown`, `Drain`,
`Return` (70-74 and the deferred close), `Accept`, `AcceptError` (77-89),
`AddLock`, `AddConn`, `Spawn` (97-100, 104-112); `Read`, `Reply`, `ReadError`,
`CloseConn`, `DeleteLock`, `DeleteConn` (handle and its deferred function);
`RequestPause`/`Stop`/`Continue`, `StartServers`, `SetFlag`, `CloseListener`,
`ShutdownReturns`, `KeepWaiting`, `ForceClose`, `ForceDone`. Two outcomes end the
process: `CloseNilListener` (a nil method call in a goroutine without recover)
and `ForceThrows` (the Go runtime's detection of a map iterated while it is
written, which it may or may not make). The idle deadline is a `ReadError` that
may come at any time. The race on `inShutdown` is modelled as reads and writes of
a Boolean in any order. `Abstract` maps it to `Gate`: someone is inside from
Accept until the entry is deleted (`AtGate`), and the gate is open until Shutdown
has closed the listener (`LetsIn`).

`Service` — all ports under one `Execute`, and the callers of `controlService`.
A port is a gate: `serving`, `inside`, and whether it ever had a listener.
`Take` is `c := <-r` with what is reported at once; `BeginShutdown`, `Tick` and
`ServersStopped` are `stopServers` in the random order of a Go map, `StartServer`
is `startServers`. Time is counted in ticks of 500 ms, with the code's own numbers:
10 ticks per Shutdown and 20 for a caller. `Quiescent` says what has happened
before a tick: whatever needs no time, and the leaving of connections that were
closed by force. The service manager between the two (it holds one request, and
knows the state last reported) is external and modelled from its use.

`Store` — files and registries as functions, with what the code's maps do.

`GpsSession` — the packets of one port with the Gryphon Pro parser. A packet is
its kind, its records and whether its parse panics. `Receive` covers a whole turn
from Read to the choice of the parser, with the refresh from the registry; `Login`,
`ParseRecord`, `EndOfRecords`, `SaveErrorList`, `SaveToFileList`, `SaveODPList`,
`SetGPS` and `Reply` are the places where other handlers may come between;
`SaveFails` stands for any of MkdirAll, OpenFile and WriteString. `ResetRegistry`
is server.go:53, `Restart` the end of the process, at any step of any handler, and
its next start. The names are sequences of ids, because the code appends digits
at every login. `wrote`, `device`, and the `dev`, `via` and `early` of a file entry
are auxiliary: no guard reads the entries' fields. A time is a number, a day
`PerDay` of them; the correction of times before 2010 belongs to the abstraction
of a record. A failing write leaves the file as it was; a partial write of one
line is not modelled.

`TeltonikaSession` — the same loop with one of the three parsers of the family
(`parser`), over a byte stream. `SendPacket` puts a packet into the stream;
`Receive` takes whole packets and, perhaps, the beginning of the next (`Cuts` are
the bytes it may end behind), refreshes the `GPSInfo` and applies `ParseData`,
which is the code's function byte by byte: login by the length of the whole input,
header of zeros, length, checksum over the body, codec. Between that and
`SetAndReply` lie the files (`Save`, `SaveFails`). A record is one byte, its time;
how a record of many bytes is walked is `IoElement`'s. A packet is sent only while
the handler reads: what arrives earlier waits in the stream anyway.

`Crc16` — the table and its rounds, and the bitwise division a tracker computes.

`RelaySession` — the loop with Wialon or Gryphon M01, where each packet names its
tracker. A packet is a sequence of items: a name, records, lines nobody knows, and
what ends the parse. Wialon saves every record as it is read (`RecordItem`), and
one that cannot be saved ends the process (`SaveIsFatal`); M01 collects and saves
at the end (`ParseForm`, `SaveLists`). `ahead` is auxiliary: a tracker, and the time
its `GpsD` had reached, whenever M01 did not save all it had taken.

`IoElement` — the walk of the codecs (8 in all three parsers of the family, 8E in
Teltonika) through a packet that the module itself encodes as a tracker would;
`Size`, the width of counts and ids, tells the codecs apart and is all the walk
knows of `packet`: it reads `bytes`. A read beyond the packet ends in `astray`, which
is less than the code does: an index panics there, but a slice (teltonika.go:202-210,
526) only beyond the 10240-byte buffer, so that the code may go on with what lies
behind the packet and even file the record. No property speaks of such packets.

`GryphonFrame` — what `GpsSession` leaves out of the Gryphon Pro parser: the bytes.
All Reads of a connection go to the beginning of one buffer (`Arrive`, server.go:201
and 208), and the parser gets the part that was read. In Go an index must be within
that part, less the four bytes of the checksum (`Indexed`), but a slice only within
the buffer (`Sliced`): of a packet that arrived in part a time, a place or a value
can be what an earlier packet left there. `Open` tells the kinds apart, `ReadRecord`
and `ReadItem` are one round each of the two loops of ParceGPSData; ParceODPData's
one loop is `ReadItem` with another head, after a record without bytes that only
counts its lines. `Panic` is where an index, or the sixth binary digit of the state
(161), is not there. `frame` is auxiliary: the packet the last Read began with.

`Ports` — `MakePortsFromSlice` and `initServer`, entry by entry. `Startup` — the
processes that come there: the service, and the commands `install` and `remove`,
each beginning with `ReadConfig`; any of them may be killed at any step, and the
operator edits the file. Of the configuration the list of ports is kept. The
service manager and the event log are a Boolean each.

The `MC...` modules hold the small instances (`MCWalks` runs `IoElement` or `GryphonFrame`,
since a service has one parser), the `...Proofs` modules the theorems. Operators named `Bug...`, each before the
definition it varies, are the deliberate defects that show every property can fail.

## Runs

| run | bounds | shows |
|---|---|---|
| `server_races` | 3 loops, 2 connections, ticks at any moment, ports taken by others | `Registered`, `OneWriter`, `NoNewClients`, `TypeOK` |
| `server_prompt` | 3 loops, 2 connections, prompt ticks, fairness | `StopIsGraceful`, `PauseIsQuiet`, `ServesAgain`; the server is a `Gate` (`ImplementsGate`) that moves on (`GateMovesOn`) |
| `server_nil_listener` | 1 loop, 1 connection | found violated: Pause or Stop after a failed Listen ends the process |
| `server_force_close` | 1 loop, 2 connections | found violated: the forced close can meet a writer of the table |
| `service` | 2 ports (one contested), 1 client each, 3 callers, 10 and 20 ticks | `StopIsComplete`, `AllOrNone`, `TimeoutNeedsTwoSlow`, `PortsAreGates`, `FailedStopHappens`, `TypeOK` |
| `session_files` | 2 connections, 3 trackers (one with the id of zeros), 2 packets each, 2 days | `AckedIsStored`, `TracksAreOwn`, `TypeOK` |
| `session_order` | 2 connections in turn, 4 packets each, no failed write | `SessionSorted`, `EarlyHasLater`, `NameIsKept` |
| `teltonika` | 2 connections, 2 trackers, 2 data packets, 2 cuts, 3 parsers, failed writes | `AckedIsStored`, `StoredWasSent`, `TracksAreOwn`, `TableIsSound`, `TypeOK` |
| `relay` | 2 connections, 2 trackers, 4 packets, 2 parsers, failed writes | `TracksAreOwn`, `PacketIsStored`, `EarlyHasLater`, `TypeOK` |
| `walks` | codec 8 or 8E: 1-2 records, groups of at most 2 sensors; Gryphon Pro: 6 packets cut behind every byte, alone or with another behind, 2 Reads into 64 bytes | `RecordAsSent`, `ReachesEnd`, `TypeOK`, of packets some of which the codecs cannot walk and which end `astray`; `SavedAsSent`, `FrameTypeOK` |
| `startup` | 2 processes, 10 lists of ports, 1 edit | `NumbersAreServed`, `EveryServerIsStoppable`, `ConfigIsStable`, `SuccessIsComplete`, `TypeOK` |
| `startup_ranges` | the same with the list of the comment at utils.go:68 | found violated: ranges end the process (`RangesAreServed`) |

Why the bounds are enough. *Server*: the hazards need a loop of before a pause,
the one Continue starts, and a third started while both live; two connections
give one that is being removed while another is added or iterated. `CountForStop`
is 10 in the code and 2 here: what matters is ticks before 0, the tick that
reaches it, and ticks after. Below 0 the code counts on; -1 stands for all
those values, none of which is ever compared equal to 0 again. *Service*: a timeout is a matter of arithmetic, so the
counts are the code's. A port with clients takes 11 ticks to come down (its 10
and the one that finds it empty), one without takes 1, hence one slow port never
fills the 20 ticks, and two can; a third caller is one whose request overtakes or
is overtaken. One client per port is enough, since a Shutdown asks only whether
there is one. *Session*: two connections suffice for an exchange
through the registry, with two trackers that have a name and one of zeros, whose
name stays "", four packets for login, data, a retry and what follows; records 1..4 with
`Tomorrow` = 4 give every reason of refusal. `MaxLogins` bounds how often a name
is extended, `MaxPackets` the packets of a connection. *Teltonika*: cuts behind
byte 2 and 11 divide a login and a data packet, inside the header and inside the
body; two packets are read in one piece, in two, or as the end of one and all of
the next. The packets have a wrong checksum, a wrong count, a codec only Teltonika
knows, or two records of which one is early, weak or of another day. `TableIsSound`
takes every byte after every sum of at most one bit: that all sums and all bodies
follow is proved (`ChecksumIsRemainder`). *Relay*: four packets let a tracker speak, be
refused, move to the other connection and repeat. *IoElement*: FixedSize is
2 where a record of the code has 24 bytes before its event id; the walk only adds
it. `RecordAsSent` and `ReachesEnd` speak of `Regular` packets: with fewer
sensors than groups the walk is wrong, and so it is with a sensor of variable
width. *GryphonFrame*: 64 bytes hold the packets but one, whose value then crosses
the end of the buffer; the first of two Reads fills it with another packet, with
zeros or with the bytes of no packet, the second is cut anywhere, so that every
field in turn is the one behind the end. *Startup*: one process writes the default while another reads or writes;
the lists hold numbers, a number twice, ranges and every kind of mistake.

CHECK_DEADLOCK is on everywhere: states in which the system may stop have an
explicit stuttering action (`Halted`, `Exhausted`, `Stop`, `Rest`, `Closed`). Symmetry is
used in the runs without liveness only.

### Fairness

`GpsServer!FairSpec` asks weak fairness of every accept loop, of a handler once it
works, closes or removes itself, and of the control goroutine: Go schedules
runnable goroutines. `AddLock` and `DeleteLock` get strong fairness, since Go's
mutex hands itself to a waiter after a millisecond. Nothing is asked of requests,
clients or deadlines: a handler is certain to leave Read only after its socket
was closed by this process. `ForceThrows` owes nothing either. `GateMovesOn` is
the fairness of `Gate`, which a composition of ports may therefore assume, and
`Service!FairSpec` asks the same of a port: Execute runs, time passes, a connection
closed by force leaves, a caller polls. `IoElement` is fair because a loop that
can go on does.

### The assumption Prompt

`Prompt` says that when a 500 ms tick arrives, every accept loop has run to its
next blocking point since the one before (`Settled`). The code relies on it
without saying so: the table is read at ticks, and a connection accepted but not
yet in it is invisible. Without it `StopIsGraceful`, `PauseIsQuiet` and
`ImplementsGate` fail, and an accept loop that has not noticed the pause before
Continue clears the flag spins on a closed listener. `server_races` does not
assume it; `Service` rests on it through `Gate`.

## Proofs

All proved for every value of the constants under the named assumptions in the
modules (disjointness of markers, numbers being natural, packets being records).

`GpsServerProofs`. `Inv` joins to the checked properties `HoldsConn` (which loop
holds a connection between Accept and `go handle`), `OneListener` (one open
socket, and it is `srv.listener` once assigned) and `GateClosed` (a loop waiting
in Accept on an open socket means Shutdown has not closed it). `Registered` alone
is not inductive: that adding a connection adds the right one needs `HoldsConn`.
`StopIsGraceful` needs that no loop is between Accept and `addConn` at the tick,
which is `Prompt`, and that none can accept later, which is `GateClosed`. From it:
`TypeCorrect`, `TableIsExact`, `MutualExclusion`, `StopCutsNobodyOff`,
`PauseLeavesNothing` and, for steps, `NoClientAfterClose`.

`ServerIsGate` is the refinement: initial states map to an open gate without
clients, and each of the server's steps is a step of the gate or none. It needs
`QuietUntilCleared` beside `Inv`, that a paused server stays quiet until the flag
is cleared, so that the gate opens only when Continue says so and closes when the
listener does. Its proof has one step per action, as that of `Inv`.

`DataLemmas`. What a definition by recursion yields for every list, as the proofs of
five modules need it. The library's induction theorems take an operator, so
induction is stated with sets of numbers instead (`Induction`, `Least`): a set that
holds 0 and with k also k + 1 holds all numbers. From it come `Iteration` (what a
fold over a list keeps true, it has at the end), `Unique` (two functions that
satisfy one recursion are one), and what the code's maps and lists do:
`FlattenJoins`, `FlattenHead`, `AppendToType`, `ConcatElement`, `DayKept`,
`CollectedAll`, and that a file which is appended to holds what it held (`Grown`,
`AppendToHolds`).

`GpsSessionProofs`. `Inv` joins `NamesAreOwn` (a name consists of its own
tracker's ids, and the registry files every name under itself), `EntriesAreOwn`
(so do collected and stored entries) and `Accounted` (at every place in the
handler each record of the packet is still to be parsed, listed for a file, or
written). There is one lemma per part with a step per action. From it:
`TypeCorrect`, `TracksDoNotMix`, `AcknowledgedIsStored`.

Its last section is about the order of a session, under hypotheses on the
constants. `NamesStay` assumes `~ResetMayHappen`: then a handler that waits for a
packet finds its name in the registry (`NameIsKnown`), so the refresh gives it
back. `SessionsAreSorted` assumes `~Overlap` besides: with one live connection per
tracker, names differ between live handlers (`NamesDiffer`), hence the registry
also holds the handler's own last time (`LastIsKnown`) and the refresh changes
nothing. `TracksBehind` and `ToSaveBetween` then say that what a connection has
written and what it is about to write, in this order, is not later than that time.
Writes may fail and the process be restarted anywhere.

Its other section of this kind is about refused records. A time is *backed* if every
earlier one has a later record of the tracker in a track. `RefusedHasLater` rests on
`LastIsBacked`, that the last time of a handler is backed whenever it is done with a
packet, or else it is about to save what backs it, on `RegistryIsBacked`, that so are
the times of the registry, and on tracks only growing. It assumes what the code
needs, and what `session_order` has: `~SaveMayFail`, and `OneDay`, that every packet
is parsed to its end and its acceptable records are of one day, because of a packet
of two days one is lost but the last time moves. It needs neither `~Overlap` nor
`~ResetMayHappen`: the last time may then fall back, but never run ahead.

`ServiceProofs`. `Inv` follows a request through the loop over the servers: those
visited are as it wants them (`Visited`), the one whose Shutdown runs lets nobody
in (`OneShutdown`), and what is reported agrees with both (`Reported`). From it:
`TypeCorrect`, `AllPortsOrNone`, `StopLeavesNobody`. `EveryPortIsGate` is a second
refinement: under each port's mapping a step of the service is one of the gate's
or none, in particular a Shutdown begins at a port only when that port is asked to
close. Together with `ServerIsGate` this is the composition: a server is a gate,
and the service treats each of its ports as one.

`TimeoutTakesTwo` is about the deadline of `controlService` for any number of ports.
It assumes that ten seconds cover two loops over idle servers and one Shutdown
that counts down, 2 * Cardinality(Port) + CountForStop < Deadline: with the code's
10 and 20 that is up to four ports, because Shutdown of an empty server also waits
for a tick. The invariant (`InTime`) bounds the ticks a caller has waited, together
with the servers the loop has still to visit, by one or two turns of the loop and
what the one slow server has spent.

`StartupProofs`. `Writers` is what makes `ConfigIsStable` inductive: whoever is
about to write the default met no file, so all who hold a configuration from it
hold the default as well. `Progress` says that one command runs at a time and that
its earlier steps are still done when it makes the next. `ServersInv` says that
the map files every server started under its own port, which gives
`ServersAreStoppable` for every list of ports. `NumbersGetServers` is about both
loops: an entry that passes `MakePortsFromSlice` is a plain number and adds itself
(`GoodIsNumber`, `BadIsNone`), so `res` is, number by number, the part of the list
already read (`ListInv`), and `started` the part of `res` already served. Of a list
with a range it says that no service runs with it; what the code's comment promises of
such a list is `RangesAreServed`, which `startup_ranges` refutes. From these:
`ConfigStaysInUse`, `CommandsAreComplete`, `ServersAreStoppable`,
`NumbersGetServers`, `TypeCorrect`.

`TeltonikaProofs`. `Inv` follows each packet from the stream to the files. `Accepted`
says whose connection a handler serves, `StreamIsOwn` that the name of an uncut one
is its tracker's and what is left of its stream whole packets, `SumsAreOwn` that what
is about to be saved is that tracker's, and `AccountedAt` that the records of an
accepted packet are listed for a file or written. Between them stand the lemmas about
`ParseData` over bytes: a packet at the head of the buffer is found whole
(`PacketFound`, `WholeParsed`), two packets read at once are refused
(`TwoAreRefused`), and an answer says that the checksum held (`SumIsChecked`). From it:
`TypeCorrect`, `TracksDoNotMix` and, with `RoundDivides`, `AcknowledgedIsStored`. The
last speaks of connections whose Reads all ended where packets end, and of
acknowledgements that answer neither the login nor a packet with fewer records than
it counts: the number acknowledged is that of the one sound packet read, and its
records are in a file, apart from two losses it names, the days that
`SaveToFileList` skips and a save of Cargo's that failed.

Its first part is about `Crc16`. `ChecksumIsRemainder`: for a body of any length
`CheckSumCRC16` is the remainder of the bitwise division. Exclusive or is defined by
recursion over the bits; that it commutes, associates and passes through a shift
(`XorCommutes`, `XorAssociates`, `DivideMoves`) makes a round over a byte and a sum
the round over the byte alone joined to the shifted sum. The theorem assumes
`RoundDivides`, that a round of the table divides: TLC evaluates it in `teltonika` as
`TableIsSound`.

`WalkProofs` is about the walks through a packet's bytes, of `IoElement` and of
`GryphonFrame`. Of the first, `TypeCorrect` holds for every packet, those that lead the walk
astray included. For a regular one `WalkInv` says where the walk is in what the
tracker encoded: the bytes from the read position on are, joined, the codes of what
it has still to read (`Position`: the rest of a group's sensors, of a record's groups
and of the records), `all` is the record's number of sensors (`Counted`), and
`decoded` is what `ParseInt` takes of the sensors already read (`Decoding`). It is
inductive because what is ahead can be read (`AheadReads`), a number as it was sent
(`NumberReads`), and because a record's code is its header, its groups and their
sensors in the order of the walk (`CodesAhead`); that the codes are split nowhere
else is what a wrong width breaks. `RecordsAreRead` follows, with the position of the
next record from `UpToFrom`. `PacketAssumption` says what a packet is: lists of
sensors per group, whose values have the width of the group. A count, an id or a
length is put in its low byte, which is a tracker's encoding for numbers below 256.

Of the second, `FramesAreSaved` is the result: a packet that reaches the save is
saved with all its records and all their items as they were sent, however little of
it the Read returned, whatever came behind it and whatever the buffer held. Slices
read beyond the bytes that arrived, but behind every one of them, except for the
last value, is an index the code still has to pass: a record's count, an item's
length, which must lie before the last four bytes that arrived. The
exception is real (without it TLC finds the violation): the last value of a packet
cut within it, if it has more than four bytes, is saved with what the buffer held
before and acknowledged, since nothing depends on the checksum. `SavedAsSent` alone
says nothing of the loops, so `FrameInv` does: the packet's bytes from the walk's
place on are the codes of what it has still to read, arrived or not
(`FramePosition`), the two counters say how much that is (`FrameCounted`), and what
was read is as sent unless it is the last item and reaches beyond what arrived
(`GotAsSent`), which the index of a next item or record excludes (`NoneTorn`). It
rests on `Arrived`, that the bytes read are the packet's as far as both go, and on
the splitting of a packet into its parts (`RecordAhead`, `ItemAhead`). From it:
`FrameTypeCorrect`, `FramesAreSaved`. `FrameAssumption` and `ArrivalAssumption` say
that a packet's counts and lengths fit a byte and that a Read which begins with a
packet holds its bytes from the first on.

`RelayProofs`. `Inv` says which name a handler holds at which item of the packet,
that collected and stored entries carry the name they were sent under, and where
the records of the items behind the handler's position are. `KeptAll` and
`FormKept` say what M01's loop over its parts leaves in the lists. From it:
`TypeCorrect`, `TracksDoNotMix`, `AnsweredIsStored`. Its last section proves
`RefusedHasLater` by backed times as above. It speaks of trackers that share no
connection (the `Loners`, a set that only shrinks). A Wialon session saves every
record before it compares the next, or ends the process: its times are backed by the
tracks alone, with failing writes too, since nothing is ever put into `ahead`
(`OnlyM01`). M01 moves its last time before it saves, and a short part, a failed write
or a packet of two days then leaves it further than the files: such a time enters
`ahead`, which backs what is below it instead of a record. Of M01 the theorem hence
says that nothing is refused but for a later record that was taken, not that this
record was stored.

Only model-checked, and why:

* `GateMovesOn`, `ServesAgain`, `FailedStopHappens`, `ReachesEnd`: liveness under
  fairness is out of the prover's reach.
* `TableIsSound` is a finite evaluation, of a table of numbers; TLC does it.
* `StoredWasSent` is true of the packets of the run and not of all: with cut streams
  a piece can have the right checksum by chance.

## What the properties leave out, and why

* `AckedIsStored` does not speak of packets whose parse panics, nor of packets
  whose accepted records span two days. Both are acknowledged and lose records:
  ParseData recovers without an error (gryphonPro.go:29), and SaveToFileList
  returns after the first day it visits (models.go:172-178), in Go's random order.
* `EarlyHasLater` of `GpsSession` is checked and proved for writes that succeed. When
  one fails, `GpsD` has moved already (gryphonPro.go:231) and reaches the registry with
  nothing stored: a record between the last one stored and that time is then refused
  as early. The newest record of the packet is not, when the tracker repeats it.
* In `TeltonikaSession` a recovered panic is answered with whatever `CountData` is:
  that of the packet before, or the count of a packet that has fewer records.
  `AckedIsStored` leaves out packets with fewer records than they count, and
  connections with a read that ended inside a packet; there it fails. Of a packet of
  several days it says that the records of one of them are stored; Cargo also
  acknowledges what it could not save (cargo.go:94), and of that it says only that
  the number is a sound packet's.
* `StoredWasSent` holds however the stream is cut, thanks to the checksum; that
  nothing is lost does not: a packet whose pieces are refused is gone unless the
  tracker repeats it. A piece of a stream can also be taken for a login, whence the
  exception for cut connections in `TracksAreOwn`.
* In `RelaySession` a Wialon record may go to a track without a name, when the
  registry was emptied under a handler; the last time it is compared with is that
  of the name of the packet before, so `EarlyHasLater` is about trackers that share
  no connection; of M01's it says less (`ahead`). M01 answers "ok;" in any case, refused or not (gryphonM01.go:17),
  moves its last time over records it then does not save (84-85, `ahead`), and
  forgets that a time could not be parsed (136-138): such a record is kept under
  the zero time.
* `TimeoutNeedsTwoSlow` is about requests that no other request overtook, and
  that no Stop made void.
* `ConfigIsStable` excepts the default: a second first run that dies between
  truncating and writing leaves a file that no later start can parse.
* `SuccessIsComplete` is about commands that succeed. A failed `install` may leave
  the service (the error of `s.Delete()` is dropped), a failed `remove` the event
  source, and with the source there `install` never succeeds again.
* `SessionSorted` is per connection, for trackers with one live connection. Two connections of one tracker (the old one
  not yet timed out) each compare with a copy of the registry, and after a restart
  the registry is empty: the file as a whole is then out of order.
* `NameIsKept` holds while the registry is reset only without live handlers. A
  Continue sent to a running service enters ListenAndServe again, which replaces
  the registry before it finds the port taken; live handlers then read their name
  back as "" and store under ".txt".
* Paused is reported before the servers are stopped; the property of a paused
  server is therefore stated for the moment Execute is idle again.
* `SavedAsSent` is about Reads that begin where a packet begins. The rest of a packet
  that came in two parts is read as a packet of its own (`NoFrame`): the beginning of
  such a Read decides what it is taken for, and nothing of it can be relied on.
* The two codec properties leave out sensors of variable width: their length is
  parsed from `data`, which still holds the two bytes of the id
  (teltonika.go:324), and the two length bytes are never read. The packets with
  one in `walks` end `astray`.
* `EveryServerIsStoppable` is about ports listed once: of a port listed twice the
  server that may have failed to listen is the one the map keeps.

### Known disagreements that no run states

Two more came up while modelling. A Gryphon Pro packet whose checksum does not
match is parsed, stored and acknowledged: the result of `ReturnError` is dropped
(gryphonPro.go:47-50), which is why `SavedAsSent` needs its exception. The number of
sensors of a codec 8 record bounds the number of groups read (teltonika.go:467): with
fewer sensors than groups the position is left inside the record, and in `walks` such
packets end `astray`.

### Not modelled

* The text of Wialon and M01 packets: the records would have to be strings of
  characters, with nothing the properties tell apart; its control is in
  `RelaySession`.
* What of a cut Gryphon login ends up in the name: the digits of the tracker are one
  id in `GpsSession`.
* Formatting (`ToString`, the ODP lines' text, sensor ids), logging, paths.
* The operator who rewrites the configuration file while a process reads it.
* Partial writes of a line, and files that others change.
* The service manager's own behaviour beyond what `Service` and `Startup` state.

Only `GryphonPro` is wired into `handle`; `TeltonikaSession` and `RelaySession`
describe the service with another parser at server.go:203.

## Plan

Done: `GpsServer` with `Gate` and the proof that one implements the other;
`Service`; `GpsSession` with its safety proofs; `TeltonikaSession`, `Crc16`,
`RelaySession`, `IoElement`, `GryphonFrame`; `Ports` and `Startup`; the proofs of
all of these. What could follow: the text of Wialon and M01 packets, as far as a
packet cut by a Read is concerned.
