# goafp in TLA+

goafp is a client for AFP file servers. This directory models the parts of it
in which something can go wrong between two steps, checks them with TLC on small
instances, and proves their safety properties for instances of every size.

## The system

| layer | source | state | operations |
| --- | --- | --- | --- |
| DSI connection | `internal/dsi/conn.go` | request counter, pending calls, first error, socket, `mu`, `writeMu` | `Request`, `OpenSession`, `Close`; goroutines `readLoop`, `tickleLoop` |
| AFP session, volume, fork | `internal/afp` | session, volume and fork IDs | login, `OpenVolume`, `ReadDir`, `Stat`, `SetUnixPrivs`, `OpenFork`, `ReadAt`, `WriteAt`, streaming |
| connection manager | `internal/nfsfs/conn.go` | current connection and its generation | `do`, `reconnect`, `close` |
| NFS bridge | `internal/nfsfs/fs.go`, `file.go` | open `File`s, each with a fork and the generation it belongs to | the `billy` filesystem calls |
| command line | `cmd/goafp/main.go` | one connection, session, volume, fork | the commands |

A filesystem call of the bridge runs inside `connManager.do` on the current
volume. It makes one or several AFP requests, each of which is a
`dsi.Conn.Request` on a connection shared by all calls. `readLoop` hands each
reply to its caller by request ID. When a call fails and its connection is dead,
`do` dials a new one and runs the call again, once; a `File` then opens its fork
again by path.

What makes it hard: replies come in any order and after their callers gave up;
the ID counter has 16 bits; a reply, the connection's death and a deadline race
in one `select`; several calls find the same connection dead; a call may have
been executed before its link died; chunks of one read or write are concurrent
requests; pages of a listing are fetched while others change the directory; a
symbolic link takes five requests and a chmod two, and any of them can fail, be
answered too late, or be followed by somebody else's.

## Modules

| module | models | actions |
| --- | --- | --- |
| `DSIConn` | `dsi.Conn` and its peer | one per atomic step: `Register` ... `Unregister` for `request`, `SendLock`, `SendOK`, `SendErr` for `send`, `ReadFrame`, `Dispatch`, `Deliver` ... for `readLoop`, `Tickle` ..., `CloseStart`, `CloseSocket`, `CloseFail`; the server and the network are external |
| `RequestReply` | what `Conn.Request` promises its callers | begin, execute, return, give up |
| `ConnManager` | `connManager` | `Snapshot`, fn's outcomes, `Check`, `ReconnectSkip`, `ReconnectBegin`, `DialOK`, `DialFail`, `Resnap`, `CloseFS` |
| `NfsFile` | `OpenFile` and the calls on a `File` | one per request, and one per outcome of `do` |
| `ForkRead` | `Fork.ReadAt`, `writeTo` | start, completion and failure of a chunk, the wait, reassembly chunk by chunk, the write of a window |
| `ForkWrite` | `Fork.WriteAt`, `readFrom`, `Truncate`; `File.Write`, `Seek`, `Truncate` | the same for pieces, of which the server may execute one late, and the sum of their counts; `StartWrite`, `RunAgain`, `WriteReturns` for `File.Write`, `Seek`, `Truncate`; writes by others |
| `Enumerate` | `Volume.ReadDir` inside `FS.ReadDir` | a page, the end, an error, a reconnect; changes by others |
| `Retry` | `connManager.do` as an operation of `FS` sees it | `Enter`, `Timeout`, `LinkError` (with `Dial`, `DialFail`), `LinkDown` |
| `FSChange` | `FS.Chmod`, `Chown`, `Chtimes`, over `Retry` | `Sample` (`supportsUnixPrivs`), `Stat`, `Set`, a refusal |
| `Catalog` | `FS.Symlink`, `Readlink`, `MkdirAll`, `Remove`, `Rename`, `mapErr`, over `Retry` | one per AFP request (`CreateFile`, `OpenFork`, `WriteTarget`, `ReadTarget`, `CloseFork`, `SetFinderInfo`, `Mkdir`, `Delete`, `Rename`), refusals, timeout, loss of the link |
| `FSOps` | calls of both kinds that share one connection | those of `FSChange` and `Catalog` |
| `Replies` | the parsers of replies: `reader` (`wire.go`), `parseEntryParams` (`entry.go`), `ParseServerInfo`, and those of `Stat`, `ReadDir`, `ListVolumes`, `OpenVolume`, `StatFS`, `openFork` and `OpenSession` | one per read of the payload |
| `Command` | a run of the `goafp` command, with login | one per request; deferred calls |

`MCDSIConn` and `MCNfsFile` define the symmetry sets for TLC, `MCFSOps` the
scenarios and `MCReplies` the bitmaps; the other modules are their own instances.

Requests carry no payload but what tells them apart. Where a module uses `connManager.do`, it takes it from `ConnManager` in a
coarser grain: a reconnect is one step. `IsAlive` is as late as in the code. A
request can fail because it cannot be written while `readLoop` has not yet seen
the end of the link; `do` then finds the link alive and returns the error. In
`NfsFile` a link is up, broken or known to be dead, and `Notice` is a step; in
`Retry` and `Enumerate` whether a loss has been noticed is a choice when the call
fails. In `NfsFile` a failed dial leaves the dead generation in place of a nil
volume, which the next call finds just as dead.

In `Catalog` a path is a sequence of names, a file is named after the run that
created it, and the target of a link is the call that made it, so that "the
link holds its own target" can be said. In `Replies` a payload is its length:
each kind of reply has a plan, the reads its parser makes, and a count, length
or offset the server sends is chosen when it is read.

Definitions whose comment begins with "Mutant of" are wrong on purpose: each is
a plausible bug in the code it names, and is used to see that a property would
notice it.

## Runs

Deadlock is not checked: every instance makes a bounded number of calls and
then stops.

| run | shows | instance |
| --- | --- | --- |
| `DSIConn_safe` | `pending` is exact although the counter wraps over calls that wait; until it wraps, replies reach their callers, `readLoop` never blocks on one, and the connection implements `RequestReply` | `OpenSession`, two calls and the tickler, four IDs, seven draws |
| `DSIConn_live` | as long as the outgoing stream does not stay full for good, calls return at their deadline and `Close` returns; calls return without a deadline when they are answered or the connection dies; the goroutines end; a failed write ends in a dead connection | `OpenSession`, one call, two `Close`s, the tickler, a stream of one frame that fills; no wrap |
| `ConnManager` | one live connection, no working link torn down, no retry on an old link, results that are true of the server; every call ends, and the manager recovers | two calls, five connections, three faults |
| `NfsFile` | client and server agree on open forks; a call fails for want of a link only if every run of it met a broken one, so that a drop `do` notices is survived | two files, two paths, three generations, two faults (a refusal, a timeout or failed dial, a rename or removal) |
| `ForkRead` | the bytes delivered are the file's, in place, and all of them when nothing interfered | chunks of 2, two in flight, files up to 9 bytes, two changes of length |
| `ForkWrite` | success means written, counts are honest, what `readFrom` counts is a prefix and what a `File.Write` counted stays, the size a `File` keeps is the file's length until something fails | chunks of 2 (a quantum of 5 less a header of 3), two in flight, sources of up to 9 bytes; three uses of a `File`, each a write of 0 to 3, a seek by -2 to 2 from anywhere, a truncation to 0 to 3, or a write by others; the largest length that fits 32 bits is 2 |
| `Enumerate` | an undisturbed listing is exact; a disturbed one is off by no more than others changed | four names, pages of up to 2, three changes, two drops |
| `FSOps` | an update is lost only to a call that overlaps it; a call is skipped only in an outage; a marked link is whole; no fork is left open; nil and "exists" are true of the server; nil means that the effect is there | every two of twelve operations on six trees of three paths, and two links against a removal; three generations, one failed dial, one timeout |
| `Replies` | parsers stay in their block, read each field where the protocol puts it, report a reply cut short, and read back the date that was set | every two fields, all of them and those asked for; pages of two entries; strings of 0, 1, 2 and 255 bytes; 16 dates in place of 2^32 |
| `Command` | connections are closed, releases mirror acquisitions, no request out of turn; every command ends, or `mount` serves, if its requests end | six commands, seven kinds of server |

The bounds are the smallest at which the case in question happens: the counter
wraps over a waiting call, a second call comes late to a reconnect and a third
connection follows, a window is followed by a partial one, a page by a partial
page, a call loses its link twice, a block is one byte too short, two makers of
a link meet a third call that takes its name away. A third call of
`ConnManager`'s, and more than two of most operations of `FSOps`, are left to the
proofs, which hold for any number. `FSOps` is the largest run, with seven million
states; `DSIConn_live` takes longest, two minutes.

Two runs end in a violation and show where the code and what it says of itself
disagree:

| run | the code | the text |
| --- | --- | --- |
| `DSIConn_hung` | a write to a server that has stopped reading blocks for ever, with `writeMu` | README.md: every operation is bounded by a timeout |
| `ConnManager_nilvol` | a call that has reconnected, or was spared to, can run on a nil volume: another call found the new link dead in between and failed to dial | conn.go: fn receives the current volume |

Other limits of the code are conditions of properties that hold, or behaviours
the models have and no property forbids:

- `RoutedRight` ends where the counter wraps: after 65536 requests a late reply
  can reach the call that has its ID by then.
- `do` does not reconnect on a link not known to be dead: not after a timeout, and
  not after a request that could not be written before `readLoop` saw the end
  of the link. `NoticedDropIsSurvived` speaks of the drops it notices.
- `RequestReturns` and `CloseReturns` end where the outgoing stream stays full:
  `Close` sends before it closes the socket, behind whoever holds `writeMu`.
- `ResultIsHonest` and `HonestResult` allow a retried create, rename or removal
  to be refused because its first run took effect.
- A call that reconnects while the filesystem is closed leaves a connection open.
- `ForksAgree` exempts Files with a timed-out request or a failed truncation:
  `OpenFile` drops the `File` when its truncation is refused, and the fork stays
  open until the session ends. `ForksReleased` exempts calls that timed out.
- A File whose path was given to another file is that file after a reconnect.
- `NoopOnlyInOutage` allows chmod to succeed without effect when its own dial
  failed.
- `HonestResult` allows a refusal to come from the dial, whose login or
  `OpenVolume` the server turned down: `mapErr` reads it as if it were about the
  path.
- `CountedIsWritten` speaks of `Write`s that returned nil. A failed one moves the
  cursor by the number of bytes written, which need not be the first ones.
- `SizeTracksEnd`: after a failed or a foreign write the size a `File` keeps is too
  small, so `O_APPEND` overwrites. It is too large, so that appending leaves a
  hole, after a failed truncation, and after a `Write` beyond the end that wrote
  nothing.
- `LinksAreWhole` ends where somebody removes or renames under a running call: the
  mark is set by path. A failed `Symlink` leaves an unmarked file.
- `MkdirAll` passes over whatever exists, so its last name may be a file
  (`NilMeansDone`).
- `ListVolumes` takes a reply that ends before the count for an empty list, and
  `OpenSession` passes over an option cut off behind its type
  (`ErrorsAreReported`).
- Dates more than 2^31 seconds from the start of 2000 wrap (`DateReadsBack`).
- A quantum no longer than the header of a write is ignored.

## Fairness

- `DSIConn`: goroutines are scheduled, so each enabled step of one is taken;
  a deadline need not pass, except in `RequestReturns`, which assumes `Deadlines`:
  the callers of `internal/nfsfs` have one. The server is never obliged to answer,
  nor to read: `RequestReturns` and `CloseReturns` have the proviso
  `[]<>StreamMoves`, because `nc.Write` has no deadline. `DSIConn_hung` shows that it
  is needed. `tickleLoop`'s select is random when both cases are ready; the bound
  on IDs bounds the ticks and stands in for the interval between them.
- `ConnManager`: steps of `do` and the notice of a broken link; fn ends because
  its requests have a timeout. `Recovers` asks only about calls that begin after
  the last fault.
- `ForkRead`, `Enumerate`: a sequential program goes on, and every request ends in a
  reply, an error or its deadline.
- `Command`: only local steps are fair. That requests end is `RequestsEnd`, a
  hypothesis of `Ends`: a command runs under a deadline, which a write to a
  full stream does not heed. `Serve` need not return.

Where a module takes for granted that requests end, it takes `RequestReturns` with
its proviso.

## Proofs

`DSIConn_proofs`, for any sets of calls and closers, any ID space, any buffers:
the type invariant, `PendingExact`, `RoutedRight`, `ReaderNeverBlocks` and that
`fail` never replaces an error (`ErrorIsFinal`). `RoutedRight` is not inductive. The invariant follows a
request and its reply through the places they pass: the outgoing stream
(`OutInv`), the server (`SrvInv`), the incoming stream (`InnInv`), the frame
`readLoop` holds (`MsgInv`), the caller's channel (`ChInv`), the result
(`GotInv`). In each a frame carries the ID of its call, and a call's frame is in
one place only. `IdInv` adds that IDs are unique until the counter wraps; then
`Dispatch`, which finds a caller by ID, finds the right one (`RouteInv`).
`QuietInv` disposes of the steps that touch none of these.

The same module shows that until the counter wraps every step of a connection is
one of `RequestReply` (`Refinement`), so a connection that draws fewer IDs than there
are implements it (`RefinesRequestReply`). Each step maps to a begin, an execution, a return, a
step of giving up, or a stutter.

`ConnManager_proofs`, for any set of operations and any bounds: the type
invariant, `OnlyNewestLives`, `RetryOnNewerLink`, `ReconnectClosesOnlyDead` and
`ResultIsHonest`.
`MgrInv` ties the generation to the last successful dial, `SnapInv` says what an
operation may conclude from the generation it read, and `PcInv` what it knows at
each point of `do`; with `DialInv` they give that a connection is closed only by
an operation that found it dead. `AnswerInv` adds that what `fn` returned is the
server's verdict on its last run.

`FSOps_proofs`, for any number of calls, paths, operations, generations and
faults: `NoopOnlyInOutage`, `ForksReleased`, `HonestResult` and
`LostOnlyToOverlap`. None of them is inductive as it stands.
- `ForksReleased`: a fork at the server belongs to a call that holds it and will
  close it, that waits on a lost answer, or that timed out, and its link is the
  living one (`ForkInv`); so a call that finds its link dead owns none.
- `HonestResult`: `HonestInv` says where a call can be and what is known there.
  Past its first request that request was served, and the name it made is there
  unless somebody took it away (`NamesStay`); in its first run and before that
  request it has changed nothing.
- `LostOnlyToOverlap`: what a call has set is in the object, and in whatever
  another call has read and is about to write back, unless that call began to
  read before or somebody has set the field since (`LostInv`); an excuse, once
  there is one, stands (`ExcuseStands`).

`LinksAreWhole` and `NilMeansDone` build on it. As long as nobody was disturbed,
a file has its creator's target or none, at the path its
creator was given, and only its creator writes to it (`FileInv`, `SymlinkInv`);
a call that reaches the mark finds its own file, written, under its path; a
reader that found the mark reads what was whole and stays so (`ReadlinkInv`).
`MkdirInv` adds that the names `MkdirAll` has passed are directories.

`NfsFile_proofs`, for any number of Files, paths, calls, generations and faults:
`ForksAgree` and `NoticedDropIsSurvived`. Both speak of the time between calls; the
invariant says what holds inside one.
- A fork at the server is the one its File holds on this generation, or the
  answer that would have told the File was lost with the link (`OwnInv`);
  conversely a fork held on the living link is open until a `Close` is answered
  (`HeldInv`). This needs that IDs are unique in a session (`SrvInv`), and that a
  File's generation is never newer than the one its call runs on (`GenInv`), so
  that `NeedsFork` decides rightly whether to open it again (`CallInv`).
- A call has met at least as many broken links as it has outlived generations,
  and one more if the present one is broken, noticed or not (`HitInv`). So each
  of its runs that failed for want of a link had one of its own to lose.

`ForkRead_proofs`, for any sizes of chunk, window, buffer and file, any number of
requests in flight and any changes of the length: `BytesInPlace` and `WholeFile`.
`ReadInv` says what a reply can hold, and how much exactly if nobody changed the
length; `CopyInv`, that when reassembly comes to a chunk all before it were
complete, so that `n` is where the chunk starts and the buffer is filled up to
there; `ResultInv`, what `ReadAt` has returned; `SinkInv`, that what was written is
a beginning of the fork, and all of it at the end.

`ForkWrite_proofs`, for any chunk, quantum, header and source, and any number of
writes, seeks, truncations and foreign writes with any lengths and offsets:
`CountIsHonest`, `CountedIsWritten` and `SizeTracksEnd`. A piece counts only if the server executed it (`PieceInv`), and
the pieces do not overlap, so the sum is never more than the bytes that are in
the file up to the piece it has come to, and exactly their number without an
error (`SumInv`). `PrefixInv` keeps what was counted; `SizeInv` bounds the end of
the file, and what is still on the wire, by the size and the `Write` under way.
Two doubts end the equality of size and length: `"late"`, when a truncation
succeeds while a piece is still on the wire, and `"gap"`, when a `Write` beyond
the end writes nothing.

`Session_proofs` has two parts.
- `Enumerate`, for any names, pages and changes: `ExactWhenQuiet` and
  `OffByChanges`. What counts is which entries lie ahead of the start index. One
  that was there all the time and is neither listed nor ahead is missed, and a
  removal makes at most one of these (`MissInv`); one that is listed and ahead
  will be repeated, and an addition makes at most one of these (`RepeatInv`).
- `Command`, for any server: `NoConnectionLeft`, `TeardownMirrors` and
  `ServerIsReady`. The deferred calls are a beginning of one list, and what is left
  of the plan suits their number (`PlanInv`); what the server holds covers the
  deferred calls still to run, as long as the link works (`HeldInv`); and what was
  sent ends in the mirror image of those that ran (`SentInv`).

`Replies_proofs`, for replies of every length, any bitmaps and any counts, lengths
and offsets in them:
- `InBounds`. A read begins where the parser is, so `BoundsInv` adds that this is
  never before the block, and that what remains of the plan is a sequence of
  steps of known width. Two lemmas carry the checks of strings and the start of
  a block (`PascalInBounds`, `BlockInBounds`).
- `ErrorsAreReported`. Behind every read that may fail the plan has a look at
  `r.err`, and once there is an error a look is still to come (`SealedInv`). The
  list of volumes is an exception, followed on its own (`VolumesInv`); the options
  of `OpenSession` are read without a `reader`, and at most one byte of them is
  left.
- `FieldsInPlace`. Where a field lies is a sum over the fields before it in the
  layout. It is not proved by induction: the two layouts are fixed lists of 15 and
  16 fields, so each sum gives the next (`SumsExist`). The ifs of
  `parseEntryParams` come in the order of the layout, for any bitmap (`Slots`,
  `EntryRun`). Hence in a block the parser is where the next field lies, and what
  remains of the plan is one field behind another until the block is left
  (`PlaceInv`). A block is left before the next entry, and ends where that entry is
  due (`DueInv`).
- `DateReadsBack`, from the arithmetic of `afpDate` (`DateUndone`) for any epoch and
  any even range in place of 2^32.

Assumptions: the sets of actors are disjoint and do not contain `None`, the
bounds are natural numbers (`ActorsAssumption`, `BoundsAssumption` and their
counterparts), sizes of chunks and numbers of requests in flight are not zero;
for `FSOps`, that the prefixes of a path are paths, that a link exists at one path
at most at first, and that what is renamed is a file or an
empty directory (`CatalogAssumption`, `FSOpsAssumption`).

What `FSOps` takes from its surroundings: the server refuses no close of an open
fork, drops a session's forks when its link dies, and serves a request before
the caller gives up or not at all (`DSIConn` and `ForkWrite` have late ones). A link
may be lost unnoticed (`Unnoticed`). A dial fails for want of a server, or with a
result code of the login or of `OpenVolume`, which `Catalog` hands to `mapErr`
(`DialCodes`; "exists" is not among them); `outage` remembers whose dial failed.
The run on a nil volume that `ConnManager_nilvol` shows is not followed.

Model-checked only: all liveness, which is out of the prover's reach. Every safety
and action property that a passing run checks has a theorem.

## Not modelled

- `ForkWrite` follows which positions were written, not by which `Write`, and a
  truncation is executed at once or not at all. Others only append.
- The parsers of the login's replies (`uam.go`, `srp.go`) are not among the kinds of
  `Replies`.
- `header.go` and the builder of `wire.go`: fixed layouts without a branch that
  can fail. The names of result codes in `result.go`.
- What a value means once it is parsed: attributes, Finder flags, `fileInfo`.
- The arithmetic of DHX2 and SRP: whether a check succeeds is a choice.
- `serve.go` and the NFS library: their concurrency is the concurrent calls.
- `resolve`, `Join`, `Chroot`, `splitPath`, Unicode normalisation: pure
  functions on strings. `TempFile` is `OpenFile` under a random name.
- The renaming of a directory with something in it.
- URL parsing, formatting, output, the integration helper `mkbig`.
- `NfsFile` and `FSOps` use `connManager.do` in the coarse grain of `Retry`; that
  `ConnManager` implements it is not shown.
