# Verification of the Nodima SDK

The SDK is what a *runner*, a sandboxed node of a pipeline, is built with: a
guest library that speaks the runner protocol to its host over stdin and stdout
(Go in `src/go`, Rust in `src/rust`), the framed transport under it
(`src/runner/v1`), and the tools that build, archive, load and verify runner
packages (`src/packagekit`, `src/cmd`). This directory holds TLA+ models of the
parts that keep state or interact, the TLC configurations that check them, and
proofs checked by TLAPS. Citations such as `sdk.go:206` are lines under `src/`.

## 1. Inventory

| Component | State it keeps | Operations | What is hard | What makes it correct |
|---|---|---|---|---|
| Runner session, `go/sdk.go` | two mutexes, `buffered` inputs, identity, request counter | `Next`, `Emit`, `Send`, five capability methods, `Decode`, `Identify`, `Fail`, `Main` | goroutines share one stream each way; a call reads inputs that are not for it; a cancelled call leaves its answer behind; a frame the decoder refuses may be anyone's | inputs once and in order, end last, answers to their own calls, no operation stuck |
| Frame transport, `runner/v1/transport.go`, `writeAll` of `codec.go` | position in the stream, bytes of the frame under way | `EncodeControl`, `EncodeBatch`, `EncodeMessage`, `Decode`, `DecodeMessage` | short reads and writes, failure inside a frame, two ends with separate limits | whole frames in order, nothing written is refused, a clean end loses nothing |
| Package publication, `builder.go`, `assemble.go`, `archive.go` | the file system: temporary, output path | `BuildGo`, `AssemblePackage`, `ArchiveDirectory` | two processes, one path; kill and power failure, where renames are not synced; sources edited meanwhile | complete packages appear at once and stay; no leftovers; archives whole |
| Package loading, `loader.go`, `LoadArchive` | bytes read so far, files verified | `LoadDirectory`, `LoadArchive` | files change under the reader, lying ZIP headers, map order | read no more than the limit, accept exactly what is declared |
| Rust guest, `rust/src/lib.rs` | session context, the batch under way | `run`, `run_session`, frame I/O | failure on every path, one verdict at the end | answers each batch, one verdict, exits |
| Message validation, `message.go`, frames of `transport.go` | none | `Message.Validate`, `EncodeMessage`, `DecodeMessage` | 23 types, each with parts of its own; sender and receiver check different forms | what one end sends the other takes if its CBOR decoder does, and it says the same |
| Session headers, `session.go` | none | `Validate` of starts, topologies, credits, previews | edges named from both ends | two accepted starts agree on the edges between them |
| Manifests, `manifest.go`, UI descriptors, `ui.go`, `loader.go` | none | `Validate`, `decodeUIManifest` | counts stand in for inclusions | every file with a role is loaded, the whole configuration is presented |
| Arrow conversion, `arrow_batch.go` | none | `BatchToArrow`, `ArrowToBatch` | validity slices may be absent, five types | cells and absences survive, a relay changes nothing |
| `nodima-package` command, all-CBOR benchmark codec, test guest | none | – | – | – |

How they interact: `Main` makes a session on the process's stdin and stdout and
calls the runner; the session sends through one `TransportEncoder` and reads
through one `TransportDecoder`; each of these validates and converts messages.
The host at the other end is not in the repository. It owns the order of inputs,
the answers to capability requests, and when the streams close. The builder
verifies what it built with the loader before it renames it into place, and the
archiver loads the directory it archives.

The behaviour a test would hardly reach is listed, each at its line, under
`hazards` in `PROJECT.json`, with the properties that are about it.

## 2. Modules

| Module | Role |
|---|---|
| `RunnerSession` | the Go session, its goroutines and the host at its pipes |
| `SessionPromise` | what a guest sees of it: a queue of inputs, calls one after the other |
| `MCRunnerSession`, `RunnerSessionProofs` | the guests TLC runs it with; theorems |
| `FrameTransport` | senders, an encoder, a byte stream and a decoder |
| `FramePipe` | what transport promises: numbered frames, in order, until one is torn |
| `MCFrameTransport`, `FrameTransportProofs` | messages at the limits; theorems |
| `PackagePublish` | processes that build, assemble and archive on one file system |
| `PackageShelf` | what publishing promises: empty, then one complete package for good, as long as the power is on |
| `MCPackagePublish`, `PackagePublishProofs` | who runs which operation, and where; theorems |
| `PackageLoad` | loading a directory or an archive under limits |
| `ManifestRules`, `UIRules` | what manifests and UI descriptors must satisfy |
| `PackageDocuments` | `PackageLoad` with those rules for its contents |
| `MCPackageLoad`, `PackageLoadProofs`, `PackageDocumentsProofs` | small packages; theorems |
| `RunnerABI` | what the rules have in common: absent parts, empty texts, distinct names |
| `MessageRules`, `SessionRules`, `BatchConversion` | what messages, session headers and batches must satisfy, and their frames |
| `MessageExchange` | messages passed on from one end to the next |
| `MCMessageExchange`, `MessageExchangeProofs` | messages of every type with every part; theorems |
| `RustGuest`, `RustGuestProofs` | the Rust guest and its host; theorems |
| `GuestPromise` | what a guest promises its host: ready, an answer for each batch, one verdict |

Two compositions are made in TLA+: `PackageDocuments` extends `PackageLoad` with
`ManifestRules` and `UIRules`, and `MessageExchange` extends `MessageRules`,
which extends `SessionRules` and `BatchConversion`. The other layers meet by
abstraction: a message of `RunnerSession` and of `RustGuest` is a frame that
`FrameTransport` delivers whole (a torn one is the last that `RustGuest`'s host can read), its contents are those of `MessageExchange`, and
`PackagePublish` takes `LoadDirectory`, which `PackageLoad` has in detail, as
one step.

### RunnerSession

`inbound` and `outbound` are the two pipes, of frames; `decoderMu`, `encoderMu`,
`buffered`, `executionID`, `nodeID` and `nextRequestID` are the fields of
`protocolSession`. Each goroutine has a `pc` among the points where it can wait
or be overtaken: at a lock, before a stream operation, at the test of its
context, between the two strings of the identity. What happens between two such points under a mutex is one action.

* `Start`, then `EnterReader`, is `Next`; `TakeMessage` the head of the buffer or the
  stream; `NextInput`, `NextEnd`, `NextUnsolicited`, `NextClosed`, `NextUndecoded` the five ways on.
  The two strings of the identity are assigned in a step each (`NextAssignExecution`,
  `NextAssignNode`; for `Identify`, `IdentifyExecution`, `IdentifyNode`), and read in a step each,
  by a call (`CallPrepare`, `CallNode`) under `decoderMu` and by `Fail` (`StartFail`, `FailNode`)
  without it; such a read may see a string of one length with the bytes of another (`RacyRead`).
* A frame may be one that the decoder refuses (`spoiled_input`, `spoiled_answer`): `Next`,
  `Decode` or a call takes it from the stream and returns the error, and the session goes on
  (`ReadSpoiled`). An input that was in it is in `lost`.
* `CallPrepare` draws the request ID, `CallWrite` sends under the second mutex,
  `CallRead` and `CallCancelled` are the loop with its test of the context,
  `CallBuffer` sets an input aside, `CallAnswered` and `CallMismatch` return.
* `StartEmit`, `SendWrite`, `SendRefused`: `Emit`, `Send` and `Fail`.
* The host sends `InputCount` inputs, from initialize to the terminal marker,
  answers requests in any order, and may close stdin. The guest's decoder refuses up to
  `MaxSpoiled` of its messages.
* `HeaderSpec` is `Spec` for guests that use `Decode` for what comes first and decode nothing once they
  have made a request; `PatientSpec` is `Spec` for guests that cancel no call, with hosts
  whose every message decodes.

Bounds: `MaxRequests` calls get an ID, `PipeCapacity` frames fit in a pipe, `MaxSpoiled` frames do
not decode, and one goroutine
at a time waits to begin a call (waiting callers differ in nothing but their name).

### FrameTransport

Bytes are counted in units. A unit carries the number of its frame and its
position, which the decoder uses in the place of magic and encoding. `WriteSome`
is one turn of `writeAll`'s loop, `WriteFails` an error at any point of a frame,
`ReadSome` one read under `io.ReadFull`. `Fits` is every comparison on the way
out (`EncodeBatch`, `limitedWriter`, `writeFrame`), `Admits` and `Decodes` those
on the way in. After a torn frame the decoder may take the next sender's bytes
for the rest of it: `DecodeMixture` then accepts or refuses what no one wrote.

### PackagePublish

A process is given a `job`: an operation, its output path and, for the archiver, the
directory to read. `disk` maps each path to an entry: files with version numbers for contents, a
manifest of digests (the same numbers), whether a ZIP is sealed and synced, and
whether somebody edited it, or the package it was made from, since. A system call is a step; a process may
fail or be killed at each, and the author may edit sources, or a package that was published, at any
time. No directory is ever synced, so a power failure undoes any renames onto an output (`undo` has
what they met) and spoils files that were not synced (`PowerFailure`); it stops every process, and
`MaxOutages` bounds it. The removal deferred to the return is `Cleanup`, or `CleanupFails`, since
its error is ignored; whether the name is forgotten after the rename (`builder.go:186`) or not
(`assemble.go`, `archive.go`) is `ForgetTemporary`. `Heavy` are the contents that fit in a package
while the ZIP of them is larger than `LoadArchive` takes (`TooLarge`).
`drawn` remembers the temporary names: `MkdirTemp` and `CreateTemp` may draw one
again once it is free, but only within one kind of operation, whose pattern it has.

### PackageLoad

A file is its size and a digest the size it is of. `Change` alters or removes a
file between any two steps of loading a directory. `Extract` takes one archive
entry, with its name, which may be none of a package's paths, the size its header declares, the
size it has, and whether it is a regular file. `NextFile` takes
any file that is left, as `range` over a map does. Here the contents that are valid
for a kind of file are constants. `Legal` says of a manifest, without a loop or a running sum, that
its package is within every limit; `LegalLoads`, that such a package is not refused.

### ManifestRules, UIRules and PackageDocuments

`PackageDocuments` gives those constants: a content *is* a manifest, a schema or a descriptor,
and valid if the rules say so (`DocumentsAssumption`, which TLC evaluates). A path is the
sequence of its segments, so that `PackagePathValid` can say what `path.Clean`
leaves alone. Of a schema there is what the loader looks at: the type of each
property and its `enum`. Which texts the patterns for IDs, versions and keys
match are constants.

### MessageRules, SessionRules, BatchConversion and MessageExchange

The parts of a message are a function whose domain are the parts that are there, and
`Validates` is `Message.Validate`. A batch's column has a slice of values for each data type
and a validity slice that may be empty, a column of an Arrow record has cells;
`ToArrow` and `FromArrow` convert. `Frame` and `Message` are
`EncodeMessage` and `DecodeMessage`, with the parts a batch frame drops, and `Unmarshals` what the
decoder's CBOR mode takes of it: text that is UTF-8, and maps up to `MaxMapPairs` pairs, of which
the encoder tests neither.
`MessageExchange` encodes a message, decodes it at the other end and passes it
on, up to `MaxHops` times, and may then send one that belongs to it: the start
of the other agent, the topology, the answer to a request. `received` holds what
got there before.

### RustGuest

Every `?` of `run_session` is an action that leads to `report`, where `run`
writes the failed message and exits. A frame is four writes and a flush: when one fails
(`WriteFails`, `ReportFails`) the host has nothing of the frame, a torn part or all of it
(`PutPart`), the failed message may follow, and what the host can read is what is in front of the
first torn frame (`Written`). The host feeds batches and end markers and
may cancel, close stdin or stop reading at any point. `BatchesFirstSpec` is for hosts that
send no batch once they have ended a port.

## 3. Runs

Sizes are those of TLC with two workers.

| Run | States | Question |
|---|---|---|
| `SessionConcurrent` | 2.2 million | No circular wait, safety and refinement of `SessionPromise` with a reader, a caller and a goroutine that emits and calls: three inputs, two requests, pipes of two frames, one frame that does not decode |
| `SessionAgent` | 2.9 million | An agent's use: a goroutine that decodes, reads and calls in any order, next to one of `Identify` and `Fail`; a request names one whole identity though it is assigned and read string by string, and the end comes last even if `Decode` overtakes what was set aside |
| `SessionReads` | 49 thousand | Liveness: every operation returns, a reader reaches `io.EOF` |
| `SessionStale` | violation | see findings |
| `PublishPackages` | 1.5 million | Two builds, a build and an assembly, or an archiver and who publishes the directory: one output, names that repeat, edits of sources and packages, one power failure, removals that fail |
| `ArchiveOverwrites`, `ArchiveStale` | violations | see findings |
| `TransportFrames` | 81 thousand | Two senders, three frames, sizes at and past each limit, a stream of three units |
| `LoadPackage` | 791 thousand | Directories that change and some that nobody touches, 48 archives, with manifests, schemas and descriptors right and wrong |
| `LoadOrder` | violation | see findings |
| `RustLifecycle` | 8.9 thousand | One port, three batches, a host that stops anywhere, writes that fail in the middle of a frame |
| `MessageExchange` | 53 thousand | Every type with every part and each wrong combination of parts; batches of up to two rows and columns with every validity slice; the starts, topologies and answers of small sessions, some with text or maps the decoder does not take; two hops |

Why the bounds are enough for what they are for: a session needs an input to be
set aside *while* another is on its way and a second call to meet the answer of
a cancelled first, hence three inputs and two requests; pipes of one or two
frames make both sides block. Three files and one manifest reach the package
limit exactly, exceed it by one and leave an empty file. A header of two units
and a frame limit of four let a frame be cut inside the header, between header
and payload and inside the payload. Two processes suffice for a race for a path;
the archive finding needs a third to publish the directory first. A second hop is
what tells a conversion that is stable from one that is not, and two rows tell
an absent validity slice from one that is too short. The theorems below hold for all
bounds; the runs show that what they assume is met and that the cases happen.

`CHECK_DEADLOCK FALSE` is set for `PackagePublish`, `PackageLoad` and `MessageExchange`, whose
operations end. The others loop in their final states (`GuestEnded`, `Quiet`,
`Exited`), so that a deadlock anywhere else is found.

### Fairness

* A goroutine or process that can take a step does: weak fairness.
* Acquiring a mutex is strongly fair: `sync.Mutex` hands itself over in arrival
  order to a waiter that starved for a millisecond.
* The host is live: it drains stdout, answers requests it has read and sends its
  inputs. It is *not* assumed to close stdin: the terminal marker exists because
  it does not (`sdk.go:116-118`).
* `ReadersFinish` also assumes that the guest keeps calling `Next`. Both properties leave out the
  runs in which the terminal marker itself did not decode (`EndLost`): no reader is then released.
* For frames, the decoder goes on reading; nothing makes a writer succeed.
* For the Rust guest, the guest runs and the host feeds it; the host may stop reading. A write to a
  host that has left stdout fails eventually; to one that reads, a failure may but need not come
  (`Proceed`).

## 4. Findings

* `SessionStale`: a capability call whose context is cancelled after its request
  was sent leaves the answer on the stream; the next reader fails with
  "received an unsolicited capability response" (`sdk.go:114`) though this
  session asked for it. `Correlated` shows that this, and a call failing
  for another's ID, happens in no other way, and that no call ever *succeeds*
  with such an answer. Without cancelled calls and frames that do not decode it does not happen
  (`UnsolicitedIfPatient`).
* `ArchiveOverwrites`: two archivers of one output both find it absent; the
  second rename replaces the first archive, against `archive.go:25`. The path never
  shows anything but a whole archive (`ReplacedWhole`), and one archiver for a path overwrites
  nothing (`NothingOverwritten`).
* `ArchiveStale`: a file edited after `LoadDirectory` verified it and before it is
  read again goes into the archive, against "verified" in `archive.go:24-25`. Without
  such edits the archive is what was verified (`ArchivesVerified`).
* `LoadOrder`: a package of exactly 96 MiB with an empty file loads or is
  refused, depending on the order of a map (`loader.go:82`). No other package within the
  limits is ever refused (`LegalIsLoaded`).

Met while modelling, without a run of their own:

* `RustGuest` with two ports violates `CompletedMeansConsumed`, because the guest
  takes the end of any port for the end of all (`lib.rs:144`); set
  `Ports = {"a", "b"}` in `RustLifecycle.cfg` to see it. No batch is lost if the host
  has sent all of them before it ends a port (`CompletionAnswers`).
* `Session.Decode` does not look at the inputs set aside and overtakes them if it is
  called after a capability call; its comment limits it to the header that comes first, and
  so used it loses nothing (`HeaderSpec`).
* A call that meets an input the decoder refuses ends with that error, and the reader never hears
  of the input (`sdk.go:202-205`).
* `BuildGo` and `ArchiveDirectory` do not sync the directory of their output: a publication that was
  reported may be gone after an outage. The errors of their removals are ignored, too.
* An archive of a package near 96 MiB may itself exceed what `LoadArchive` takes (`archive.go:105`).
* When the flush of `completed` fails, the Rust guest leaves it in the buffer of stdout and writes
  `failed` behind it, so a host may read both (`Retract` in `GuestPromise`).
* `BuildGo` renames its package into place before it loads it from there
  (`builder.go:188`), so that it may return an error though the package stays.
* A path that is `..` alone passes `ValidatePackagePath`; the loader's `os.Root`
  still refuses it. README or icon may be the entrypoint's file.
* A batch message may carry an error, a log, progress or configuration;
  `Validate` allows them and the transport drops them. For this reason
  `SameContent` looks at a batch message's cells and not at its other parts.
* The limits that the UI descriptor states in characters count bytes (`ui.go:60-66`).
* The decoder's CBOR mode has limits on pairs and elements, and a test of texts, that the encoder's
  has not (`Unmarshals` in `MessageRules`, `readable` in `FrameTransport`).
* The Rust guest does not check the ABI of batch metadata, reads a payload before it looks
  at the kind, and its failed message lacks the identity.
* The package digest in a session start is only held to its length.

## 5. Proofs

TLAPS proves, for all values of the constants, every invariant, action property
and refinement that a passing run checks:

* `RunnerSessionProofs`: `TypeCorrect`, `LocksHeld`, `NobodyWaitsInACircle`, `AnswersCorrelated`,
  `OneRequestInFlight`, `RequestsOrdered`, `RequestsIdentified`, `EndComesLast`; for guests that
  decode nothing once they have made a request (`HeaderSpec`), `Conservation`, `InOrder`
  and `PromiseKept`, the refinement of `SessionPromise`; and for guests that
  cancel no call (`PatientSpec`), `UnsolicitedIfPatient`. A guest that does not use `Decode` at all
  uses it as `HeaderSpec` wants (lemma `NothingDecoded`).
* `FrameTransportProofs`: `TypeCorrect`, `NothingRefused`, `CleanEnd`,
  `ArriveInOrder`, the refinement of `FramePipe`, and `LimitsAgree`, that whatever the encoder's
  comparisons let through passes the decoder's.
* `PackagePublishProofs`: `TypeCorrect`; if names repeat only among builds
  (`NamesApart`), `TemporariesKept`, `TemporariesGone` and `ArchivesWhole`; if also no two processes
  archive to one path (`ArchivesApart`), `SuccessIsThere`, `NothingOverwritten` and `ShelfKept`, the
  refinement of `PackageShelf`. With `NamesApart` alone, `ReplacedWhole`: what is at an output keeps
  its kind, maker, manifest and files unless it is edited, gives way only to a whole archive, and is
  taken away or spoiled by nothing but a power failure; and if nobody edits what is published,
  `ArchivesVerified`.
* `PackageLoadProofs`: `TypeCorrect`, `BudgetKept`, `LoadsDeclared`, `ArchiveExact` (the loader
  accepts nothing else) and `LegalIsLoaded` (it refuses nothing else).
* `PackageDocumentsProofs`: `RolesAreLoaded`, `ConfigurationPresented`.
* `MessageExchangeProofs`: `NothingIsLost`, `ContentArrives`, `RelaysAgree`,
  `AnswersHaveResults`, `EdgesMeet`, `StartsConnect`.
* `RustGuestProofs`: `TypeCorrect`, `PromiseKept`, the refinement of
  `GuestPromise`; `CompletionAnswers`, for any number of ports and a host that sends no batch
  once it has ended one (`BatchesFirstSpec`); and, for at most one port (`OnePort`) and any host,
  `CompletionConsumes`.

They assume the named `ASSUME`s of the modules, which TLC evaluates in the runs, and
the conditions in parentheses. That a package has finitely many files is one of them: it lets the
bytes of a package be counted without a sum. Each condition is where the code needs it, so
that with a finding of section 4 there is a theorem that says where it ends:

| Without | fails | with it holds |
|---|---|---|
| `HeaderSpec` | `InputsConserved`, `DeliveryInOrder` | `Conservation`, `InOrder`, `PromiseKept` |
| `PatientSpec` | `UnsolicitedIsUnrequested` (`SessionStale`) | `UnsolicitedIfPatient` |
| `ArchivesApart` | `NeverOverwritten` (`ArchiveOverwrites`) | `NothingOverwritten` |
| no edits of packages | `ArchiveVerified` (`ArchiveStale`) | `ArchivesVerified` |
| no empty file at the limit | `LegalIsAccepted` (`LoadOrder`) | `LegalIsLoaded` |
| `BatchesFirstSpec` or `OnePort` | `CompletedMeansConsumed` | `CompletionAnswers`, `CompletionConsumes` |

TLC also found no violation under these conditions: of `BatchesAnswered` with
`BatchesFirstSpec` and two ports in `RustLifecycle.cfg`; of `DeliveryInOrder` with `HeaderSpec` in
`SessionAgent.cfg`; of `UnsolicitedIsUnrequested` with `PatientSpec` in `SessionConcurrent.cfg`
(two inputs and pipes of one frame); of `ArchiveVerified` and `PublishedStays` with
`EditsPublished = FALSE`, `NamesRepeat = FALSE`, one asset and `BuildArchiveArchive` in
`PublishPackages.cfg` for three processes, and of `PublishedStays` with edits and two outages as
well.
`NamesApart` is about random names: one is drawn again at most among builds, which
forget theirs after the rename. An assembly or an archive keeps its name until
its clean-up, and would remove what another process made meanwhile under the
same one; there the code relies on a random name not coming twice.

**Session.** `Typed` is `TypeOK` with `CallBound`, without which the request
counter could pass its bound. `LockInv` is inductive on top of it and gives mutual
exclusion. `InputInv` adds `ClaimInv`, that an input taken and not yet returned
is the successor of the last one delivered and its taker holds the mutex;
without it a step that returns an input could not be related to the queues.
`InputsConserved` then says that buffer and pipe continue the claimed inputs
without a gap but for those lost to the decoder, and each action moves the cut between them by at most one
(lemmas `AheadOfAppend`, `AheadOfTail`, `TakeInput`). Under `HeaderSpec` a `Decode` meets
an empty buffer and no call (`Untouched`), so it takes an input as `Next` would
(`DecodeTakes`). No circle of goroutines waits: `LockInv` puts each holder of a mutex where its
`pc` says, and the encoder's holder waits for no mutex at all. `CallInv` carries, for
requests, that a draft has its caller's ID (`DraftInv`), that every identifier
under way is known (`KnownInv`) and occurs once (`OnceInv`), and what results say
(`ResultInv`); a call that waits holds the mutex, so the only other identifiers
under way are abandoned ones. `PatientInv` says that without cancellation and undecoded frames a
call gives up only at the end of the stream, so no abandoned answer is ever ahead of
another reader (`OnlyOwnAnswers`). The end needs none of the conservation, and so no condition
on `Decode`: `QueueInv` says that the terminal input is the last one in its queue, that the
pipe holds no input once it is set aside, and that the host has then sent everything; taking it
leaves nothing (`EndIsOver`), and from there no step brings another input (`OverStays`).
`IdentityInv` has `StringsInv`, that the two strings differ only while a goroutine is between their
assignments, mutex in hand (`StringsAgree`), and follows them from there through a request that has
the first and not yet the second (`RequestWhole`) to the pipe.

**Transport.** The invariant is `Flow`. Put the last unit the decoder has, the units of
the stream and the unit to be written next in one `Line`. `LineInv` says that a unit is followed
by the rest of its part and then by the first unit of the next part, as long as no torn
frame comes into it; it speaks of all units of a part at once
(`Later`), so that whole headers and payloads follow without an induction over
their length. `TornInv` says that what precedes the first torn frame is there to
its end, and `SyncInv` that the decoder is at the frame its results say. A step of
the writer puts units behind the line (`Extend`, `WriteLine`), one of the reader
moves the line's start (`Advance`). `EndInv` then makes of an empty line at the
end that everything was read.

**Publication.** `PlaceInv` ties a process's `pc` to whether it has a temporary, `OwnInv` says
that no two processes have one name and what is under a name is its holder's.
`ContentInv` follows contents from the sources into the temporary (`DraftInv`, by
`pc`) and to the output (`PublishedInv`); `StandInv` says that an output is
whose process succeeded. `UndoInv` says that what a rename met, and a power failure may bring back,
is a whole archive in the place of an archive. For `ReplacedWhole` it is enough that what is renamed onto an output is
finished (`ReadyToPublish`) and that no step but a rename changes what kind of thing an output is
(`OutputsKept`). For `ArchivesVerified`, `Unedited` says that nothing on disk is edited: what a
process writes is edited only if what it copies is (`WorkUnedited`).

**Loading and documents.** `RoomInv` says that what the file at hand may take fits in what is
left, so the sum stays within the limit (`WithinBudget`); `VerifiedInv` that
what was kept was verified; `EntryInv` that the names seen are those of the
entries passed, each once; `OrderInv` ties them at acceptance. That nothing legal is refused has an
invariant of its own, `LegalInv`: a legal package is not refused yet (`OnItsWay`), what the loader
has seen is the package's, and `total` counts the bytes of the files behind it. The sum over
files read in an unknown order is the number of elements of a set of bytes, to which a file
adds its own (`BytesAdded`); hence what is left of the limit holds every file still to come
(`RoomForAll`). `ManifestInv`
adds that past the manifest it is a valid one. For descriptors, as many distinct options as
values, each of them a value, are all the values: a counting argument on finite sets.

**Messages.** That a message an end took is not refused by the next rests on one lemma
(`RecordOfBatch`): a batch that came out of a record goes into one again. `ExchangeInv` says that a message held after a hop validates, has the content of the
first, and is what its own frame decodes to; the lemmas on columns and records do
the rest.

**Rust guest.** `PromiseInv` counts answers against batches taken, by `pc`, in front of the first torn
frame, and says that there is none until a write failed and that afterwards only the report is left.
`ClosedInv` has a completion that the host can read stay true whatever came of writing it.
`ConsumedInv` says that each batch that was sent was answered, is with the
runner or is still to come, and that no batch is behind an end marker; this is inductive if no
batch is sent after the first marker, which `OnePort` implies (`EndOfOne`).

Only model-checked: liveness (`EveryOperationReturns`, `ReadersFinish`,
`SendReturns`, `WrittenIsRead`, `GuestExits`), which is out of the prover's reach,
and the counterexamples of the findings. `LocksHeld`, `OneRequestInFlight` and the theorems of the table
for which section 3 has no run are proved and not among the runs' properties.

## 6. What is not modelled

* The text of IDs, versions, keys and digests, and what progress, log fields and
  configuration hold: nothing in the code depends on more than whether a
  pattern matches.
* `Main` and `Run`: they make the session, call the runner and report its error with `Fail`.
* Values in columns are opaque, and CBOR and Arrow IPC encodings are what they decode
  to. Of what CBOR may fail on, `MessageExchange` has text that is not UTF-8 in the address and
  maps beyond the decoder's cap; text elsewhere, nesting and arrays are left out, as they are
  refused in the same way. Arrow IPC is taken not to fail on what Arrow wrote.
* I/O errors of the loader: an operation that fails to read returns the error and changes nothing.
* After a power failure, the name of a temporary that an undone rename brings back, and ways of
  spoiling a file other than spoiling all of it.
* Whether an entrypoint compiles and a schema is a JSON schema: wazero and the schema
  library decide it.
* What an agent does with credits, starts and topologies: the code that uses these
  messages is not in the repository, only their checks are.
* The command line, which only calls what is modelled, the comparison codec and
  the test guest.
* The runner itself, the host and the compiler, which are external.

## 7. Plan

Done: the session first, since all runners depend on it; then publication and
transport; then loading and the Rust guest; then the rules on messages, manifests and
descriptors; and the proofs of all of them.

What could come next:

1. A guest of two goroutines that both read: `EndIsLast` and the theorems cover
   it, `ReadersFinish` has one reader.
2. A second port in `RustLifecycle`, as a run that shows the violation of
   `CompletedMeansConsumed`, and a run for `Decode` after a call.
3. `RunnerSession` over `FrameTransport` as one module, to check, and not only to argue, that
   a session on a torn stream stops.
