# Watershed Oracle: specifications

watershedOracle reads points (from standard input, a GPS or a random walk),
looks up the watersheds that cover each point in the Watershed Boundary Dataset
of the USGS (a GeoPackage, that is an SQLite file), and prints them, draws them,
or both. A Telegram bot runs it as a child process and relays locations and
answers. This directory specifies the lookup and the loop around it in TLA+,
checks them with TLC and proves their main properties with TLAPS. Further modules
are about the GPS and its parser, the file that several processes share, the
`pathUtil` program, the bot and its reader of lines; one, `Service`, is the
contract between the program and the bot.

The interesting part of the program is that it does not look a point up from
scratch. It keeps the eight watersheds of the last point (HUC2, the largest, to
HUC16) and re-validates them from the deepest one up, because a GPS point
mostly stays where it was. Whether such a cache answers what a fresh lookup
would, after any sequence of points and failures, is what this project is about.

## The system

| Part | State | Operations | Talks to |
|---|---|---|---|
| `WatershedStack` (`src/src/watershed.zig`) | eight optional watersheds, the point, its bounds, its request id | `update`, `valid`, `printPoint`/`printStack`/`printJSON`, `deinit` | SQLite and GEOS; called by main; the display keeps a pointer to it |
| GeoPackage (`gpkg.zig`, the dataset) | none at run time | one `SELECT .. LIKE` per level, the envelope in the blob's header, the polygon | read by `search` |
| Main loop (`main.zig`) | none of its own | next point, update, print, draw, deferred cleanup | everything |
| Point sources (`point/*.zig`) | a line buffer; a serial line; a random walk | `nextPoint` | `gps` and `gpsMock` also redraw the display |
| NMEA parser (`point/nmea.zig`) | none | `parse`, `extractPoint` | called by `gps`, `gpsMock` |
| Display (`DisplayRaylib.zig`) | splash or watersheds, satellites in view | `drawSplash`, `drawWatershedStack`, `setSatilitesInView` | reads the stack it points to |
| `pathUtil.zig` | a counter and a buffered writer | copies points to standard output | point sources |
| Contexts (`sqliteCtx`, `geosCtx`, `sqliteErrors`) | handles | open, close, error codes | C libraries |
| Telegram bot (`telegramBot/main.js`) | none that survives | location in, reply out | Telegram; the pipes of the child process |
| Line iterator (`telegramBot/lineIterator.js`) | a chunk, two indices, a counter | chunks in, groups of lines out | the bot |

What is hard here is not threads (the Zig program has one) but:

* **the cache**: what a slot holds depends on every earlier point, and a check
  that succeeds at one level trusts all levels above it unseen;
* **partial failure**: a search may fail or find nothing with the slots above it
  filled and those below it emptied, and one error (`pointNotInDataset`) lets
  the program go on with that stack;
* **manual memory**: polygons belong to GEOS, names to the allocator, and slots
  are overwritten, emptied and released in a dozen places;
* **order**: rows come in no particular order; results must stay in step with
  requests; the display is redrawn from inside `nextPoint`;
* **the end of the input**, which another process decides at any moment;
* **a receiver that never pauses**: the GPS goes on sending while `update` runs,
  into a buffer of fixed size, and a sentence that does not parse ends the program;
* **other processes**: every start writes indices into the dataset that others
  may be searching or opening, with nobody waiting for a lock;
* in the bot: callbacks, two processes, a pipe, acknowledgements.

`PROJECT.json` lists each such hazard with its line and the properties on it.

Properties that make the parts correct: the stack is a chain of codes without
gaps; it goes down as far as the dataset does; it covers the point; it owns what
it holds; the outcome says how deep it goes; `update` returns. The loop answers
each point once, in order, with that point's own watersheds, ends when its input
does, and releases everything. The display shows an answer, not a half-made one.
The GPS source hands the parser the lines in order and is ended only by damage.
No search runs without its indices or meets a lock. `pathUtil` writes what it
read. The bot and the program agree on what goes through their pipes.

## Modules

| Module | Content |
|---|---|
| `Dataset` | rows, polygons as sets of cells, envelopes, `SELECT`, `GEOSCovers` and the envelope test; the assumptions on the data |
| `Lookup` | the abstract specification: a lookup that remembers nothing |
| `WatershedStack` | `watershed.zig`; its properties; the refinement mapping to `Lookup` |
| `WatershedStackProofs` | theorems about it |
| `Oracle` | `main.zig`, the point sources, `DisplayRaylib.zig` around a `WatershedStack` |
| `OracleProofs`, `OracleServesProofs` | theorems about the program; the second about the contract and what else it rests on |
| `Service` | the abstract specification of the program as its client sees it |
| `Nmea` | `nmea.zig` as operators: accepted, refused, panic |
| `Gps`, `GpsProofs` | `gps.zig` between pigpiod's buffer and `update`; theorems |
| `SqliteErrors` | `sqliteErrors.zig` as operators |
| `SqliteCtx`, `SqliteCtxProofs` | `sqliteCtx.zig` in several processes; theorems |
| `PathUtil`, `PathUtilProofs` | `pathUtil.zig`; theorems |
| `Grid` | small maps for TLC |
| `TelegramBot` | `main.js`: locations, acknowledgements, the two pipes, replies, exits and restarts |
| `TelegramBotProofs` | theorems about it |
| `LineIterator`, `LineIteratorProofs` | `lineIterator.js`, and a reference definition of the lines of a text; theorems |
| `MCNested`, `MCUntidy`, `MCTiled`, `MCOracle`, `MCTelegram`, `MCLines`, `MCGps`, `MCSqlite`, `MCPath` | instances |

`Oracle` EXTENDS `WatershedStack`: the stack's variables are the program's, and
while `main = "update"` its steps are the program's steps.

`Oracle` and `TelegramBot` meet in `Service`: a queue of requests, a queue of
results, a server that moves the head of one to the end of the other and may stop
at any time. `Oracle` implements it (`Serves`: requests are the lines in the pipe
and the one in hand, results are what was printed), and `TelegramBot` is a client
of it (`ServedByOracle`: the same queues are its two pipes). Neither program checks
the other, so a change to one that breaks the contract breaks a property here.
That the bot reads its `stdout` as whole lines is what `LineIterator` is about.

`Gps` is what `Oracle` abstracts from: a queue of bytes instead of a queue of
lines. `Oracle` has its points, its garbage (`RefuseLine`) and its failures
(`SourceFails`); which line is which is a matter of `Nmea`.

`SqliteCtx` is about the moment before `Oracle` starts and about the searches of
other processes. `SearchNeverBusy` says that the locks of others are no reason for
`SearchFails`.

### State and code: the oracle

| Variable | Code |
|---|---|
| `stack` | `huc2` .. `huc16`; `NoRow` is `null` |
| `point`, `pointBounds`, `requestId` | the fields of those names |
| `skip` | `skipHuc14and16` |
| `pc`, `level` | which of the sixteen functions `checkHUC2` .. `updateHUC16` runs. They call one another in tail position only, so one level number stands for the call stack |
| `scan` | the rows that the running statement has not yet produced |
| `result` | what the last `update` returned |
| `geoms`, `names`, `pointGeoms` | live GEOS polygons and names (by row) and GEOS points: what a leak checker would count |
| `unread`, `tail`, `closed`, `written` | the pipe on standard input and who writes to it |
| `main`, `status` | where `main()` is, and how it returns |
| `printed`, `screen` | standard output and the window |
| `source`, `json` | the build option and `--json` |
| `taken` | a history variable: the points that came |

| Action | Code |
|---|---|
| `RandomPoint`, `SourceFails` | `fuzzer.zig`, `scatter.zig`; the `try` expressions of `nextPoint` |
| `DrawFails` | the `try` expressions of `DisplayRaylib.zig` |
| `Update`, `UpdateUnreadable` | `update`, `updateWKT`/`updateXY`, and `updateStack` up to its first check; the second is the error of the former two, for text that does not parse or a point that GEOS cannot make |
| `CheckHit`, `CheckMiss` | one call of a `checkHUC`, and the `updateHUC` it ends in |
| `SearchReject`, `SearchFound` | one `searchStep` that returns `null`, or a polygon; the latter with the assignment of the slot and the next `updateHUC` |
| `SearchExhausted` | `SQLITE_DONE`, and what `updateHUC14` and the other levels make of it |
| `SearchFails`, `NameAllocFails` | every `try` in `search` and `searchStep`; the one allocation after the polygon was created |
| `Deinit` | `deinit` |
| `NextPoint`, `NoMorePoints` | `nextPoint`: one line, by its kind; the end of the stream |
| `UpdateStep`, `UpdateFailed` | `main.zig:39-46` |
| `Report`, `ReportFails`, `Draw` | `main.zig:48-57` |
| `Unwind` | the `defer`s of main |
| `Write`, `CloseInput` | the process at the other end of the pipe |

### State and code: the bot

| Variable | Code |
|---|---|
| `asked`, `confirmed`, `polled` | the updates Telegram has; those it need not send again; those the bot has handled |
| `outgoing`, `arrived` | calls of `sendMessage` on their way; messages in their chats |
| `awaiting` | promises of acknowledgements whose `then` has not run |
| `stdin`, `stdout`, `proc` | the pipes and the child process |
| `notice` | "watershedOracle zig process exited": due, sent, failed |
| `bot`, `life` | the bot's process and how often it was started |
| `lost` | a history variable: locations that a message or a process was lost with |

| Action | Code |
|---|---|
| `OnLocation` | the `location` callback |
| `Acknowledged` | its `then`: the request is written |
| `ConfirmationLost`, `Fail` | a rejected promise, with or without the message delivered. Nothing handles it |
| `OracleAnswers`, `OracleExits` | the child process, which may end on any line |
| `OnLine` | one turn of `for await` |
| `OnExit`, `NoticeArrives`, `NoticeFails` | `onExit`; `process.exit(1)`; the promise that is rejected |
| `BotDies`, `Restart` | any other end of the bot; systemd (`Restart=always`) |
| `SendLocation`, `PollNothing`, `Arrive` | users and Telegram |

| Variable of `LineIterator` | Code |
|---|---|
| `chunk`, `readerDone`, `startIndex`, `linesRead` | the variables of those names |
| `lastIndex` | `re.lastIndex` |
| `text`, `delivered` | all that the reader will deliver, and how much of it the reads so far have brought |
| `cuts` | a history variable: where the chunks ended |
| `yielded`, `finished` | what the consumer was given; that the generator has returned |

`LineEnd` and `NextChunk` are the two kinds of turns of `for (;;)`, `Finish` is
the `break` and what follows it.

### State and code: the GPS, the dataset's file, pathUtil

| Variable of `Gps` | Code |
|---|---|
| `next`, `start` | the receiver: the next byte, and the one it was found at |
| `ring` | pigpiod's buffer of `bb_serial_read_open`; keeps what it has and drops what comes |
| `line` | `self.buffer` |
| `main`, `status` | where `nextPoint` and main are, and what ended them |
| `parsed`, `lost`, `fooled` | history: lines accepted; whether a byte was dropped; whether a damaged line had a matching checksum |

`Receive` is the receiver; `ReadByte` is `serialRead` inside of
`streamUntilDelimiter`; `ParseWhole`, `RefuseDamaged` and `ParseDamaged` are the
line `try nmea.parse` for a line as it was sent, for a damaged one that is found
out, and for one that is not; `DrawFails` is the error of `setSatilitesInView`
after a GSV sentence; `UpdateReturns` is everything main does until it
calls `nextPoint` again.

| Variable of `SqliteCtx` | Code |
|---|---|
| `created` | the indices in the file |
| `schema` | those that a connection has read of |
| `pc`, `statement` | outside, in `init` at one of its eight statements, or open |
| `lock`, `error` | the lock a process holds; how it ended |

`Read`, `SkipIndex`, `BeginIndex`, `Reprepare`, `BeginCommit`, `Exclude` and
`Commit` are the steps of one `CREATE INDEX IF NOT EXISTS`, as SQLite takes them in
its default journal mode: shared, reserved, pending (`BeginCommit`: nobody begins to
read any more) and exclusive (`Exclude`: those that were reading have ended); `Search`, `Finalize` are those of `search`. The rules of the locks
(`SharedCode`, `ReservedCode`, `ExclusiveCode`) are SQLite's, not this code's, and
are marked external. What is this code's is that eight statements are executed
with each start, that no busy handler is set, and what `check` and `stepCheck` make
of the codes.

| Variable of `PathUtil` | Code |
|---|---|
| `n`, `numPoints`, `source` | the variables of those names; `-s`, `-g`, `-f`, `-c` |
| `pending` | what is left of one `print` |
| `buffer`, `stdout` | `bw`; the file behind it |
| `pc`, `status` | where main is, and how it returns |
| `taken`, `text` | history: the points and what they print |

### Abstractions

* A polygon is the set of grid cells it covers, and so is a geometry that a
  point source may name (WKT may be a line, an area or empty). `Covers` is set
  inclusion, and false of an empty geometry, as in GEOS. An envelope only has to
  contain its geometry; it may be larger.
* A code of 2k digits is a sequence of k numbers. `LIKE 'prefix%'` is
  `IsPrefix`.
* The coordinates of the model are integers, and all that is used of them is
  their order. `FloatMax` and `FloatMin` are constants. In the instances
  longitudes are below `FloatMin` and latitudes above, as in the dataset.
* Not modelled in `search`: the query string, the statement and the WKB reader
  (each is released by a `defer` next to its creation); the polygon's bytes;
  blobs that are no GeoPackage geometry, on which the code panics (`.?`);
  exceptions of `GEOSCovers_r`, which the code takes for "does not cover".
* What a result looks like, as text or JSON, is left out. What it contains
  (request id, point, stack at that moment) is not.
* Messages of the bot are known by their kind, the location they are about, their
  chat and the life that sent them. The messages to the debug chat that nothing
  waits for (`main.js:25`, `main.js:62`) are left out.
* Whether the runtime ends the bot on an unhandled rejection depends on its
  version; `BotDies` leaves it open. A message lost for good and one refused are
  the same.
* `LineIterator` has characters, not bytes: that a chunk may divide a character
  is the decoder's business.
* The number of satellites drawn in the corner of the screen is left out.
* `Oracle` begins with the first call of `nextPoint`. Arguments come before, and so
  does the opening of the dataset (`SqliteCtx`).
* A field of an NMEA sentence is what the parser makes of it: good, empty, refused,
  a number whose `.` comes too early, or a direction of more than one character. A
  sentence without a comma has one empty field, as `rest()` yields it. A checksum detects damage or, by chance,
  does not (`ParseDamaged`).
* A sentence of `Gps` is four tokens: enough to tell its start, the `*`, a checksum
  cut to one digit, and the end of the line.
* In `SqliteCtx` a search holds its lock from the first step of its statement to
  the last; the blobs it opens meanwhile need no more. That a killed writer leaves
  a hot journal, which the next reader must roll back, is part of that reader's
  `Read`: `created` never holds what was not committed, and a reader that finds
  the journal locked by another fails as one that finds the file locked. The schema
  and the first step of the first statement share one lock step. A failure
  of either ends the process at the same statement with the same error, and a
  schema that has grown in between is what `Reprepare` is for.
* The pieces that `print` writes count as equally long for the buffer of `PathUtil`,
  but for a line of standard input that is longer than the buffer (`Long`): it is
  written straight through, after what is in the buffer.

## What is checked

All runs set `CHECK_DEADLOCK FALSE`: the program stops, after `deinit` or at its
exit; the bot may wait for users forever, a line iterator returns, and a
receiver may fall silent.

| Run | Module, cfg | Specification | Checks | Result |
|---|---|---|---|---|
| `nested` | `MCNested` | `FairSpec` | `CoversPoint`, `LookupSpec`, `UpdateReturns` | holds |
| `untidy` | `MCUntidy` | `Spec` | `TypeOK`, `IInv`, `PrefixChain`, `MaximalDepth`, `HeapOwned`, `ResultMatchesDepth` | holds |
| `tiled` | `MCTiled` | `Spec` | `OutsideMeansUncovered` | violated |
| `oracle` | `MCOracle` | `FairMainSpec` | `MainTypeOK`, `AnswersInOrder`, `AnswersAreLookups`, `ScreenShowsAnAnswer`, `CleanExit`, `CompleteAtEnd`, `EndsWithInput`, `Serves` | holds |
| `oracle_screen` | `MCOracle`, `MCOracleScreen.cfg` | `MainSpec` | `ScreenIsCurrent` | violated |
| `telegram` | `MCTelegram` | `FairSpec` | `TypeOK`, `OwnChat`, `AckFirst`, `EveryRequestAnswered`, `OracleReplaced`, `ServedByOracle` | holds |
| `telegram_debug` | `MCTelegram`, `MCTelegramDebug.cfg` | `FairSpec` | `DebugChatOptional` | violated |
| `lines` | `MCLines` | `FairSpec` | `TypeOK`, `LinesYielded`, `AllYielded`, `NothingLost`, `Ends` | holds |
| `sqlite` | `MCSqlite` | `FairSpec` | `TypeOK`, `ServedFromIndexes`, `SearchNeverBusy`, `BusyOnlyAmongOpeners`, `OpeningEnds` | holds |
| `gps` | `MCGps` | `FairSpec` | `TypeOK`, `LinesInOrder`, `OnlyDamageStops`, `MidSentenceStops` | holds |
| `path` | `MCPath` | `Spec` | `OutputIsPrefix`, `AllWritten`, `LossBounded` | holds |
| `path_limit` | `MCPath`, `MCPathLimit.cfg` | `Spec` | `OnlyNumPoints` | violated |

### The datasets and why they are enough

* `MCNested` is what the published dataset is like: two regions that share a
  border, one with all eight levels. It has a HUC12 whose envelope is larger than
  its polygon, two HUC12 with a cell in common, a HUC14 that HUC16 does not
  fill, and a hole below HUC2. The ten geometries include a line across siblings,
  a line across regions, a point outside and an empty one. The state between two
  updates is determined by the stack and the point, so TLC explores every
  reachable pair of a cached stack and a new point, without a bound on the number
  of points.
* `MCUntidy` breaks every regularity of the published dataset that the code does
  not check: overlapping siblings, children larger than their parents, two rows
  with one code, children without a parent. What is checked there needs no
  assumption about the data. `CoversPoint` and the refinement do (`Nested`), and
  fail there.
* `MCTiled` has no holes down to HUC12, so that "outside of the dataset" has one
  meaning only.
* `MCOracle` has three rows, which is enough for a full answer, a change of
  answer and no answer; the depth of the stack is the business of the runs above.
  At most `MaxLines` lines are written or points drawn, 3 (2 for the screen):
  three let a satellite sentence or a failure fall between two points, and three
  requests be in three places. Two request ids tell the default from one that was
  given. The writer may be slow, fast, silent, or close the pipe in the middle of
  a line.
* `MCTelegram` has two chats, two locations (`MaxRequests`) and two lives of the
  bot (`MaxLives`): requests of one chat or of two that overtake one another at
  any of the six places a request passes, and one restart anywhere. The last life
  is one in which neither process ends by itself; the property about the
  end of the oracle is decided in the first. Three locations and updates that
  come in batches are past five minutes; the safety properties are proved for
  any number.
* `MCLines` has all texts of up to five characters (`MaxLength`) over CR, LF and a
  letter, and all ways to cut each: three lines, or a CR LF between two, with a
  cut at every place. A read may also bring nothing (the bytes of half a
  character), and say that the reader is done together with the last of the text or
  in a read of its own. `lineGroupSize` is 1, as in `main.js`.
* `MCSqlite` has three processes, the least with which two can open the file while
  a third searches or disturbs both, and three indices: one before, at and after
  any statement. Proved for any number of both.
* `MCGps` has four sentences (`MaxTokens` 16) and a buffer of five tokens
  (`RingSize`): it overflows within a sentence and across two, so lines are cut, and
  joined with others. Its receiver sends GGA, RMC, GSV and VTG with every choice of
  empty fields that `nmea.zig` types as optional.
* `MCPath` has up to four points (`MaxPoints`), of two or five pieces, and a buffer
  of three (`BufferSize`): a flush falls inside of a point, between two, and twice
  within one. Two points (`Long`) are lines longer than the buffer, which leave before
  what follows them and after what was printed before.

### Fairness

`WF(Proceed)` in `FairSpec`: once called, `update` runs on. The program has one
thread and `update` waits for nobody. Calling it again, and every failure, is
left to chance. `WF(MainProceed)` in `FairMainSpec` says the same of `main()`;
the writer of the pipe is under no obligation. Without a fair writer nothing can
be said about a program that waits for input, and both liveness properties start
from input that is there (`unread # <<>>`, `closed`).

In `TelegramBot`, both processes keep running, a message arrives or fails, its
promise is resolved or rejected, and systemd restarts the bot. That is all:
every failure may happen, and no user has to send anything. `LineIterator` is
asked for the next line until it returns (`for await`), and the reader delivers
or ends.

`WF(Proceed)` of `Gps` is main running on; the receiver need not send, and
`MidSentenceStops` starts from a sentence that came (`next > 3`). `WF(Proceed(p))` of
`SqliteCtx` is a process that runs on while it is inside of a call of SQLite; no
process has to open the file, search or close it. `PathUtil` has safety
properties only.

`Responsive` of `Service` is weak fairness of answering or stopping, with the
condition that enables it written out, because it is used under a refinement
mapping, where ENABLED of the mapped action is not the mapped ENABLED.

### What the violated properties show

* `OutsideMeansUncovered`: a HUC14 without HUC16 at the point makes `update`
  return `pointNotInDataset` (`watershed.zig:514`), and the program logs "Point
  given is outside the dataset", with seven correct watersheds in the stack. The
  code handles the same situation one level up. `ResultMatchesDepth` states what
  the outcome does mean.
* `ScreenIsCurrent`: the screen is not redrawn when a point leaves the dataset
  (`main.zig:55`) and goes on showing the watersheds of an earlier point. `ScreenShowsAnAnswer`
  says which: those of the last point that had any.
* `DebugChatOptional`: `main.js:9` calls `DEBUG_CHAT_ID` optional, but the bot
  exits, and is restarted with a new oracle, only when the notice to that chat
  was delivered (`main.js:57`). Without it, it acknowledges requests and writes
  them to a closed pipe. `OracleReplaced` is what does hold. (`install.zsh` lists
  the variable without calling it optional.)
* `OnlyNumPoints`: `while (n <= numPoints)` from 0 takes one point more than `--help`
  says (`pathUtil.zig:24`, `75`). `AllWritten` states the limit that holds.

### What the other runs delimit

Some properties hold only as far as they are stated, and what they leave out is
worth knowing.

* `CompleteAtEnd` counts lines that were completed: what follows the last newline
  is dropped without an error (`stdin.zig:34`), whereas `lineIterator.js:46-47` yields
  such a line.
* `BusyOnlyAmongOpeners` and `OpeningEnds` are as much as can be said of two
  processes that start together on a dataset without indices: each may meet the
  other's lock and fail, so nothing says that one of them ends up serving.
  Once the indices are there, nobody writes and nobody fails (`SearchNeverBusy`).
* `MidSentenceStops` is a liveness property of a misfortune: bytes from the middle of
  a sentence are a line without `$`, and the program ends at its first newline.
* `OnlyDamageStops` depends on what the receiver leaves empty. It holds for the
  fields that the structs have as optional. RMC's speed and course are read with
  `try` (`nmea.zig:171-172`), GGA's dilution and altitude with `catch null`: a receiver
  that leaves the former empty without a fix ends the program with its first
  sentence. `ConformingAccepted` lists what is needed.
* A panic needs a damaged line whose checksum matches (`fooled`): `$*0` is too short
  for `trimmed.len - 3`, since `validateChecksum` accepts one digit, and a `.` among the
  first two characters of a magnitude underflows `i - 2`. Nothing says that such
  panics do not happen: `OnlyDamageStops` confines them to damaged lines, and
  `PanicsOnly` lists the sentences that can cause one.
* `extractPoint` takes a position whatever RMC's status (`V` is void) and GGA's
  quality say of it (`HasPoint`).

The checks of `LineIterator` also delimit it. A CR LF that two chunks divide is
read as two line ends (`PairCut`; the oracle writes LF alone), and with
`lineGroupSize` of 2 or more the lines of an unfinished group are counted again
after each chunk, since `lastIndex` is reset and `linesRead` is not.

## What is proved

TLAPS checks the following for every dataset that meets `DatasetAssumption`
(envelopes bound their geometries, codes have one to eight groups, the sentinels
are distinct from data), every set of points and every order of rows.

| Theorem | States |
|---|---|
| `EnvelopeSound` | a row that the envelope test skips does not cover the point |
| `TypeCorrect` | `Spec => []TypeOK` |
| `Invariance` | `Spec => []IInv` |
| `Chains`, `Maximal`, `Owned`, `Reported` | `[]PrefixChain`, `[]MaximalDepth`, `[]HeapOwned`, `[]ResultMatchesDepth` |
| `UpdateAdvances` | `Spec => [][Busy => Nearer]_vars`: no step of `update` is in vain |
| `Covering` | if `Nested`, `[]CoversPoint` |
| `Refinement` | if `Nested`, `Spec => LookupSpec` |
| `OneAnswer` | two answers of `Lookup` for one point are equal if the point lies on no border (`Clear`) |
| `AnswerComplete`, `AllFound` | if `Nested` and `Parented`, an answer for such a point is the set of all watersheds that cover it, and that is what `update` returns with |
| `EmptyMeansOutside` | if `Nested` and `Parented`, an empty stack means that no watershed covers the point |
| `OracleUsesStack` | `MainSpec => Spec`: the program calls its stack only as `Spec` allows, so all of the above hold of the program |
| `InOrder` | `MainSpec => []AnswersInOrder` |
| `ExitsClean` | `MainSpec => []CleanExit` |
| `OutputIsLookup` | if `Nested`, `MainSpec => []AnswersAreLookups` |
| `Repeatable` | if `Nested`, two results printed for one point that lies on no border show the same watersheds |
| `ResultsComplete` | if `Nested` and `Parented`, each result for such a point shows all the watersheds that cover it |
| `MainTypeCorrect`, `ScreenCorrect`, `Complete` | `[]MainTypeOK`, `[]ScreenShowsAnAnswer`, `[]CompleteAtEnd` |
| `ServesSafely` | `MainSpec => Contract!Spec`: the program implements the steps of `Service` |
| `BotTypeCorrect`, `OwnChats`, `AcksFirst` | `[]TypeOK`, `[]OwnChat`, `[]AckFirst` of `TelegramBot`, for any set of chats and any bounds |
| `NothingForgotten` | `[]NoneForgotten`: every location is with Telegram, on its way, answered, or lost |
| `NoDoubles` | `[]OncePerLife`: as long as a bot lives, no location is in two places |

The argument. `PrefixChain`, `MaximalDepth`, `HeapOwned` and `ResultMatchesDepth`
speak of the stack between two updates or of single slots, and none is inductive:
whether `update` returns with a stack that cannot be continued depends on what
it did on the way. `IInv` adds that. `ControlOK` says that on the way up
everything below the slot being checked is empty, that on the way down the slots
from the searched level on are empty and the parent is not, and that the rows the
statement has already produced did not cover the point (which takes
`EnvelopeSound`). `SlotLevels` ties slots to tables, which is what makes counting
by row right, and `SkipsDeepLevels` says that the levels which are not checked
are empty. With these, `DepthNext` shows that each way out of `update` leaves a
stack that the dataset cannot continue, and `HeapNext` that each slot emptied
releases what it held.

`CoversPoint` needs one more conjunct (`CoveredSoFar`: during the search the
slots kept so far cover the point) and `Nested`: a check that succeeds at level k
covers the levels above it only because their codes are prefixes of its own. For
the refinement, a stack that covers the point, is a chain and cannot be continued
is an answer in the sense of `Lookup`; the steps in between stutter.

`Lookup` says that an answer depends on the dataset and the point alone, not that
there is only one: on a border the order of rows decides. `Clear(g)` says that no two
rows of a level cover `g`. Then two answers agree at level k if they agree at
level k - 1, since they choose from the same candidates (`SameWatershed`), and eight
such steps make `OneAnswer`; with `OutputIsLookup` the program repeats itself
(`Repeatable`). `AnswerComplete` needs one assumption more, `Parented`: each row has a
parent in the table above. A row that covers the point then has a chain of parents that
cover it as well (`Nested`), and level by level they are the rows in the slots
(`AnswerFinds`). Both assumptions are about the published data and no code checks
them; TLC confirms them of `MCNested` and `MCOracle`. `EmptyMeansOutside` delimits the
finding about `OutsideMeansUncovered`: the log line is wrong only of a stack that is not
empty.

For the program, `OrderInv` counts the results against the points that came, and
`Exited` says that nothing follows `deinit`. `OutputIsLookup` uses the invariants
of the stack at the moment of printing, and that an answer stays one: `IsAnswer`
depends on `skip`, which never changes, and on the dataset.

`CompleteAtEnd` and `ServesSafely` need what is in the pipe. `KindsInv` (lines are those
of their source) and `CompleteInv` (until an error, what was taken and what is
unread add up to what was written) carry it; `OrderInv` makes the result that is
printed the one of the oldest pending line. `ScreenCorrect` says that what the
screen shows is one of the printed results and, whenever `main` is about to take
or to look up a point, the last of them that had any watersheds: neither a failed
`update` nor a redraw from inside `nextPoint` mixes two answers or brings an old one back.
It rests on `ScreenInv`: whenever the screen may be redrawn, what would be drawn was
printed (`ShownBy`), and no later result had watersheds (`LastWithAny`) once the
point at hand is dealt with (`Settled`).

For the bot, `BotInv` adds to `OwnChat` and `AckFirst` what a line in either pipe
promises (`PipesOK`: the id it carries is that of the chat that asked, and this
bot's acknowledgement has arrived) and that a bot that is gone leaves no line and
no promise to its successor (`GoneOK`), without which an acknowledgement of one
life could release a request of another.

`NothingForgotten` and `NoDoubles` are proved together (`Places`): a location is in
`Pending`, in one of the pipes or in `SentNow`, every action moves it from one of these
to the next or puts it into `lost`, and the next location that is handled is in none of
them, because all of them hold locations up to `polled` (`HandledNow`). A restart
empties all but the messages, which carry the life of their bot.

`ServedSafely` needs no more than `BotInv`: each action of the bot is an action of
`Service` on its pipes or does not touch them. `BotGone` is `Abandon`, and that a
`Restart` finds no child running (`GoneOK`) makes it `Start`.

| Theorem | States |
|---|---|
| `ServedSafely` | `TelegramBot`: `Spec => Contract!Spec`, for any chats and bounds |
| `IndexesServed`, `SearchesNeverBusy`, `OpenersOnlyMeetOpeners` | `[]ServedFromIndexes`, `SearchNeverBusy`, `BusyOnlyAmongOpeners` of `SqliteCtx`, for any processes and any number of indices |
| `Prefix`, `EverythingWritten`, `LossIsBounded` | `[]OutputIsPrefix`, `[]AllWritten`, `[]LossBounded` of `PathUtil`, for any buffer and limit |
| `InOrder`, `OnlyDamage` (`GpsProofs`) | `[]LinesInOrder`; `[]OnlyDamageStops` if whole sentences are accepted |
| `MidSentenceYieldsNothing` | a program that opened the GPS within a sentence never accepts anything |
| `ConformingAccepted` | which sentences are: any GGA, RMC or GSV with its required fields |
| `PanicsOnly` | the sentences that make `parse` panic: too few fields, an empty one that is unwrapped, a `.` too early, a checksum of one digit (`Panicking`). Every other is accepted, ignored or refused with an error |
| `OpeningAdvances` | no step of `init` goes in circles: each takes it to the next statement, a newer schema or a higher lock |
| `LinesCover` | the reference definition of `LineIterator` divides any text: no line holds a line end, and every other character is in one line or after the last line end |
| `Kept`, `WholeLines`, `AllLinesYielded` | `[]NothingLost`, `[]LinesYielded`, `[]AllYielded` of `LineIterator`, for texts of any length cut anywhere |
| `ResultsYielded` | the same for a text without CR and groups of one line, where no condition on the cuts remains: the output of the oracle as the bot reads it |
| `EveryTurnCounts` | every turn of the loop lessens a measure, for any `lineGroupSize` |
| `TypeCorrect` of each, `Invariance` of `SqliteCtx` and `PathUtil` | the type invariants, and the inductive invariants |

For `SqliteCtx`, `IInv` says of each process how far its file is (`Progress`: every index
before its statement is there), that who writes is inside of its `init` and lacks
the index it makes (`Locked`), and that one writes at a time (`OneWriter`). A search
meets no lock because a process is ready only when nothing is left to create, and
then nobody can be writing. For `PathUtil`, `Complete` is the whole argument: output,
buffer and pending pieces make up the text. For `Gps`, `OrderInv` keeps line and
buffer ahead of what was parsed; `InStep` says that, as long as nothing was dropped and
the stream was found at its start, the line at hand continues into the buffer
without a gap, so each line that ends is whole. `OnlyDamage` assumes `Accepted`, that
the receiver's sentences parse; `ConformingAccepted` gives it for what a receiver sends.

For `LineIterator`, the reference is a definition of the lines of a whole text by its
line ends (`EndsAt`), without recursion: line k is what lies between the ends of rank k - 1
and k. `EndsOfPrefix` and `LinesOfPrefix` say that the lines of a text are the first
lines of any longer one, if no CR LF is divided at the place; `AppendTable` that one
more line end adds just one line. `TypeInv` says that the chunk is the last part of
what was delivered. `LinesInv` adds, for groups of one line, that what is not kept ends
with a line end or is empty (`AtEnd`), that the search for the next line end begins where
the kept text does (`startIndex = lastIndex`), and that no chunk ended at a CR LF still to
be read (`CutsKept`). Then the next line end that `re.exec` finds is the next one of the
reference (`NextEndFound`), and the text up to it is its line (`LineFound`).

### What a liveness property rests on

That something happens in the end is out of the prover's reach, and so is ENABLED.
What is proved is the part of the argument without time, for every value of
the constants: that no step is in vain.

| Property that TLC checks | Proved |
|---|---|
| `UpdateReturns` | `UpdateAdvances`: checks go up, a search follows the checks, searches go down, and the rows of a statement become fewer |
| `Ends` | `EveryTurnCounts`: five natural numbers, compared in lexicographic order, go down at each turn |
| `OpeningEnds` | `OpeningAdvances`: a statement is prepared again only with a schema that has grown |
| `EveryRequestAnswered` | `NothingForgotten`: at each place where a location may be some fair action waits for it |
| `MidSentenceStops` | `MidSentenceYieldsNothing`: such a program has nothing to do but to end |
| `Responsive`, in `Serves` and `ServedByOracle` | `ServesSafely`, `ServedSafely`: the steps of the contract |

Only model-checked: these properties themselves, and `EndsWithInput` and
`OracleReplaced`.

## What is not modelled

| Part | Why |
|---|---|
| `args.zig`, `build.zig`, `beepy.zsh`, `install.zsh` | read once, before anything that changes. `--json`, `--skipHuc14and16` and the build's choice of a source are variables of the models that never change |
| `geosCtx.zig` | one handle of one process, opened first and closed last |
| `gps.zig`, `init` | sets pins, and panics if it cannot |
| the header of a GeoPackage blob (`gpkg.zig`) | a layout that is read into a struct and used for its envelope; a blob without a geometry makes the code panic (`.?`) |
| `pathUtil` without `--numPoints` | the limit is `maxInt(usize)`, more points than anything here can count |
| `logSentence` in `nmea.zig`, `log` in `sqliteErrors.zig` | print only, and nothing calls the former |
| `lineGroupSize` above 1 | `main.js` passes 1; see above for what happens beyond |
| `src/lib` | third-party code: raylib, the ARM headers and libraries of GEOS, SQLite, pigpio. Most of the repository by size |

The program's own code is about 2100 lines of Zig and JavaScript, and the modules
model its operations down to those listed here.
