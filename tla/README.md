# Fofou in TLA+

Fofou is a small forum: one Go process that keeps every live topic in memory,
writes each change to an append-only log (`data/main.txt`), and rebuilds the
memory from the log when it starts. This directory holds TLA+ models of it,
TLC configurations that check them on small instances, and proofs that the TLA+
proof system checks. Source paths below are relative to `src/`.

## 1. The system

| component | state | operations | where |
|---|---|---|---|
| Store | list of topics between `rootTopic` and `endTopic`, `topicsCount`, `LiveTopicsNum`, `blocked`, `maxLiveTopics`, `configStr`; `store.Lock` (an RWMutex) and `configLock` | `NewTopic`, `NewPost`, `OperateTopic`, `SageTopic`, `AppendPost`, `DeletePost`, `FlagPost`, `Block`, `UpdateConfig`, `SetMaxLiveTopics`, `ArchiveJob` | `server/store.go`, `server/store_op.go` |
| Log and its loader | the records in `data/main.txt` | `loadDB` replays them, with a `panicif` wherever a record does not fit | `server/store_log.go` |
| Data file | header with two length slots and a flag byte, data, `store.ptr` | `append`, the header part of `loadDB` | `server/store_log.go` |
| Archive | one file per archived topic | `archive`, `archiveJob`, `LoadArchivedTopic` | `server/store.go`, `server/store_log.go` |
| Post numbers | none | `LongID`, `SplitID` | `server/struct.go` |
| Snapshots | `main.txt.snapshot`, the output of `-ss` | `Dup`, `SnapshotStore` | `server/store.go`, `server/store_op.go` |
| Start-up | `store.ready`, `Kforum` | `NewStore`, `newForum`, `preHandle` | `server/store_log.go`, `main.go` |
| Posting | caches `Kuuids`, `KthrotIPID`, `KbadUsers`; image files | `PostAPI`, `throtNewPost` | `handler/handle_newpost.go`, `handler/util.go` |
| Moderation | `ForumConfig` | `modCode`: lines of a message as commands | `handler/mod.go` |
| Images | queue of 256 paths, thumbnails on disk | `Push`, `job`, `naiveDownscale`, the `Image` handler | `server/image.go`, `handler/handlers.go` |
| Logger | two circular buffers | `Add`, `GetOrdered` | `server/log.go` |
| Codec | none | integers and strings as bytes, CRC-8 | `server/buffer.go`, `server/crc8.go` |
| Views | none | pages of topics and posts, lists, RSS, search, markup | `handler/`, `markup/`, `server/util.go` |

**How they interact.** Every HTTP request is a goroutine. `preHandle` turns it
away until `store.ready` is 1000; then the handler calls the Store, which takes
`store.Lock` (or only `configLock`), appends records to the data file, and
changes the memory after the append has returned. `PostAPI` consults the caches,
stores the image and pushes it to the queue, calls `NewTopic` or `NewPost`, flags
the new post in a second call, and sometimes starts `ArchiveJob` in a goroutine
of its own. `modCode` calls the other operations and ends with `UpdateConfig`.
Another goroutine copies the data file every six hours (`Dup`).

**What is hard.** Each operation exists twice, once as a change of the memory
and once as a case of `loadDB`, and nothing but care keeps the two equal. Some
operations set a flag where the log inverts it. Two locks guard the list and the
file. The archive is written before the log says so. A crash can come between
any two writes of the header. The hazards are listed, each at its line, in
`PROJECT.json`.

**What makes each component correct.**

- Store and loader: a restart gives back what was there, the log can always be
  loaded, the list is never damaged, a topic never disappears.
- Archive: a topic that leaves the list is on disk with all its posts; a limit
  takes only the topics beyond it; a job ends.
- Data file: an acknowledged append survives a crash at any point, and half an
  append is never read.
- Post numbers: a number leads back to its post.
- Snapshots: the snapshot loads, to the same content and order.
- Start-up: no request is served before the store and the configuration are there.
- Posting: one request is one post, a locked topic takes none, an answer
  "success" names a post that exists.
- Images: a queued image gets its thumbnail, a file goes only when its deletion was
  logged, and a thumbnail goes with its image.
- Moderation: the settings in effect are those that the next start loads.
- Logger: a message is added and read back in order, while additions take turns.
- Codec, pages, search, markup: what is written is read and what is damaged is
  refused; every post is on the page its link names; a search gives what contains
  the query; a text cannot leave its code open or lose its letters.

## 2. The modules

| module | what it is | source |
|---|---|---|
| `LoadDB` | the records of the log as `loadDB` reads them, one operator each, and the list of topics as a sequence | `store_log.go`, `store.go` |
| `Store` | the operations that take turns under `store.Lock`, archiving, restart | `store.go`, `store_op.go`, `store_log.go`, and `PostAPI`'s second call |
| `MCStore` | sets of requests for TLC, for `Store` and `Snapshot` | |
| `StoreProofs` | lemmas about the list of topics, the inductive invariant of `Store` and its theorems | |
| `TopicList`, `MCTopicList` | the `Prev` and `Next` pointers, statement by statement, with `SetMaxLiveTopics` beside the holder of `store.Lock` | `store.go`, `store_op.go` |
| `DataFile` | `append` write by write, with crashes | `store_log.go` |
| `DurableLog` | the abstract log that `append` promises | |
| `MCDataFile`, `DataFileProofs` | its instance and its proofs | |
| `Snapshot` | `SnapshotStore` and `LoadArchivedTopic` over `Store` | `store_op.go`, `store.go`, `store_log.go` |
| `SnapshotProofs` | what is written again is read back: its lemmas, the invariant with snapshots, its theorems | |
| `SharedFile`, `MCSharedFile` | the file's bytes and its one offset, used by several appends and by `Dup` | `store_log.go`, `store.go` |
| `SharedFileProofs` | its invariant, its theorems and its refinement of `DataFile` | |
| `PostAPI`, `MCPostAPI` | requests that post, from the lookup of the topic to the answer | `handle_newpost.go`, `handler/util.go` |
| `Boot`, `MCBoot` | starts of the process, the loader, readiness | `main.go`, `store_log.go` |
| `BootProofs` | proofs about readiness and the loader | |
| `PostAPIProofs` | proofs about posting and about what its caches promise | |
| `Images` | uploads, the queue and its goroutines, requests for thumbnails, removals | `image.go`, `handle_newpost.go`, `handlers.go`, `mod.go` |
| `Moderation`, `MCModeration` | `modCode` and the configuration, composed with `Images` | `mod.go`, `store_op.go`, `struct.go`, `main.go` |
| `ModerationProofs` | the invariants of both and their theorems | |
| `CircularLog` | the logger's buffers | `log.go` |
| `LongID` | the packing of post numbers, all layouts | `struct.go` |
| `StringCodec` | strings and integers as bytes, CRC-8 | `buffer.go`, `crc8.go` |
| `Pages` | the pages of a topic and of the lists, the page of a link | `handle_topic.go`, `store.go` |
| `Search` | `stringCompare`, `GetPostsBy` | `util.go`, `store.go` |
| `Helpers` | these five parts, which share no state, as one specification | |
| `HelpersProofs` | proofs about the logger's buffer, the numbers, the strings, the pages and the search | |
| `Markup`, `MCHelpers` | `Do`, from a message to what is shown; the run of `Helpers` with its texts | `markup.go` |

`Store` and `TopicList` extend `LoadDB`, and `Snapshot` extends `Store`: the records
are written down once. `DataFile` implements
`DurableLog`, and `SharedFile` implements `DataFile`: an atomic append, an append
in whole writes, an append in seeks and writes. `PostAPI` and `Boot` see of the
store only what they need.

### LoadDB and Store

`db` is the Store of the running process. `disk` is what `loadDB` would compute
from the log written so far: it stands for the log, and the operators `OP_TOPIC`
to `OP_MAXTOPICS` of `LoadDB`, one for each case of `loadDB`'s switch, are applied to
it as records are appended. So every operation is written down as the code has it,
twice: the assignments of the operation change `db`, the loader's code changes
`disk`. A `panicif` that fails sets `disk.panic`. `Restart` may happen in any
state and makes `db` equal to `disk`.

An operation is one action, guarded by `StoreUnlocked` (`store.Lock` is free) and
by the conditions under which the code goes past its early returns. An operation
whose `append` fails changes nothing. Archiving is not atomic: `ArchiveJob` takes
`store.Lock` and finds its pivot, `ArchiveSave` writes the file of the last topic,
`ArchiveUnlink` logs `OP_ARCHIVE` and unlinks it, `ArchiveDone` ends the loop, and
`ArchiveFail` is an error of the file system. No other operation under the lock runs
meanwhile, but the process may end, and `UpdateConfig` may run, which touches no topic.
`SetMaxLiveTopics` holds `configLock` only. `Store` has it with a limit that is not
lower than the current one, when it only writes the limit; with a lower one it
changes the list, which is the subject of `TopicList`.

`FlagNewTopic` is the second call that `PostAPI` makes for a new topic with the
option "nsfw"; topics that wait for it are in `flagging`.

Abstracted: subjects, names, addresses and times (no property depends on them); a
message is the number of texts it was put together from; an image is there or
not; the configuration is an opaque value; the linked list is the sequence of its
topics. `TopicList` shows that the pointers give that sequence (`SplicesKeepList`).
In `MoveTopicToFront` the topic is unlinked and inserted where the loop
of `moveTopicToFront` stops. The search for a topic in the list (`Linked`) and
in `loadDB`'s map (`DOMAIN disk.topics`) stay two different things, and the theorem
`StoreListInv` says that they agree.

`OP_TOPICNUM` appears only in snapshots and is in `Snapshot`; `OP_NOP` does
nothing and is written by nothing.

### TopicList

The list as the code has it: `next` and `prev` of every topic, in the list or not, with
`rootTopic` and `endTopic` at its ends. `thread["store"]` is the request or the
`ArchiveJob` that holds `store.Lock`; `thread["config"]` is `SetMaxLiveTopics`. A step is
one statement that reads or writes what both reach: a turn of a walk, a call of `append`,
the write of an archive file, each of the assignments that splice. The two goroutines
share these words without synchronisation, so their statements come in any order.
`NilPanic` is a statement that goes through a pointer that is nil. It ends a request,
whose deferred calls release the locks; `ArchiveJob` is started with `go`
(`handle_newpost.go:244`), so its panic ends the process. `disk` is the log, as in
`Store`, and an append is one step that may fail; appends that overlap are in `SharedFile`.
`order` is history: the sequence that the operations done so far ask for. `overlap` is
history too: since the start of the process both goroutines were at the list at once.
A goroutine that only logs its limit is not at the list.

Of the requests, those that move, add or take out a topic are here, and a reply with
"sage" as one that does neither. The others change a topic where it is and are in `Store`.

### Snapshot

`SnapshotStore(s)` is what `loadDB` makes of the file that the code would write
for store `s`: the records of `Store` applied to an empty store, in the order of
the code (from the last topic to the first; in each topic the posts, then its
flags). `ReplaceBySnapshot` adds the use that `readme.md` describes to the steps
of `Store`: the process loads the log, writes the snapshot and ends, the snapshot
becomes the log, and the forum starts again. `LoadArchivedTopic(t)` is the same
loader on an archive file.

### SharedFile

The file is a sequence of bytes, with the header as the code lays it out. Each
seek, read and write of `append`, and each turn of the copying in `Dup`, is an
action on the one `off`. `StoreCallers` hold `store.Lock` (`Dup` its read lock),
`ConfigCallers` hold `configLock`. Records have two bytes, of which the first is
a letter of the log's alphabet, so that a misplaced write is seen as one.
`ImplementsDataFile` maps bytes to records and the ten steps of `append` to the
four of `DataFile`.

### PostAPI

`req[r]` holds the local variables of request `r` and where it is. The three
caches are `lru.Cache`s, modelled as external code: sequences of pairs, the least
recently used first, of limited size. Each call to a cache, to the store or to
the file system is an action; the challenge, the referer, the upload and the
disk answer nondeterministically. `after` records which requests had been
answered when a request arrived, for the properties that are about requests one
after another. Moderators (`Lock`, `Purge`, `Moderate`) and the clock (`Tick`) move
between any two steps. `Block` inverts, as the store does, or its record is not written
and nothing is blocked, an error that the code does not look at; the history variable
`meddled` keeps the terms that this, or a moderator, may have made to differ. A message
that is a command for `modCode` ends in `Interpret`: with "mod-operation", allowed or
not, or with a panic, and without a post either way.

### Boot

`main` and `loader` are the two goroutines of a start; `ready`, `config`, `open`
and `ptr` are what they share with requests, with the copying goroutine and with
the one for `-csrf`. The process may be stopped wherever `CrashPoints` says, and
started again, with what is on the disk. A turn of the loader's loop is three steps:
`Publish` writes `ready`, 1000 times the position divided by the size, then `SetPtr` moves
`ptr`, and `LoadRecord` reads a record. So the last turn publishes 1000 before `ptr` is at
the end, and requests that come in between find the old `ptr`. Statements of one
goroutine are seen in their order here, as amd64 has it; the assignment to `store.ptr` is
not an atomic one, so Go promises less.

### CircularLog

Every assignment of `Add` and every turn of the loop in `GetOrdered` is a step.
Messages are numbered in the order in which they are stored, and the reader
keeps the addresses of entries, as the code does. There are several writers. The history
variable `overlapped` says that two calls of `Add` were in progress at a time, which
nothing in the code prevents.

### Images

A file is what it was made of, whether all of it was written, and who has it open:
`os.Create` empties a file that is there, and what is removed stays open to those
who had it. `UploadCreate` to `UploadPost` are the calls of `PostAPI`,
`Take` to `Sleep` those of a goroutine of the queue, `DeletePost` and `RemoveFile`
those of a deletion and of the callback that it calls under `store.Lock`. The queue
is short in the instance, so that `Push` drops paths. A restart forgets the queue
and keeps the files. Decoding reads a file in one step. The path of an image is the
hour and the name of the upload, so two uploads may have one path.

### Moderation

`conf` is the one `ForumConfig` that every request uses without a lock, `configStr`
the JSON in the log, `limit` and `limitLog` the limit of live topics and its record.
A message is its subject and its lines, and each line of each request is a step:
`Set`, `Moat`, `SetMaxLiveTopics`, `StoreCommand`, `Delete`, `Denied`, `Unknown`,
`LastLine`, then `UpdateConfig`. `Denied` is the early return of a line without
permission. `Panics` is a line that panics, which `net/http` recovers, so that the request
ends before `UpdateConfig`: a store command or a deletion in a list that an overlap with
`SetMaxLiveTopics` has broken, or the decoding of a term of "block" that is too long
(`util.go:81-109`). The history variable `loose` remembers that a request left
settings that were not saved in either way. `CheckInt` does the arithmetic of `CorrectValues`
on integers of 2 * `Half` values. `StoreCommand` stands for the calls of the
store whose effects are in `Store`; a deletion is that of `Images`.
A setting is an integer, texts and switches too.

### StringCodec, Pages, Search, Markup

These are functions, written as the code computes them and compared with what they
are for. `StringCodec` writes and reads a string rune by rune, with its groups, their
queue bytes, the end byte and the checksum. `Pages` has the clamping of page numbers
and what a page shows. `Search` has the bag of pairs, the "more than half" and the
early ends of the loops. `Markup` is the loop of `Do`, one turn at a time, on the
characters that it treats differently; the tags it writes are tokens. A link is `<a>`,
its URL, `'>`, its URL again and `</a>`, with the URL as `u.String()` gives it: the host as it
was typed, "<" and ">" included, the path escaped. `IsLink` is what `url.Parse` accepts of
the characters there are. `Markup` uses
a RECURSIVE operator and is not used by any module with a theorem, so its
property is in `MCHelpers`. The others are written with folds, which the proofs unfold turn by turn.

### DataFile

Positions count calls of `append`, not bytes. `data[i]` is what the call at
position `i` wrote, or `Torn`. The header is `slot[0]`, `slot[1]` and `flag`.
Each file operation of `append` is an action; a write may stop half way
(`TearData`, `TearSlot`), any call may return an error (`ReturnError`), and the
process may end anywhere (`Crash`), after which `LoadDB` reads the header again.
The flag is a single byte and is not torn. What was written stays written: a
power failure that loses the operating system's cache is outside this model. Two
calls of `append` at the same time are the subject of `SharedFile`.

`ImplementsLog` instantiates `DurableLog` with `log <- SubSeq(data, 1, Committed)`:
`WriteFlag` is the step that adds the record, and everything else is a stutter.

### LongID

Shifts and masks are products, quotients and remainders of powers of two; the
conversions to `uint32` and `uint16` are remainders. Theorem `SplitInvertsLongID`
is about all 2^32 topic IDs and all 4095 post IDs.

## 3. The runs

All numbers are bounds of the instance, given in the `.cfg`. `MaxPieces`, `MaxAsked`,
`MaxAppends`, `MaxDups`, `MaxTime`, `ToLock`, `ToPurge`, `ToBlock`, `MaxRecords`, `MaxStarts`,
`MaxMessages`, `MaxUploads`, `MaxFailures`, `MaxRequests` and the `Max`... of `Helpers`
are bounds that the code does not have.

| run | bounds | what it asks |
|---|---|---|
| `StorePosts` | 1 topic, 2 posts, 2 users of whom one moderates, images, nsfw, snapshots | does every operation on posts, flags and settings survive a restart and a snapshot; is the log ever refused at the limits of topics and posts |
| `StoreOrder` | 3 topics, 2 posts | the list under bumps, sticky and sage; three topics are needed for a topic to be moved past one and not past another |
| `StoreArchive` | 4 topics, limit 2, snapshots | `ArchiveJob` with errors, restarts and snapshots between any two steps; two topics to archive, so that a job can fail between them |
| `TopicList` | 3 topics, 2 posts, limit 2 and then 1, 3 requests beside `NewTopic` | do the splices keep the list; what can go wrong when `SetMaxLiveTopics` archives beside a request or `ArchiveJob`: a list of three has a first, a middle and a last topic, and three requests are enough for a job, a purge or a bump, and one that finds the damage |
| `DataFile` | 4 calls, 2 records | crashes, errors and torn writes between any two writes |
| `SharedFile` | 2 callers, 5 appends, 2 copies, 5 bytes at a time | appends and copies under one lock; five bytes part the header and its slots; five appends use each slot twice and more |
| `SharedFileRace` | a caller under each lock, 2 appends | expected to find a violation: appends under two locks |
| `PostRepeats` | 3 requests, 2 UUIDs, 3 seconds, a cache of one UUID | repeats and the cooldown; three requests and one entry let the cache forget |
| `PostRolls` | 3 requests of several kinds, 1 try, topics of 2 posts, one that is locked, one that is purged, an address that is blocked and unblocked | counting, forgiving and blocking, for which one try and three requests are enough; are the answers true, also to a full topic |
| `Boot` | 3 starts, 3 records, stops at four points | readiness, and that a start ends |
| `Helpers` | 2048 topic IDs and 16 post IDs at the boundaries; strings of 5 of 6 characters in groups of 2; 10 posts by 3, 7 topics by 2; queries of 5 of 4 characters; texts of up to 5 of 15 pieces; a buffer of 3, 8 messages, 2 writers, 1 reader | the functions against their reference; groups that are full, half full and empty, first, middle and last pages, queries of one pair, links with and without a "<" in their host, a path, spaces and new lines, more than two rounds of the buffer |
| `Moderation` | scene "settings": 2 requests with 14 messages of up to 3 lines, a number that is corrected, a switch and two texts; scene "goroutines": 1 image, 2 goroutines, a deletion; scene "uploads": 2 uploads of one path, 1 goroutine, a deletion; a queue of 1, one failure or restart | are the settings in effect the saved ones; what becomes of files |

The scenes of `Moderation` part what does not meet: settings and files share no
variable but the count of failures. The proofs in section 5 do not part them.

`DivergesOnlyBy` names the only steps that make memory and log differ in anything
at all: a topic started with "sage", a topic unstuck, a full topic that was
locked already, and a new post that its author had flagged already.

**Fairness.** `StoreArchive` assumes weak fairness of the steps of a running
archive job. It is a loop of a goroutine that waits for nothing, and Go's scheduler runs
every goroutine that can run. No fairness is
assumed of requests, errors or restarts. `Boot` assumes weak fairness of `main` and
of the loader, two goroutines that wait for nothing but the file system; it
assumes nothing of the requests, so `ComesUp` does not need any. `Moderation` assumes
weak fairness of the goroutines of the image queue (`Job`), which loop forever and
wait for nothing but an entry of the queue; none of uploads, deletions or commands.

**Deadlock.** Every state of `Store` and `Snapshot` allows a restart unless the log
is refused, and a crash is always possible in `DataFile`: there deadlock is
checked. It is not in `Helpers`, whose inputs end, nor in `SharedFile`, `PostAPI`,
`Boot` and `Moderation`, where the system stops when the bounded appends, requests
and starts are used up. In `TopicList` it stops for good when the process has ended and
its log is refused at every later start.

## 4. Where the code does not keep its word

The properties of the runs say what the code keeps. Each module also states what
a comment, a text or an assertion of the code says and the code does not keep;
TLC shows a counterexample when the property takes the place of those in the
`.cfg`.

| property | instance | what happens |
|---|---|---|
| `AppendIsWAL` | `SharedFileRace` | `UpdateConfig` appends without `store.Lock`, its seeks and writes mix with those of a post, and an acknowledged record is lost |
| `SagedRisesOnce` | `StoreOrder` with `Flags = {"sage"}` | a topic started with "sage" is not saged in memory until the process is restarted, so replies go on lifting it |
| `RestartKeepsNSFW` | `StorePosts` | the flag of a new post is set in memory and inverted in the log |
| `~ disk.panic` | `TopicList` | a topic is purged, or taken by `ArchiveJob`, while `SetMaxLiveTopics` archives it, or takes a post after its `OP_ARCHIVE`: the log has a record that an assertion of `loadDB` refuses at every later start |
| `SnapshotKeepsOrder` | `StoreOrder` | a forum loaded from its snapshot lists its topics in another order, when a topic was unstuck or a sticky one is saged |
| `NotPostedTwice`, `CooldownAlways` | `PostRepeats` | two requests at the same moment pass the UUID check and the cooldown, each of which is a lookup and an addition in two calls |
| `LockedTakesNone` | `PostRolls` | a reply enters a topic that was locked while it was on its way |
| `SuccessNamesPost` | `PostRolls` | a reply to a full topic is dropped and answered with success |
| `TriedTooOftenIsBlocked` | `PostRolls` | two requests of one user who has failed too often block the ID and unblock it again |
| `HeaderIsThere` | `Boot` | a stop between the creation of the data file and its header leaves a file that no later start accepts |
| `ServedWithConfig`, `SnapshotHasData`, `CsrfIsKept` | `Boot` | the store is ready before its configuration and its data file are: a request finds no configuration, a copy is left empty, `-csrf` ends without effect |
| `StaysUsable` | `Helpers` | two writers whose calls overlap push the position of the logger's buffer past its end, where no call sets it back |
| `NoTopicTwice` | `Helpers`, of lists like special, plain, plain | a list of one kind of topics starts each page at a position that counts topics of every kind, so a topic is on two pages |
| `NumbersAreKept` | `Helpers`, for the texts `[>>1` and `>>0` | a number before which the output is cut back is shown twice, the number 0 not at all |
| `LinksAreEscaped` | `Helpers`, for the text `[h<]` | the URL of a link is written as it is, and "<" stays in its host |

When `SetMaxLiveTopics` archives without `store.Lock` beside a request or `ArchiveJob`,
the instance of `TopicList` also has these behaviours, which `NothingLost` and
`OnlyOverlapBreaks` leave open:

- The pivot of the walk leaves the list, and the loop goes on past the first topic: with
  the list emptied between the walk and the read of `endTopic.Prev`, `rootTopic` itself is
  archived, under its ID 0, and logged (`store.go:430-435`).
- A topic is spliced out that has left the list already. Its old `Prev` and `Next` are
  linked to each other, and a live topic between them drops out of the list, or two
  topics lead to each other for ever (`store.go:438-439`). The log keeps the topic, so the
  next start brings it back.
- A pointer is nil: the request of `SetMaxLiveTopics` panics, or a later one does.
  In `ArchiveJob`, a goroutine of its own (`handle_newpost.go:244`), the panic ends the process.
- A post that is taken between the archive file of its topic and the `OP_ARCHIVE` record
  was answered with success and is in no file (`store.go:431-435`).

Other modules showed more of this kind, without a property of its own because no text of
the code promises otherwise. `SettingsSurvive` excludes the first four by its conditions,
`Storable` of `StringCodec` the last but one.

- A number set to 0 or less is in effect until the next start, which makes 0 the
  default and -1 one less (`struct.go:210`); a negative limit is read back as a large
  one (`store_op.go:155`).
- A line that is denied ends the request before `UpdateConfig`: what its earlier lines
  set is in effect and not saved (`mod.go:51`).
- A line that panics ends the request before `UpdateConfig` in the same way. `net/http`
  recovers the panic and the process goes on (`Panics` of `Moderation`).
- When `UpdateConfig` fails before anything was saved, nothing is restored; afterwards
  the changes that other requests have not saved yet are taken back as well
  (`store_op.go:180`).
- Two uploads of one name in one hour share a file: the second replaces the image of
  the first post, whose thumbnail stays, and deleting one post removes both
  (`handle_newpost.go:214`).
- A thumbnail that was written in part, by an error or a stop, is served and never made
  again; one that was created beside a deletion stays without its image
  (`image.go:58-103`).
- `PassRoll` subtracts unsigned numbers: a user above the limit is challenged nearly
  always, while the comment says less often (`util.go:142-144`).
- A message may hold U+0000, since only blanks are trimmed (`handle_newpost.go:129-130`).
  It is written with a zero, which is the end of a string to the reader, and `loadDB`
  refuses what follows at every later start (`store_log.go:119`). A rune above plane 0 is
  written as its low 16 bits and comes back as another one.
- `prefetch3` ends at invalid UTF-8 (`markup.go:43`), and the loop that skips what it has looked
  at counts characters of another text from there on (`markup.go:63`). The texts of
  `Markup` are valid.

The properties that hold beside them say what is left: `RepeatNotPosted` and
`CooldownKept` are about requests that follow each other's answers,
`LockedTakesOnlyEarly` about requests that come after the lock,
`SnapshotKeepsStickyOrder` about lists whose stickies lead, `AckedLoads` about
callers under one lock, `AddsInTurnAreKept` about additions that do not overlap,
`SplicesKeepList` about a list at which one goroutine is at a time, `TriesAreCounted` about
tries that follow each other,
`LinkShowsPost` and `TopicsListed` about a topic being somewhere rather than once,
`TextIsKept` about letters rather than numbers.

## 5. The proofs

`StoreProofs` proves, for every number of topics, posts, users and terms, and whatever the
requests are:

| theorem | property |
|---|---|
| `StoreTypeOK` | `TypeOK` |
| `StoreLogLoads` | `LogLoads`: the log is never refused |
| `StoreListInv` | `ListInv`: the list is whole, in memory and as loaded |
| `StoreNothingLost` | `NothingLost` |
| `StoreRestartKeepsContent` | `RestartKeepsContent` |
| `StoreOthersKeepOrder` | `OthersKeepOrder`: one operation moves one topic |
| `StoreArchiveKeepsPosts` | `ArchiveKeepsPosts` |
| `StoreKeepsLimit` | `KeepsLimit` |

They assume `StoreAssumption` and `LogAssumption`, the types of the constants, which TLC
checks on each instance. They are about `Store`, whose requests take turns under
`store.Lock`, and say nothing of a lower limit that `SetMaxLiveTopics` is called with while
others are at the list: what becomes of the log then is in `TopicList` and in section 4.

None of the properties is inductive alone. Whether `loadDB` accepts a record depends on
what it made of all earlier ones, so the core of the invariant is `Pair(db, disk)`: in
memory and in the log each topic is linked once, with the same posts up to NSFW flags, and
`LiveTopicsNum` counts both lists. For each record there is a lemma that the operation's
change and the loader's change keep the pair. `StoreInv` adds what `ArchiveJob` relies on
(`JobOK`): its pivot stays in the list and the topic it has saved is still there as it
was saved. `IInv` is `StoreInv` with a log that loads. One lemma, `NextKeeps`, says of each
step what it does to them.
The lemmas about the splices come first in the module. `StoreOthersKeepOrder` is one of
them (`MovedOrder`), applied to each operation: what is inserted after a topic has been
unlinked leaves, unlinked again, the same list. `StoreKeepsLimit` needs to know where the
job stands (`JobPlace`): the pivot is at the place of the limit, and what has been saved is
the last topic, so a topic is only taken from behind the pivot.

`SnapshotProofs` proves, of `SnapshotSpec`, that a forum can go on from a snapshot of its
log, and from a snapshot of that, as from the log itself:

| theorem | property |
|---|---|
| `ArchivesReadBack` | `ArchiveReadsBack` |
| `SnapshotLosesNothing` | `SnapshotKeepsAll` |
| `SnapshotKeepsOrderOfStickies` | `SnapshotKeepsStickyOrder` |
| `SnapshotDivergesOnlyBy` | `DivergesOnlyBy`: the steps that part memory and log are those named |
| `SnapshotLogLoads` | `LogLoads` |
| `SnapshotListInv` | `ListInv` |
| `SnapshotNothingLost` | `NothingLost` |
| `SnapshotRestartKeepsContent` | `RestartKeepsContent` |
| `SnapshotArchiveKeepsPosts` | `ArchiveKeepsPosts` |
| `SnapshotKeepsLimit` | `KeepsLimit` |

`Spec` is `SnapshotSpec` without the snapshots, so they hold of it too. The proof follows
the reading of what was written. `Reading(T, o, n)` is the store that `loadDB` has made of
the first `n` topics, and each record is shown to lead from one such store to the next: a
post opens bare, gets its image and its flag (`PostRead`), posts make a topic
(`MarshalReads`), whose flags, all false at first, are inverted where they are set
(`TopicReads`). A topic read is put before all that are not sticky and stays at that place
while its posts are read; a sticky one goes to the head when it is flagged unless it is
saged by then, which is why `StickiesLead` has to speak of saged topics (`OneMore`). The
number of posts and topics is not bounded, so these steps are chained by induction: the
library's induction theorems cannot be used here, but the recursive functions of
`Snapshot` are sequences of stores, and a set of numbers with 0 and all successors is
`Nat` because its complement has no least element (`Induct`). The blocked terms go the
same way, over the subsets that `FoldSet` is defined by (`BlocksOf`). `SnapshotInv` adds to `IInv` what `Store`
never needed: topics and archive files hold at most `MaxPosts`
posts, or `loadDB` would refuse the second writing of what it took once, and finitely many
terms are blocked (`Bounds`).

`SnapshotDivergesOnlyBy` compares two pieces of code that do the same work in different
orders. `NewPost` adds a whole post and moves the topic; `loadDB` adds a post without its
image, moves the topic and sets the image then, which is the same since the place of a
topic does not depend on its posts (`MoveThenChange`, `NewPostAgrees`). `NewTopic` puts a
topic with its post in the list; `loadDB` puts an empty one there, and moves it a second
time for the post, which leaves it where it is (`StaysOpened`, `NewTopicAgrees`).

`DataFileProofs` proves `TypeOK`, `Readable`, `AckedIsKept` and the refinement
`ImplementsLog` for any set of records and any length of the log. Its invariant
adds what each step of `append` knows of the file (`Progress`).

`SharedFileProofs` proves, for any number of callers, appends and copies and every size
of a copied piece, under the hypothesis `ConfigCallers = {}`, which is what the run
`SharedFile` has:

| theorem | property |
|---|---|
| `LocksExclude` | `Exclusive`: one append at a time, none beside a copy |
| `AcksAreLoaded` | `AckedLoads` |
| `SnapshotsLoad` | `SnapshotLoads` |
| `SharedFileImplementsDataFile` | `ImplementsDataFile` |

The hypothesis is needed: `AppendIsWAL` is violated in `SharedFileRace`, where
`UpdateConfig` appends under the other lock. The invariant follows one append through the
bytes. `FileInv` says that the file holds what was acknowledged and at most one record
more, `CallerInv` what the append knows at each of its steps (where the offset is, which
slot is spare, what it has read and written), `DupInv` what a copy has so far: a prefix of
a file that does not change meanwhile. With `DataFileImplementsLog` the refinement makes a
chain, `SharedFile` to `DataFile` to `DurableLog`. Assumed are that some request appends at
all, that no record is the value for none, and that lengths fit in the bytes of a slot
(`LengthAssumption`; `TooLong` is 2^16 and stands for the 2^48 of the code's six bytes).

`BootProofs` proves `ReadyMeansLoaded` (theorem `RequestsFindTheLog`) for all logs, sizes of
records, points of a stop and numbers of starts, and that no step takes a record off the
disk (`RecordsOnlyGrow`). `BootInv` says what the loader has read at each of its places;
its core is the quotient by which `ready` is computed, which is 1000 only at the end of
the log (lemma `QuotientBelow`). `store.ptr` follows one statement after `ready`, so what is
proved of it is where it is once the data file is open, which nothing can append to before.

`HelpersProofs` proves, for inputs of every size:

| theorem | property |
|---|---|
| `NumbersLeadToPosts` | `LongIDRoundTrip` |
| `PagesShowEverything` | `PagesShowAll` |
| `StringsAreKept` | `StringsReadBack` |
| `SearchesFindMatches` | `SearchGivesMatches` |
| `AddsInTurnAreOrdered` | `AddsInTurnAreKept`, for any number of writers |

The first four follow from what the inputs are (`HelpersInv`) and from lemmas about the
functions themselves, for all of their arguments:

- `SplitInvertsLongID`, by cases on the four layouts, whose digits are read back one by one.
- `LinkLeadsToPost` and `TopicsAreListed`, for every number of posts and topics and every
  size of a page. A page of a list that starts before a topic and is long enough to reach it
  has taken at most one topic for each place it passed, so there is room for the topic
  (`TopicsCollected`).
- `RecordReadsBack`, for every string of `Character` and every `GroupSize` of a byte. What the
  writer has put out is at each character what the reader, from its first state, turns
  into the characters so far, but for those in the queue (`Writes`, `Pending`); the length
  that `GroupByte` puts before a group is the number of characters that the reader
  counts down.
- `ChangeIsCaught` and `SwapIsCaught`. The table of CRC-8 is eight turns of a shift that is
  additive and injective over bits (`TableAdds`, `TableInjective`). So a changed byte
  changes the sum and every sum after it. When x and y are swapped the sums agree only if
  the table leaves the sum of the bits of x and y as it is, and it leaves only 0 (`TableMoves`).
- `SearchIsComplete`, for every forum, every query and every bound. The pairs of a query
  without spaces are those of its neighbouring characters, from the first on
  (`PairsOfQuery`), so a text that contains the query has a place for each of them
  (`IncludedMatches`). The posts found so far lie, each once, before the place that the search
  has come to, and are as many as it counted or as it was asked for (`FoundOK`); what is
  found stays found (`GoesOn`), and once a topic has been searched, what matches of it is
  among the posts found unless there were too many (`Given`).

The prover has no induction with an operator as its parameter. `Induct` is induction with
a set in its place, proved from the least element of a set of numbers; a fold is turned
into the function of its values after each turn (`Turns`, `FollowsTurns`), and all of the
inductions above are over such a function.

`AddsInTurnAreOrdered` is about all writers that there are, as long as no two calls of `Add`
have overlapped; `StaysUsable` shows what one overlap can do. Its invariant says
of every entry which message it holds, also in the middle of `Add` (`EntriesInv`: those
below the position are of this round, the others of the last), and of the reader that
`full` never goes back.

`PostAPIProofs` proves, for all requests, forms, caches and bounds:

| theorem | property |
|---|---|
| `AnswersAreTrue` | `AnswerIsTrue` |
| `LockedTopicsTakeOnlyEarly` | `LockedTakesOnlyEarly` |
| `RepeatsAreNotPosted` | `RepeatNotPosted` |
| `PostsKeepCooldown` | `CooldownKept` |
| `FailedTriesAreCounted` | `TriesAreCounted` |
| `PassedUsersAreForgiven` | `PassedIsForgiven` |

The invariant `PostInv` ties where a request is to where its post is: it is in a topic
exactly from `PostTopic` or `PostReply` on, topics only grow, and who goes to the image or
the post with a topic has seen it open. The last four properties speak of what a cache
still holds, and a cache forgets what was used longest ago, so each of them makes its
promise only while no more keys have come than the cache holds. The lemmas about
`RemoveAt`, additions and lookups give a cache's two invariants: it holds a key once, and
holds only keys that came. So nothing is dropped until the keys are too many, and
`UuidInv`, `CooldownInv`, `TriesInv` and `ForgivenInv` say what is held until then: the UUID
of every request that has posted, a time no earlier than that of its last post, exactly
the number of failed challenges, and no more than the number failed since one was
passed. The proof showed that `TriesAreCounted` has to name that escape too, for a user
whose count is pushed out when more users than `CacheSize` have come. It says that the
user is blocked in the end, unless a moderator changed that or the record was not written
(`meddled`), and only of tries in turn, since two at once may invert one block. Assumed are the
types of the constants, that users are not requests and IDs are not addresses
(`PostAPIAssumption`), and that the topics of the beginning hold no post of a request
(`OldTopicsAssumption`).

`ModerationProofs` proves of the whole composition with `Images`, for all paths, uploads,
goroutines, requests, messages and settings:

| theorem | property |
|---|---|
| `SettingsAreKept` | `SettingsSurvive` |
| `RemovalsAreLogged` | `RemovedIsLogged` |
| `OrphansOnlyByOverlap` | `OrphanOnlyByOverlap` |

`SettingsInv` says that the saved configuration agrees with the one in effect unless some
request has performed a command and goes on to `UpdateConfig` (`opcode`), or was denied
(`loose`); the arithmetic of `CorrectValues` is the lemma `CheckIntKeeps`, for integers of
every width. `ImagesInv` says of every upload, and not only of posts, that its file is
there or a deletion with its path was accepted, and of every file that it is open to
nobody when it is not there, without which a late write could bring it back. The
messages are assumed to carry integers where a number is set (`MessagesAssumption`).

**Only model-checked:** the three properties of `TopicList`, whose steps are single
statements of two goroutines, in three topics and three requests; `MarkupIsClosed`, whose
loop is a RECURSIVE operator, out of the proof system's reach; and the liveness properties
`ArchiveEnds`, `ComesUp` and `ThumbComes`, which are out of its reach too.

## 6. What is not modelled

- Rendering, templates and static files; the archive cache and the page of an archived
  topic (reading its file is in `Snapshot`).
- Cookies and the encryption of users: the server keeps nothing of them. `PostAPI` has
  their outcomes, and `PassRoll` as a random choice.
- The traffic monitor, whose counters nothing uses; `idsort.go`, which nothing calls; the
  benchmark under `if false` in `NewStore`.
- Queries that begin with ">>" or "!!" and the time limit of a search.
- Races on parts of a value: a configuration that is marshalled while another request
  changes it, a string that is read while it is written. Settings and posts change in
  one step here.
- A power failure that loses or reorders what the operating system has not written yet.
  `append` does not sync its file, so nothing is promised then.
