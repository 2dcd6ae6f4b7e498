# A verification of kotodex in TLA+

kotodex is a reading companion for Japanese: text is hooked from a visual
novel (or pasted, or photographed, or transcribed from a video), stored as a
line stream, shown in a browser reader and an overlay, tokenized into a
vocabulary ledger, and mined into Anki cards. This directory models the parts
of it whose correctness depends on the order of things: what is captured,
shown, counted and judged, with several actors at work and calls that fail.

Contents: [1 Inventory](#1-inventory) · [2 Modules](#2-modules-and-the-code-they-model)
· [3 Runs](#3-runs-bounds-and-what-they-show) · [4 Fairness](#4-fairness)
· [5 Proofs](#5-proofs) · [6 Where code and promise part](#6-where-the-code-and-a-promise-part)
· [7 Not modelled](#7-what-is-not-modelled) · [8 Plan](#8-plan)

## 1. Inventory

| component | source | state | operations |
|---|---|---|---|
| Capture logger | `sources/textractor/vn-ws-logger.py` | `pending` lines, the line on screen, the settings cache, the retry back-off, the source (WebSocket or clipboard) | capture a text box, join it to the last, retract, flush, heartbeat, pause, switch source, stop |
| Line intake | `kotodex-server/src/routes/ingest.rs`, `db/lines.rs` | the `lines` table, last heartbeat per source, `capture_paused` | `POST /api/lines`, `/retract`, `/heartbeat`, discard, restore |
| Line feed | `routes/reader/stream.rs`, `routes/reader/lines.rs`, `static/reader.js` | a position per SSE client; the feed, the undo toast and three requests in the tab | opening batch, resume by `Last-Event-ID`, poll, page of history, clear, undo |
| Ledger ingest | `kotodex-server/src/ingest.rs` | four sinks and their line watermarks | refresh, rebuild |
| Session ingest | `db/sessions.rs`, `routes/sessions.rs`, `ingest.rs` | `manual_sessions`, the session watermarks | log, delete, ingest their text |
| Vocabulary ledger | `jp-core/src/knowledge/vocabulary.rs`, `routes/vocab.rs` | status, mined flag, counts per (headword, reading) | judge, record, reset, carry, prune, blacklist, repair |
| Mining queue | `services/mining_queue.rs`, `db/mining_queue.rs`, `routes/mining_queue.rs` | queue rows and media files, the capture slot, the rank snapshot | capture, list, rank, promote, discard, clear |
| Card adding | `services/card.rs`, `capture.rs`, `anki.rs`, `routes/ankiproxy.rs`, `routes/anki.rs` | `anki_notes` mirror, lookups, Anki's collection (external) | add a note, enrich it, mirror it, refresh the mirror |
| Derived cache | `jp-core/src/highlight/derived.rs` | payload sections stamped with a fingerprint | read, build, store |
| Dictionaries | `jp-core/src/knowledge/dictionaries.rs`, `dictionary/mod.rs`, `bin/jp-dict.rs` | one row per dictionary with its role and priority, its entries and frequencies | sync, set a role, reorder, remove, re-import |
| YouTube mining | `yt-mine/src/` | jobs, sentences, primer tables | submit, run the pipeline, poll, export, clean up at start |
| Manga mining | `manga-mine/src/` | volumes, photo queue, client cache | upload, mark, export |
| Tokenizer, text, definitions | `jp-core/src/tokenize.rs`, `text/`, `define.rs` | none | tokenize, look up |
| Statistics | `kotodex-server/src/stats/`, `history.rs`, `routes/timeline.rs`, `db/lookups.rs` | none of its own: derived on request from lines, look-ups and marks of presence | sittings, days, works, focus, timeline, streaks, kanji, pace |
| Works, settings, reader services | `db/works.rs`, `db/settings.rs`, `routes/reader/*` | rows of one table each, timed caches | edit, look up, explain |
| Readers and overlays | `kotodex-server/static/`, `overlay/`, `layer-overlay/` | browser and window state | render, click, mine |
| Launcher, capture tools, services | `kotodex/*.py`, `capture/`, `whisper-service/`, `manga-ocr-service/` | processes, the audio ring | start, stop, record, infer |

**How they interact.** The logger posts lines to the server over HTTP and
polls its settings; the server writes `lines`; the stream polls `lines` and
pushes to the reader's tab, which reads history, clears and undoes over
requests of its own; a capture task per posted batch fills the mining queue;
the Anki refresh and the vocabulary rebuild read `lines` behind watermarks and
add to the sinks, the vocabulary among them, which the reader judges meanwhile;
Yomitan's Anki calls go through the server's proxy, which records lookups and
enriches the cards that are added. `jp-dict`, a process of its own, changes the
dictionaries under a running server, and both may build the derived cache; yt-mine
is a server with its own database. Every arrow is asynchronous. SQLite
serialises statements and transactions; nothing serialises handlers, so between
any two `.await`s on the database another handler may run.

**What is hard, and what must hold.**

* *Capture logger and intake.* A retract names no line: it takes back the
  newest. A reply can be lost after the rows are in; a request can arrive after
  the logger gave up on it; a backlog can outgrow a batch; either side can die.
  No text may vanish, the ledger must read in the order the game spoke, a joined
  line must replace exactly the half it continues, and what is held must drain.
* *Line feed.* Four conversations rewrite one array as their answers come. The
  feed must stay in order, without repetition or gap, agree with the ledger
  about what is cleared, and show everything past the stream's position.
* *Ledger ingest.* The sinks are additive and the transactions are per sink: a
  watermark that runs ahead loses lines for good, one that lags counts twice. A
  rebuild must come out exact whatever damage came before it.
* *Session ingest.* The same watermarks over a table whose ids can come back.
* *Vocabulary ledger.* What the reader said of a word is theirs alone, while
  rebuilds re-key, prune and re-count the rows it sits on.
* *Mining queue and cards.* Captures wait for one slot while their lines grow
  old, and a script may hang; promote, discard and clear share rows and files
  with no lock; addNote is retried once and its answer may be lost. A row must say
  what became of its line, offer media it has, and lead to one card; the mirror
  must come to hold what Anki holds.
* *Dictionaries and derived cache.* A fingerprint read before a build, sections
  stored one by one, and dictionaries that change meanwhile: what is loaded as
  current must be what a build would give. There must not be two masters.
* *YouTube mining.* A pipeline whose inserts, film and status writes overlap,
  and a start that drops what was unfinished: what is called done must be whole.
* *Statistics.* Five views and two pages price the same gaps, each in its own
  loop and with its own edge conditions: there can be only one rule.

Every hazard found is listed in `PROJECT.json` at the line where it bites, with
the properties that cover it or the reason none does.

## 2. Modules and the code they model

| module | stands for | granularity |
|---|---|---|
| `LedgerIngest` | `ingest_new_lines`, `commit`, `reset_vocabulary` over `lines` | one step per awaited statement of each pass |
| `SessionIngest` | `ingest_new_sessions`, `insert_session`, `delete_session` | one step per write; passes run one at a time |
| `CaptureSink` | `emit`, `StatsSink` of the logger, `ingest_lines`, `retract` of the server | one step per request; the fate of a request is a choice |
| `ReaderFeed` | `lines_stream`, `lines_before`, discard and restore; `reader.js`'s feed | query, event, request and answer are steps of their own |
| `VocabLedger` | `vocab_rebuild`, the refresh's ledger half, `vocab_judge`, `vocab_blacklist_non_words`, `repair_empty_readings` | one step per statement or transaction |
| `CardAdd` | `add_note_with`, `forward`, the detached mirroring and enrichment, `anki_refresh` | request, answer and each statement; a send may be lost on the way out, back, or be unreadable |
| `MiningQueue` (over `CardAdd`) | `capture_candidates`, `capture_one`, `promote`, `discard`, `clear` | one step per statement or file operation |
| `Dictionaries` | the commands of `jp-dict` | one step per statement or transaction; a command carries along what it read |
| `DerivedCache` (over `Dictionaries`) | `load_or_build`, `fingerprint`, `rebuild`, `store`, `load` | one step per query and per stored section |
| `Transcripts` | what yt-mine promises of a video's page: abstract | |
| `YtJobs` | `submit_job`, `submit_local`, `process_job`, the primer, clips, the start-up; implements `Transcripts` | one step between two awaits |
| `Figures` | `stats/`, `history.rs`, a day's page: pure operators | folds over lines |
| `ReadingLog` (over `Figures`) | how the history comes about: hooking, clearing, looking up, taking back | one step per statement |
| `MC…` | the same modules on small instances | constants in the `.cfg` files, structured ones in the MC module |
| `LedgerIngestProofs`, `SessionIngestProofs`, `VocabLedgerProofs`, `MiningQueueProofs`, `YtJobsProofs`, `CaptureSinkProofs`, `ReaderFeedProofs`, `DerivedCacheProofs` | theorems of the modules they are named after | |

`PROJECT.json` maps every definition to the lines it stands for.

**LedgerIngest.** `mark` is the four watermark rows of `settings`; `pc`, `at`
say which statement each request is at and for which sink; `seen`, `batch`,
`top` are the locals `*_mark`, `lines`, `max_id`. A sink is abstracted to
`credit[s][i]`, how often it was given line *i* (none, once, more): the sinks
add, so that is all a reader of them can tell. `Start … Save` follow the
function top to bottom, `Clear` and `Rewind` are `reset_vocabulary`'s
statements, and `Abort` is a `?`, a dropped request or a server exit between any
two. `AppendLine`, `Discard`, `Restore` are what the rest of the server does to
`lines` meanwhile. Lines the tokenizer fails on are warned about and skipped
(`Unreadable`). The harvest itself (which words a line holds) is left out.

**SessionIngest.** As above over `manual_sessions`, whose `DELETE` and `id
INTEGER PRIMARY KEY` (largest id left plus one) are modelled as SQLite does
them. `torn` remembers sinks a failed rebuild cleared but did not rewind.

**CaptureSink.** A line is the interval of text boxes joined in it. `Capture`
is `emit` up to its first request, `Retract` and `Add` the two calls of
`StatsSink` (with the flush at the end of `add`), `Beat`, `Heartbeat`,
`ReadSettings`, `Expire` the timed part. `Apply` is the server's side:
a batch over `MAX_BATCH` is refused whole, a paused one is accepted and
dropped. `Faults` says what can become of a request: refused (never seen), lost
(applied, reply not heard), late (applied after the logger moved on, `Arrive`).

**ReaderFeed.** `last_id` is the stream task's position, `wire` the events in
flight, `lastEvent` the browser's `Last-Event-ID`. `Connect`, `Open`,
`StartAtEnd`, `Poll` are the handler's queries (`StartAtEnd` is the second query
of an opening on an empty table), `AskHistory`/`AnswerHistory`/`ShowHistory`,
`ClearLast`/`Discard`/`ShowCleared` and `UndoClear`/`Undiscard`/`ShowRestored`
the three requests, each with a failing variant. How far back the opening batch
reaches depends on timestamps nothing else reads, so it is any length the code
allows.

**VocabLedger.** A row is its status, its mined flag and whether its counts are
zero. `KeyOf` is the key the installed tokenizer counts a use under, `CalledNow`
the key it gives a headword alone, which is what `carry_stranded_judgements`
asks; `Upgrade` installs the next version. `ResetCounts … Prune` are the
rebuild's statements in order, `notes` the `anki_notes` mirror, `fixing` the row
`repair_empty_readings` has decided about but not written. `said` and `claims`
are history: what the reader ever said of a word, and has not taken back.

**CardAdd and MiningQueue.** `step[a]` is where an add is between the reader's
click and the end of its enrichment; `notes` is Anki's collection (external),
`mirror` the `anki_notes` table. `Losses` says how a send can fail, `AfterLoss`
what `forward` makes of it (its one retry, or giving up). A line's capture is
`unread`, `waiting` for the slot, `shooting`, `saved` (files, no row yet) or
`over`; `stray` are scripts given up on that still run. `PromoteRead`,
`PromoteSend`, `PromoteEnd`, `DiscardResolve`/`DiscardRemove`,
`ClearResolve`/`ClearRemove` are the handlers' statements in order. `rival`,
`touched`, `raced` are history: they name what a property may blame.

**Dictionaries and DerivedCache.** A dictionary is its zip, role, priority and
two counts, which is all a fingerprint sees. `Sync`'s steps (`Find`, `Import`,
`Freqs`, `Guess`, `Order`, `Label`, `Choose`, `Apply`) follow `import_all` and
`ensure_master`; `Demote` is the loop of set-role over the masters it listed, before
`Apply` sets the new one; `Typed` are the commands somebody types. A listing is the
rows with their roles and priorities, and `Foremost` what of some ids comes first in
it. `NextIds` is SQLite's next rowid; `MaxId` bounds it. A worker of
`DerivedCache` is a server that starts or a command that rebuilds at its end;
a section holds the version of the dictionaries it was derived from. Two sections
stand for the six. `returned` is history: some part of a fingerprint came back to
an earlier value.

**Transcripts and YtJobs.** `Transcripts` knows the page of a video: absent,
coming, whole or failed, the lines shown and whether the film is there. `YtJobs`
has the tables and the memory of the process (`pipe`, `writes`, `sub`, `view`),
all of which a `Crash` loses; `shown` maps the latest job of a video to its page.
A line is its place in the transcript: whisper's segments are given by where each
ends (`Ends`), so a segment is an interval, and a task (`writes`) is the next line
it inserts. `excused` are videos of which a write failed or which were submitted
twice at once, about which `Transcripts` promises nothing.

**Figures and ReadingLog.** Instants are whole seconds and what a line is worth
is rounded down; `Rollover` takes in the time zone. Each operator is one function
of the source, folds and edge conditions as written. `ReadingLog` makes
histories: `Hook` may be late, `SetDiscarded` clears and puts back, `Record`
de-duplicates, `RetractLookup` deletes a row from one database and `LeaveMark`
writes a mark to another, or `LoseMark` does not.

Operators named `X_…` are mutated forms of `X`: a plausible bug (a guard
dropped, an order swapped, a reset forgotten). Each property is known to fail
for one of them, as `PROJECT.json` lists under `mutants`, so that none holds by
the shape of the model alone. No specification uses them.

## 3. Runs, bounds and what they show

| run | instance | shows |
|---|---|---|
| `ledger_passes` | 2 sinks (one rebuilt, one not), 2 lines, a rebuild and a refresh, failures | `NoLineLost`, `RebuildIsExact`, `CountedOnce`, `MarksOnlyRise`, and that `IngestInv` is an invariant |
| `sessions_counted` | 2 sinks, 2 texts, 3 ids, failures | `SessionsCounted`, `TextCountedOnce` |
| `capture_outage` | 5 text boxes, 3 held, batches of 2, refused and lost requests, a dying logger | `NothingVanishes`, `InOrder`, `HalvesReplaced`, `RetractsItsOwn` |
| `capture_drains` | 2 text boxes, as many held as a batch takes, every fault, pauses | `Drains` |
| `feed_undo` | 2 to 4 rows, clears, undos, retracts, a dropped connection, failures | `FeedWhole`, `ScreenAgrees` |
| `feed_scroll` | 0 to 5 rows, pages of 2, 2 dropped connections, failures | `FeedWhole`, `Arrives` |
| `vocab_rebuild` | 4 keys of 2 words, an upgrade, a rebuild and a refresh, 2 judgements, failures | `NothingUnsaid`, `NothingForgotten`, `RebuildFollowsReading` |
| `queue_promotes` | one line, two adds of two words, clear, discard, hanging scripts, lost replies, a dying server | `PendingHasMedia`, `RowTellsOfCard`, `OneCardPerLine`, `ToldMeansMedia` |
| `queue_ends` | two lines, one add, one refresh of the deck, a note deleted in Anki | `CapturesEnd`, `MirrorCatchesUp` |
| `derived_current` | two commands and a start of the server, one dictionary installed and one zip that is not; one death | `TrustsNoMix`, `OneMaster`, `SyncLeaves` |
| `yt_whole` | one video of two segments, 2 jobs, two requests for a primer or a clip, one trouble | `PrimerWhole`, `PlaysItsLine`, `NeverStuck`, and that `YtJobs` implements `Transcripts` (`KeepsItsPromise`) |
| `figures_agree` | days of 10 s, 3 lines of two works, late or not, one look-up or mark | `OneRule`, `NoTimeInvented`, `DayPageAgrees`, `PageMatchesShelf`, `CleanApart`, `LongestRuns`, `RetractKeepsTime`, `OpensOnTheSitting` |

The type invariant of each module is a conjunct of one of its invariants
(`IngestInv`, `SessionsCounted`, `NothingVanishes`, `FeedWhole`,
`RowTellsOfCard`, `TrustsNoMix`, `PrimerWhole`, `OneRule`); that of `VocabLedger`
is part of the invariant proved in section 5.

**Why the bounds are enough.** *Ledger*: what goes wrong between passes needs
two of them, one line already crossed and one not, and a sink of each kind
(reset and not reset); every further sink behaves as one of the two, and the
proofs cover any number of sinks, lines and passes, unreadable lines
included. *Sessions*: an id must be given out, crossed, deleted and given out
again, which takes two texts and, with a row that carries no text, three ids.
*Capture*: five text boxes overflow three held lines with a join before and
after; the shape that matters is `MAX_PENDING` against `MAX_BATCH` (2000 against
500 in the code): `capture_drains` has them equal, since a backlog larger than a
batch does not drain (section 6). In `capture_outage` late arrivals are off,
since one may discard the joined line; no pause either. *Feed*: a page, a batch
and one line beyond either, with resumptions before and after. *Vocabulary*: one
word that changes its key at the upgrade, one whose Anki-imported row lacks its
reading, one row no dictionary lists; two judgements (one given, one taken back)
and two requests. *Queue*: races are between two adds, of one row or of a row and
the popup; the slot and its queue need two lines. *Dictionaries*: a dictionary
that could be master and is not, and a list still to import; two commands because
everything that goes wrong goes wrong between two. *YouTube*: two segments so that
one insert can overtake another, a second job for the retry. *Statistics*: the
steps are a gap that is reading and one that ends a sitting, and a line that came
late makes the long one between them; each meets slice boundaries (3 s) and
rollovers (every 10 s); three lines
give two neighbouring gaps, which is as far as any of the folds looks back,
but for the streak.

`CHECK_DEADLOCK FALSE` stands where a bounded number of text boxes, rows,
drops, requests, commands or events can be used up and everything is at rest; the
ledger run and the session run never stop. Symmetry is over the lines, adds and
words of `queue_promotes`, the commands of `derived_current` and the readers of
`yt_whole`, none of which the models tell apart; no run with a liveness property
uses it.

## 4. Fairness

Three runs state any.

* `capture_drains`: weak fairness of `Retract` and `Add` (straight-line code
  once begun), `Beat` (a task that flushes every `HEARTBEAT_SECS`) and `Expire`
  (time passes). `Settle`, the network's becoming well, and the next capture are
  promised by nobody: `Drains` is conditional on the first and does without the
  second.
* `feed_scroll`: weak fairness of `Connect` (an EventSource reconnects by
  itself), of the stream task's queries (it polls every 30 ms), of receiving
  events in flight, and of answering an undo already sent. No tap of the reader
  and no captured line is promised.
* `queue_ends`: weak fairness of the server's own steps (`GiveUp` is a timeout,
  `Enqueue` an insert, an answer or its loss is the HTTP client's, mirroring a
  task already spawned) and strong fairness of `Shoot`, as the slot is a
  semaphore that serves in order. A refresh of the deck is started again each
  time the dashboard is opened, and its read and its store are strongly fair: it
  does not fail every time. No script need end, no line need age.

## 5. Proofs

All are checked by TLAPS for every value of the constants, from the named
assumptions in the modules (sizes are naturals, rebuilders are passes, maps have
their types, segments end one after another). Each inductive invariant was first
checked by TLC as an invariant of the module's run.

* `LedgerIngestProofs`: `IngestInvariant` (`Spec => []IngestInv`), with
  `TypeCorrect` and `LinesNeverLost` as consequences. `NoLineLost` alone is not
  inductive: saving a mark keeps it only because the sink was written first and
  the batch had every line the mark will cross. `IngestInv` adds exactly that:
  the marks a pass read were safe (`MarksReadSafe`), its batch misses no line up
  to `max_id` that it has not read as crossed everywhere (`BatchComplete`), and
  the sinks it has written are counted up to `max_id` (`WrittenCounted`). One
  lemma per action shows each conjunct kept; other passes can disturb them only
  by clearing a sink, which exempts it. `NeverCountedTwice` (`Spec =>
  []CountedOnce`) and `MarksRise` (`Spec => MarksOnlyRise`) are about refreshes one
  after another: there all marks are one line but while a pass saves them, what the
  pass read of them is still so, and a sink holds each line once at most, past its
  mark only what that pass has just written (`SoloInvariant`).
* Also there: `RebuildExact` (`Spec => RebuildIsExact`). `RebuildInv`
  says how far a rebuild that has run alone must have got, per statement: tables
  empty, then marks zero, then marks read as zero, then each line of the batch
  given once, then marks at `max_id`. With `BatchComplete` from above, its last
  save leaves what `RebuildIsExact` asks, whatever the sinks held before.
* `SessionIngestProofs`: `SessionInvariant`, with `SessionsStayCounted` (`Spec =>
  []SessionsCounted`) as its consequence. To what `IngestInv` says of a pass it
  adds what deletion takes away: ids are given out without a hole (`IdsUnbroken`)
  and a mark is 0 or an id once given out (`MarksUsed`), so an id that is new is
  past every mark and every batch, and one that is not is `again`. What a batch
  and a written sink vouch for is claimed of the rows still there and given out
  once (`Asked`), which deletion only makes fewer. `TextsCountOnce` (`Spec =>
  []TextCountedOnce`) adds the converse (`OnceInvariant`): a text is one row's for
  good, a sink that holds it is past that row or is being written to, and it has none
  of what the pass is about to give it. `NewestIs`, that `CHOOSE`
  finds the largest id, comes from the library's least-element theorem.
* `VocabLedgerProofs`: `VocabInvariant`, `NothingIsUnsaid`, `NothingIsForgotten`,
  under `NamesKept`: the key a headword has now, and the reading a bare headword
  is repaired to, name the word the row was for. The constants of `vocab_rebuild`
  satisfy it; two readings of one spelling do not, and there the judgement is
  misplaced (section 6). The invariant adds that a running rebuild's plan moves
  judgements only between names of one word, and that a repair never goes to the
  row it starts from. The argument: each statement either leaves what is said of
  every word, or is the reader speaking (`KeepsWhatIsSaid`).
* Also there: `RebuildFollows` (`Spec => RebuildFollowsReading`), which does not need
  `NamesKept` but `KeysReal`: a key the tokenizer counts a use under is not one a
  repair renames, since what it repairs is "a key nothing else will ever write to"
  (`vocabulary.rs:1060`). `RebuildInv` says how far a rebuild that runs alone has
  got: after its reset no row has counts until it writes, after its rewind its mark is
  zero until it has fetched, and from its write on the rows with counts are exactly
  the keys it read. Every other statement keeps which rows those are (`SameMet`):
  judgements and the deck write other columns, a carry deletes no row with counts,
  and a repair starts from a row that has none.
* `MiningQueueProofs`: `QueueInvariant`, with `OffersHaveMedia`, `RowsTellOfCards`,
  `OneCardEach` and `ReportsAreTrue` for the four properties of `queue_promotes`.
  `OneCardPerLine` rests on `PairOk`: of two adds of one line either both were at
  work at once (`rival`) or one is spent: over, without a card it knows of or from
  before the server died. A promote that reads a pending row meets nobody else,
  because `RowTellsOfCard` says a pending row's other adds are at work or spent.
  `ToldMeansMedia` rests on `PromoteOk`: from the look at the row to the end of the
  card's capture, an add has its row pending (then its paths) and its line's files,
  or something disturbed it. Files go only with a discard or a clear, and both
  mark whoever has the line in hand.
* `YtJobsProofs`: `Implements` (`Spec => KeepsItsPromise`), that the jobs implement
  `Transcripts`; `PrimersWhole`, `ClipsPlayTheirLine`; all from `JobsInvariant`. Per
  job `JobsInv` says who writes it: a request that fills it in is alone with it and
  has inserted a prefix (`FillOk`); a task still owes an interval of its own segment
  and nobody inserted any of it (`TaskOk`); a pipe has heard a prefix, beyond which
  nothing is stored, and has joined its tasks before it films (`PipeOk`); nobody
  works on a job that is done (`SettledOk`); and where no write was lost the row's
  status is where the pipe is and each line heard is stored or owed (`TruthOk`).
  Across jobs, all but the latest of a video have failed (`LatestLives`), and one
  request at most is about to make the next (`OneCreates`), unless the video is
  excused. The refinement then goes by pages: each step leaves the page of every
  video that is not excused as it was, or makes one move of `Transcripts` on one of
  them (`May`), and a restart removes only pages that were coming. `PrimerInv` adds
  that a primer is stamped with the number of sentences it was counted over, which
  are its job's, so that a stamp that fits a transcript that is done is of all of it;
  `ClipsInv` that a clip is of the line its ids name, or the row is gone while the
  server is down.
* `CaptureSinkProofs`: `CaptureInvariant` says that the line in hand ends in the
  newest text box and everything else before it. On it rest three invariants of
  the ledger with what is held behind it. `ReadsInOrder` (`Spec => []InOrder`, with
  nothing asked of the constants) and `BothHalvesOnlyKnowingly` (`Spec =>
  []HalvesReplaced`) go alike: a relation that all pairs of lines are in survives
  each of the ways a request can go (`Sending`, `TakingBack`) if the line that is
  new is in it with all others. The second also needs to know of the line in hand
  which rows it may share a box with: the newest, until that is taken back
  (`HandApart`). It asks that no request be applied after the logger gave up on it.
  `EveryBoxAccountedFor` (`Spec => []NothingVanishes`) and `RetractsOnlyItsOwn`
  (`Spec => RetractsItsOwn`) ask also that capture be not paused: then the newest
  row, or the newest line held, is the one on screen (`KeptInv`), which a late
  request or a pause makes untrue (section 6).
* `ReaderFeedProofs`: `FeedInvariant`, with `FeedStaysWhole` and
  `ScreenAndTableAgree` for the two invariants of the feed's runs, for tables,
  batches and pages of any size. `NoGap` is not inductive: it speaks of what
  is on screen, and the next line on screen may be anything the stream has not sent
  yet. `InFlight` and `NoneSkipped` say of the stream that its events are those past
  `lastEvent`, up to its position, and that it passed over nothing kept;
  `NoneMissing` that there is a line, the oldest this tab ever showed, from which on
  nothing kept is missing. (The oldest on screen will not do, since that may be
  cleared.) `Places` says that what is on screen, in the toast and in an undo are
  different lines, and what is being cleared is on screen; so no flag is set past
  `lastEvent` or before the feed. `PageFits` is what a page on its way must still be
  when it comes. The theorems are about a tab that does not both scroll back and
  clear, which is what the two runs check: one that does can be answered a page with
  the very line an undo is about to put back (section 6).
* `DerivedCacheProofs`: `CacheInvariant`, of `jp-dict` and the servers beside it, with
  `OneMasterRemains` (`Spec => []OneMaster`), `SyncCompletes` (`Spec => []SyncLeaves`)
  and `MixNeverTrusted` (`Spec => []TrustsNoMix`). *The commands.* As long as none
  overlapped, one at most is at work (`Alone`), and what it has read is still so.
  `Promoting` says where it then is with the master: none is set while it chooses
  one, so what it promotes (`Apply`) is the only one; a set-role that demotes first
  (`Demote`) has every master but its own among those it has yet to demote.
  `Importing` says how far a sync has got: each zip is cached or still to come. It
  also needs that nothing was killed (`deaths = 0`), since a sync killed between an
  import's row and its frequencies leaves a row no later sync completes (`WholeRow`;
  section 6). *The cache.* The argument is over the parts of a fingerprint: a row of
  the listing, the counts of a dictionary, an id that is not there. While no part
  came back to an earlier value, a part that somebody saw is true now, or is past
  for good (`was`). So a fingerprint is `Live` (all of it is true) or `Stale` (some
  of it is past), and stays stale once it is. One that is read while the dictionaries
  change may list a row and count nothing for it, because the row was removed in
  between: no moment ever looked like that, and yet it is `Stale`, since the row is
  past. A live fingerprint that is complete is the one that would be taken now
  (`LiveIsNow`) and determines what every section's query answers
  (`SameFingerprint`); `Sound` is that a payload goes with its fingerprint if that is
  live. Builds and stores keep it in any order and of any number of processes, and
  stopping between two sections leaves a cache of which each row has it. A server
  under which nothing moved has counted what is true (`Fresh`), so rows that agree
  with its fingerprint are live, and their payloads what a build would give. The
  assumptions: counts are naturals and roles are roles; the dictionaries at the start
  have all their frequencies and no two masters; no server is a command.

The hypotheses of these theorems are constants of the runs: `feed_undo` has no
paging and `feed_scroll` no clearing, `capture_outage` no late request and no pause.

**Only model-checked.**

* Liveness (`Drains`, `Arrives`, `CapturesEnd`, `MirrorCatchesUp`) and `NeverStuck`,
  that a job can go on or waits for a tool: the prover does neither fairness nor
  `ENABLED`.
* The properties of `ReadingLog`. They compare sums and folds over the lines of any
  history, so proving them takes induction over data, which the prover cannot do with
  the library's theorems. (No `RECURSIVE` operator is declared in any module.)

## 6. Where the code and a promise part

The properties hold of the code as it is. Where it does something a sentence of
the repository rules out, the property is stated around it, and this is what was
met while modelling.

**Ledgers.**

* Refreshes that overlap both read the watermarks before either saves them, and
  count a line twice (`ingest.rs:318`; `CountedOnce` asks that they do not). The
  writer's comment says "Callers must be watermarked".
* A refresh beside a rebuild saves its `max_id` over the zero the rebuild wrote,
  the rebuild then finds nothing new, and prunes the rows (`NoLineLost` exempts
  sinks a rebuild cleared, `RebuildIsExact` asks for a rebuild that ran alone).
* Deleting the newest session hands its id to the next one, which the watermarks
  have crossed: its text is never ingested (`db/sessions.rs:156`;
  `SessionsCounted` exempts ids given out `again`).
* A rebuild takes every judged row without encounters for one the tokenizer
  renamed, and can carry a judgement onto a homograph (`routes/vocab.rs:339`);
  the migration says "marking one known must not mark the other".
* `repair_empty_readings` decides on a merge before its transaction; a twin
  pruned in between takes the judgement with it (`slipped`).

**Capture and feed.**

* A backlog of more than 500 lines is refused whole and retried for ever
  (`vn-ws-logger.py:676` against `routes/ingest.rs`'s `MAX_BATCH`).
* A retract applied late discards the joined line; one sent while paused discards
  an older line (`capture_outage` has neither).
* A failed flush of several lines arms no back-off, so every captured line and
  every beat tries again.
* A line committed between the two queries of an opening on an empty table never
  reaches that tab (`stream.rs:92`; `Arrives` speaks of lines past the position).
* The answer to an undo clears the toast of whatever was cleared meanwhile, and a
  page of history answered while an undo is on its way holds the line the undo
  then puts back (`feed_undo` has no paging).

**Mining queue and cards.**

* Two promotes of one row both read `pending` and both add
  (`db/mining_queue.rs:133-134` says it cannot happen; `OneCardPerLine` names the
  rivals). One that reads a row's paths after the other resolved it adds a card
  without media.
* Nothing sweeps a promoted row's files, as `routes/mining_queue.rs:336-337`
  expects; only a clear removes them.
* A script past its timeout is not killed, so two may run at once, and captures of
  the reader's own cards do not take the slot at all.
* The retry of addNote covers a request Anki had applied before the connection
  broke: the retry is refused as a duplicate of its own note, and the card is
  neither enriched nor mirrored until the next refresh (`card.rs:108-111`).
* The capture script answers ok with a missing picture or clip, so a card may be
  reported complete without them (`ToldMeansMedia` names when).
* A batch of captured lines posted again after a lost reply has fresh line ids and
  is queued twice; an id repeated in a model's ranking leaves a hole in it.

**Dictionaries and cache.**

* A dictionary change that is undone during a build leaves a mixed payload
  stamped with a fingerprint that is current again (`derived.rs:144-146`;
  `TrustsNoMix` exempts `returned`). A re-import with equal counts is not seen by
  the fingerprint at all.
* A sync killed between an import's entries and its frequencies leaves a list
  without ranks that no later sync fills (`dictionary/mod.rs`).
* Two commands that promote at once leave two masters, where "exactly one row
  should hold this".

**YouTube mining.**

* A primer opened over an unfinished job keeps the next start, and every later
  one, from deleting that job: the primer's rows refer to it, sqlx has foreign keys
  on, and `main` panics (`BootPanics`). db.rs says such a job "can never finish,
  so it and the sentences it had accumulated go at startup".
* Clips and stills are found by ids that SQLite hands out again after a start
  dropped their job: another video's line is played (`leftover`). ffmpeg writes to
  the final name, so a cut that was killed leaves a truncated file that is kept.
* A subtitle job that fails part-way, or whose request is dropped, stays pending,
  and submitting again finds it and returns; two overlapping submissions create
  two jobs; a tool that hangs is waited for without end (`excused`, `Outside`).

**Statistics.**

* Two lines at one instant end a stretch of focus (`focus.rs` takes a gap of zero
  for a session boundary), so `StretchIsLongest` asks for distinct instants; a
  stretch across the rollover is credited whole to the later day.
* The shelf and a work's page differ after a switch of works within a sitting
  (`PageMatchesShelf` exempts those).
* A sitting that runs on more than `PAD_SECS` past its day is cut short on that
  day's page. The page takes `PAD_SECS` to be at least a session gap and a slice
  (`FiguresAssumption`); the setting `session_gap_secs` is not checked against it.
* Look-ups after the last line of a sitting count on their day and are dropped by
  the timeline; a page loaded between a retraction's two writes sees less presence.

## 7. What is not modelled

`PROJECT.json` lists every component with its reason. In short: the tokenizer
and text handling are pure functions over large data, used by the models only
through which key a word gets; archives and look-ups in them are data without an
order of events; rendering, windows, the launcher and media tools are input and
output; works, books and settings are single statements; manga-mine's photo queue
waits on external processes.

Within the modelled parts these are left out: how a fragment of text is
recognised as a continuation; the ranking of the queue by a model, and the
contents of cards; the highlighting pipeline that reads the derived cache;
yt-mine's exports, stills, suggestions and pages, and the two queries of
`get_primer_words` and `get_primer_minutes`, which count as one; of the
statistics kanji, prose, vocabulary growth, card evidence, logged sessions' own
figures and cards on the timeline.

## 8. Plan

1. The properties of `ReadingLog`: lemmas about sums over finite sets, stated so
   that no operator is a parameter, which proofs about `Figures` could start from.
2. An abstract log with exactly-once readers for the refreshes of `LedgerIngest`,
   and an ordered feed for `ReaderFeed`, each implemented by `INSTANCE … WITH`.
3. `Harvest` (which terms a line holds) over a given tokenization, and the
   timeline's cards and logged sessions in `Figures`.
4. The ranking in `MiningQueue`, and manga-mine's photo queue.
