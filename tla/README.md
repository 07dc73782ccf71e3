# townCivic: a verification of the pipeline

townCivic collects the public records of several towns into one SQLite database and serves
them. A pipeline, run by hand or by a scheduled workflow, fetches the towns' listings,
archives every body, upserts the records, downloads the documents they point at, links records
into matters, geocodes addresses, and publishes the database; a web server and a mobile
application read it and keep readers' accounts. These TLA+ modules model the parts of that
system whose correctness depends on the order in which things happen.

## 1. The system

| component | state | operations | interacts with |
| --- | --- | --- | --- |
| ingestion (`pipeline/ingest.ts`, `fetch/http.ts`, `db/repo.ts`) | `events`, `sources` (ETag, Last-Modified, last error), `documents`, `fetches` | `ingest`, `ingestBody`, `fetchSource`, `upsertEvent`, `updateSourceFetchState` | publishers over HTTP, document store, registry |
| document store (`documents/*`) | objects under content-addressed keys, and a few fixed keys | `put`, `get`, `has` | everything that archives |
| transcript synchronization (`pipeline/transcripts.ts`) | `transcript_sync` (pending inventory, cursor, watermark), `events` | `syncWordpressTranscripts` | the WordPress API, document store |
| transcript transfer (`commands/transcript-transfer.ts`) | manifest object, `transcript_imports` | `uploadTranscripts`, `importTranscripts` | two databases through one store |
| extraction (`pipeline/extract.ts`) | `attachments`, columns of `events` | `extractDocuments`, `applyExtraction` | document servers, ingestion |
| matters (`pipeline/link.ts`) | `matters`, `matter_events` | `linkMatters` | `events`, geocoding |
| geocoding (`pipeline/geocode.ts`) | `geocodes` (cache), `places` (map) | `geocodeMatters`, `record`, `placeFromCache` | Census, matters |
| interpretation (`pipeline/interpret.ts`) | `interpretations` | `interpretDocuments` | a model or rules |
| snapshot (`commands/snapshot.ts`, the workflows) | database object and digest object; the local file and its write-ahead log; the Actions cache | `pushSnapshot`, `pullSnapshot`, and the jobs around them | document store, the host |
| clear, registry, migrations (`commands/clear.ts`, `registry/index.ts`, `db/migrate.ts`) | every table | `clearJurisdiction`, `clearOrphans`, `syncSources`, `migrate` | everything in the database |
| accounts (`accounts/*`) | `users`, `sessions`, `subscriptions`, or a hosted account service | sign up, in and out, refresh, follow | web server, API |
| web server and API (`web/server.ts`, `api/reader.ts`, `db/repo.ts`) | none of its own but the key of its forms | lists, matters, records, For me, feeds | the database, accounts, browsers, mobile client |
| mobile client (`apps/mobile/src`) | one stored token, one queue of calls; the state of each screen | `authenticated`, `signIn`, `signOut`, `useResource`, the controls | the API |

What is hard. The pipeline is single-threaded, but its state is spread over HTTP servers that
change at any time, an object store, and tables written in separate statements; a run can be
killed between any two of them and is only ever repaired by the next run. Almost every
guarantee is therefore about a later run doing the right thing with what an earlier one left:
conditional requests that must not hide records, cursors that must not run ahead of rows,
back-offs, caches and receipts. Processes are not meant to overlap ("Run one ingestion process
at a time"; the workflow has one concurrency group), and nothing in the code enforces it. In
the accounts the hard part is a session token that rotates while several calls are under way.
And whoever reads does so in several statements, and across awaits and networks, while the
archive is being changed.

What makes each component correct:

- ingestion: a stored validator vouches for everything its page lists; the strongest source
  owns each record in whatever order sources are read; every row can be traced to an archived
  body; the feed converges once publishers stop;
- transcripts: neither cursor nor watermark passes a post that is not in the feed as it
  stands; a pending inventory is only worked off; everything arrives;
- transfer: a manifest never names a missing object and loses none; an import, interrupted and
  replayed in any order, ends with the newest version of each post;
- extraction: what counts as extracted is durable, no document is forgotten, none starves the
  others, and a link that failed is left alone for a while;
- matters and geocoding: readers see one rebuild or the next; the map survives a rebuild; a
  definite answer is never asked for again and a transient failure is;
- interpretation: a record's readings are of one text, what has been read is not paid for
  again, and everything there is to read is read;
- clear and upgrade: what is done to one town leaves the others alone, and an upgrade cut
  short and begun again loses nothing;
- snapshot: what is served is what was published, and no publication takes back another;
- accounts and client: a list changes only by what its reader asked for; nobody is signed out
  without a cause, and who signed out stays so;
- pages and screens: what is shown together belongs together; paging on to the end skips
  nothing and repeats nothing.

## 2. Modules

| module | models |
| --- | --- |
| `RecordPromise` | abstract: what the feed promises about one record, with no fetching in it |
| `Feed` | one ingest process, its publishers, the archive, the source rows, crashes, `clear` |
| `FeedProps` | the properties of `Feed`, and its refinement of `RecordPromise` |
| `FeedProofs` | their proofs |
| `MCFeed` | the instance of `Feed` for TLC |
| `Transcript` | one transcript post, its row, and the upsert ordered by the publisher's clock |
| `TranscriptSync` | the paginated synchronization over an archive that moves |
| `TranscriptSyncProps`, `MCTranscriptSync` | its properties and instances |
| `TranscriptSyncProofs` | the proofs of its safety properties |
| `TranscriptTransfer` | upload and import of archived transcript pages, over `Transcript` |
| `TranscriptTransferProps`, `TranscriptTransferProofs`, `MCTranscriptTransfer` | its properties, their proofs, its instances |
| `TownMap` | `link` and `geocode`: matters, the cache of answers, the map, migration 4, `clear` |
| `TownMapProps`, `TownMapProofs`, `MCTownMap` | its properties, their proofs, its instances |
| `Extraction` | `extract`: selection with its back-off, download, the writes of `applyExtraction` |
| `Interpretation` | `interpret`, over the records of `Extraction`; kills, releases, `clear` |
| `DocumentsProps`, `DocumentsProofs`, `MCDocuments` | the properties of the two together, their proofs, their instances |
| `Towns` | a database of several towns: opened under newer builds, collected into, cleared |
| `TownsProps`, `TownsProofs`, `MCTowns` | its properties, their proofs, its instance |
| `AccountStore` | the account port over its two backends: sessions, tokens, lists |
| `ReaderLists` | abstract: what the accounts promise about a reader's list |
| `ReaderAccess` | one server between a browser and a phone, over `AccountStore` |
| `ReaderAccessProps`, `ReaderAccessProofs`, `MCReaderAccess` | its properties and its refinement of `ReaderLists`, their proofs, its instance |
| `Publication` | refresh, interpretation, deploy and a laptop around the published pair of keys |
| `PublicationProps`, `MCPublication` | its properties and instance |
| `Linking` | pure: references, matters, stages, labels and status out of what records say |
| `Archive` | the archive under its readers: writers that commit, and the queries |
| `Site` | the pages of the website, statement by statement, over `Archive` |
| `Reading` | `Site` and a screen of the phone with its requests under way |
| `ReadingProps`, `MCReading` | their properties and instance |
| `PublicSideProofs` | the proofs of what `Publication` and `Reading` promise |

The modules compose in four groups. `Extraction` and `Interpretation` share their records;
`TranscriptSync` and `TranscriptTransfer` share `Transcript`; `ReaderAccess` extends
`AccountStore`; `Reading` extends `Site`, `Archive` and `Linking`. `Towns` has every table,
reduced to its keys, because foreign keys are what a clear and a rename can get wrong.
`Publication` knows of a database only which commands wrote to it.

### Feed

`listing`, `obstructed` and `version` are the publisher: what it lists, whether it currently
answers with a page that is not the listing, and the validator of what it serves. `validator`
and `lastError` are columns of `sources` (`lastError` is the set of those whose last visit
failed); `stored` is the object store; `record` is `events`, keyed by town and item as
`eventId` is; `reported` and `cut` are history variables. `pc`, `todo`, `flags` and `visit`
are the locals of `ingest`: a run picks its sources (`StartRun`), and for each reads the
validators (`BeginVisit`), gets one of the answers of `fetchSource` (`AnswerNotModified`,
`AnswerBody`, `AnswerRefused`, `AnswerRetryable`), archives and parses the body (`StoreBody`),
upserts the items one by one (`ApplyItem`, or `WriteFails`) and updates the source row
(`CloseVisit`). `Crash` may fall between any two of them. Sources are visited in any order,
which includes the registry's. `ClearRecords` is the one transaction of `clear --scope
records`.

The store has two backends. S3 shows an object once it is whole (`StoreBody`). The local one,
the default (`InPlace`), opens the object and fills it where it lies (`BeginPut`,
`FinishPut`): from its first byte on the key exists and its bytes are not the body (`torn`). A
kill between the two leaves what was written (`cut`), and the next put of the same body finds
an object at the key and takes it for the body.

Abstracted: ETag and Last-Modified are one validator; versions never share one; timestamps,
counters, the fetch log, the descriptive columns; the precedence stored with a row is that of
its owner, because the registry does not change here.

### TranscriptSync

`post` and `stamp` are the publisher's archive and its clock, `now` is ours, at most `Skew`
apart. `saved` is `transcript_sync.state`: the watermark (`completed`) and the pending window
end and ids (`through`, `left`; the array and its cursor are the set of ids not yet fetched,
since ids are listed and fetched in ascending order). `job` holds the locals. A run either
resumes (`Resume`) or lists the window page by page (`Discover`, `ListPage`, `Freeze`), then
reads posts by id and commits each batch with the cursor (`FetchBatch`, `Commit`) until the
queue is empty (`Finish`) or the run has done its share (`Pause`). Between any two of these
the publisher saves or removes posts. An error anywhere ends the run (`Stop` within the action
that finds it, `Fail` for the rest).

### TranscriptTransfer

A page is what its bytes say, since its name is their hash: a function from posts to versions.
`fetched` is the laptop's fetch log (successful content fetches only), `objects` and
`manifest` the object store, `row` and `receipts` (`transcript_imports`) the site. `refs`,
`toPut` and `uploaded` are the locals of `uploadTranscripts`, `toImport` and `dry` those of
`importTranscripts`. The two run on different machines and overlap freely; each can be killed
at any step. A request that fails is not an error to `readManifest`: the store's `get` answers
null, and the manifest looks empty (`ReadManifest`). `Poll` is a live synchronization writing
to the same rows; `Forget` and `Clear` are `clear` on the laptop and on the site. Pages are
put and imported in any order, which includes that of the fetches. The publisher's stamps
count seconds, so a save may get the stamp of the one before it (`Save`); `said` is a history
variable, every version a post was ever served in.

### TownMap

`mentions` is what ingestion and extraction left in `events`, reduced to the matters each
record touches; `links` is `matters` and `matter_events` (a matter exists while a record
mentions it); `place` is `places` and `cache` is `geocodes`, one row per address and provider.
`resolver` is `GEOCODER_CACHE_VERSION`, which a `Release` raises; `answered` is a history
variable. `Link` is the one transaction of `linkMatters`, with `placeFromCache`. A geocode run
picks the busiest of the addresses it may ask about (`StartGeocode`), gets for each a definite
answer (`Definite`) or a failure it does not record (`Transient`), and then writes the cache
and the map in two statements (`WriteCache`, `WritePlace`) between which it can be killed.
`Override` is an operator's row with provider `manual`, which nothing in the code writes and
everything in it honours. `Migrate` is version 4 on a database from before the cache.

Abstracted: which point is not told apart beyond a set of them; every miss is `Nowhere`, so
the versions and dates that rank misses among themselves do not matter; addresses are asked
about in any order; one town.

### Extraction and Interpretation

`row` is `events`, reduced to what its listing said (link and summary), the text and the exact
start taken from its document, and whether `extracted_at` is set. `site` is what the town
answers for each file: a document, a 404, or something unreadable. `store` is the object
store, with the objects that hold part of their content in `torn`; `filed` the `attachments`
that succeeded, keyed by content, and `failed` those that failed, keyed as in the code by
record and preferred link and holding the link as listed at the first failure, with the cycles
left of `retry_after`. Three history variables: `resting`, the back-off the last failure of a
file really set off, by the link it was listed under; `first`, the link under which a file
first failed; `cut`, the objects whose write was cut short. A run is the timer's (`Scheduled`,
a cycle after the last) or an operator's within the cycle, forced or not (`Started`). It
selects the newest pending records up to the limit (`StartExtract`), and for each downloads
the preferred link (`Download`, or `Unreadable`), then writes bytes, text, attachment and
record one after the other (`Put`, `PutText`, `Attach`, `Update`); any of these may fail
(`Fault`), which ends in the same failure row (`Fail`). In a store that writes in place both
puts have a begin and an end (`BeginPut`, `FinishPut`, `BeginPutText`, `FinishPutText`), and a
kill or a failure in between leaves part of the object, which the retry finds there.

`readings` is `interpretations` for one provider; a text stands for its hash, `version` is the
prompt's or the rules' version, which a `Release` raises; `whole` is a history variable. Only
an operator starts a run. It selects the newest records with text, as many as its limit
(`StartInterpret`), and only then passes over those whose reading is current (`Skip`), asks
the interpreter about the others (`Ask`), deletes the old reading (`Replace`) and inserts the
new one row by row (`Insert`). `InterpretFails` is the catch; `Crash` kills either command
between any two steps. `Clear` is `clear --scope derived` or `records`.

Abstracted: subjects, tags, body, the agenda's summary and the statistics of pages. Time is
counted in scheduled runs: a failure waits one of them (six hours, against twelve between
runs), a missing file `NotFoundWait`. Commands run one at a time, as the workflow's
concurrency group and the documentation ask ("they must never race each other"), and the town
changes its site and its listings in between and, the site, during them; a listing may name a
file by either of its views. A record whose reading was cut short by a kill counts as read:
any row of it makes it current, and no property denies it.

### Towns

`version` and `shape` are the schema a file is at; `follows` is `subscriptions`, reduced to
the towns in which somebody follows a board; `towns`, `sources`, `records`, `owner`,
`fetches`, `imports` are the tables with foreign keys, a row being what it points to;
`linked`, `cached` and `held` the matters, the answers and the conditional headers. `registry`
is what the installed build knows (`Install`). Opening goes through `Open`, `Pass`,
`AddSubscriptionJurisdiction`, `RenameSources` and `SetVersion`, each a commit of its own,
with `Quit` between any two. `SyncSources`, `Fetch`, `Import` and `Collect` fill the tables,
`Clear` is the one transaction of `clearJurisdiction` in its three scopes, and `ClearOrphans`
and `SweepOrphan` the loop over the towns that are no longer registered.

A document stays with the source that met its bytes first, so one town's log can point at
another's document: clearing the latter then fails on the foreign key and is rolled back
(`Deletable`), and a sweep of orphans ends there. `renameSources` does not move
`transcript_imports`, which is sound only because neither id of the renamed source ever had
any (the assumption is in `Init` and `Import`).

### AccountStore and ReaderAccess

A token is a session and the generation of its pair; with the local backend the generation
never changes. `live`, `gen`, `stale` and `window` say what the account service knows: which
sessions are not revoked, their newest pair, whether its access token is near its end, and
whether the pair before is still honoured. `req` holds the requests under way, each in the
steps between its awaits: `Refresh` (the exchange of an ageing pair), `Identify` (the reader's
row, or the session's), then `Read`, `Edit`, `Leave` or, for a sign-in, `Enter`. `jar` and
`tab` are the browser's cookie and a form left open in it; `stored`, `shown`, `queue`,
`flying` and `calls` the phone: its storage, the reader it greets, the calls that wait, the
one that does not, and what each carries. `Restart` is a deploy, after which a form's field no
longer matches; `PhoneReopen` an application force-closed and opened again. `excused` is a
history variable: the sessions of which something was lost, late, failed or signed out.

`csrf` is modelled by what it is made of: with the local backend it is of the session, whose
row is read again when the form's body has arrived; with the hosted one of the reader and of
the process. A local session may expire between the two reads (`Age`): its field no longer
verifies, and the page that refuses the form deletes the row (`Reread`). A hosted session
whose pair was renewed but whose reader's row could not be read loses the new pair; that is a
fault, and what follows from it is excused. A phone whose storage fails to keep a token is a
call that was answered and given up (`PhoneTimeout`). An outage of the account backend is
answered 401 like a revoked session, and the phone clears its token: a failed call, of which
`ShownReaderIsStored` says nothing.

### Publication

A database is the set of marks of the commands that wrote to it. `db` and `sum` are the two
keys, `cache` the Actions cache, `disk` each machine's file with its write-ahead log, `body`
the bytes a machine has in hand, `image` what the host serves. A command that ends folds the
log into the file; one that dies leaves it beside the file (`Ended`, `Died`), and only the
file travels. `Work`, `Save`, `Status` and `Push` are the steps of `refresh.yml` with their
conditions (`if: always()`, `continue-on-error`); `PullBody`, `Check`, `Install` and `Sweep`
those of `pullSnapshot`; `Push`, `Compare`, `Put` and `Sign` those of `pushSnapshot`. The
laptop may do any of it at any moment: it is outside the concurrency group. The groups, the
starts of the jobs and the order of their steps are translated from `refresh.yml`,
`interpret.yml` and `deploy.yml`; the cache of Actions is external, as the steps use it.

### Linking, Archive, Site and Reading

`archive` is `events`: which of its possible versions each record is at; `links` is
`matter_events` and `matters` the rows as `link` wrote them. `Publish`, `Relink`, `Clear` and
`Tick` are commits of the writers and the clock, and may fall between any two statements of a
page or of a request. `Linking` translates what a matter is (`matters/key.ts`) and where it
stands (`matters/stages.ts`): the scope of a sentence, the order of the rules, the default of
a document type, the roll-up. The subjects of a record come in an order, and of two spellings
of one matter the last gives the label. `Site` makes one page at a time: a list with its
upcoming part, rows and count; the matters; a matter, whose row is read before the reader is
awaited and whose timeline after (a `link` in between makes the two disagree, and `PagesAgree`
speaks only of pages without a commit between their reads); a record with its matters; For me
with its reasons; a feed. `Reading` adds a screen of the phone: `query` is the state of its
controls, `result` and `flying` those of `useResource`, whose answers come late, in any order,
or fail. `trail`, `walk`, `calm`, `fresh` and `revised` are history variables: what was seen
paging on, and whether anything was committed meanwhile.

Abstracted: texts are sets of words and of cues, dates and titles are numbers, and a subject
comes with the name it normalizes to. What SQL leaves open, the order of rows equal under
`ORDER BY`, is a choice at each statement; the paging properties leave such rows out, and the
code has no tie-break (`db/repo.ts:549`).

## 3. Model checking

| run | question | instance |
| --- | --- | --- |
| `feed` | are the validators, the ownership, the archive and the promise ever wrong, and does the feed converge? | two sources of precedence 10 and 20 over one item of two contents, one server that sends no validator, two versions of each page, one retry, one fault, one clear, a store that writes in place |
| `transcript_sync` | does the cursor or the watermark ever pass a post, and does every post arrive? | two posts, pages and batches of one, one batch to a run, clock to 3, two edits, one fault, one clear |
| `transcript_transfer` | can an import meet a missing page, a false receipt, or a row that goes back, and does every page on record arrive? | one post of two contents, two edits within a second or apart, one failure, one clear on either side |
| `town_map` | does a matter ever lose its pin, is the geocoder ever asked twice, and does the map fill up? | one record, two addresses, one point, one address to a run, fresh and legacy databases, a release, one kill, one edit or override, one clear of any scope |
| `documents` | is what counts as extracted durable, does a failed link rest, are readings of one text and paid for once, and does everything get extracted and read? | two records, both minutes; two files, the later record's listed by either view, the earlier one with a summary; a text document and a scan; a store that writes in place; one document to a run of either command; two changes, kills, failures, releases, clears or operators' runs of extraction |
| `towns` | does an upgrade or a clear lose anything, or leave a row that points nowhere? | two towns, three sources of which one was renamed, two records, one shared document, one kill, two clears, one build that drops or takes back towns |
| `reader_access` | can a list change otherwise than asked, a session be lost or come back without a cause, a call wait for ever? | two readers, two sessions, one follow, both backends, two requests of the browser at once and two of the phone; up to four requests and a fault, three and a restart, or one and two on either side |
| `publication` | can the host serve anything but a released database, or a publication take back another's records? | a refresh of two commands, two refreshes or interpretations, one fault, with and without something published |
| `reading` | do lists, counts, pages and timelines belong together, and does paging skip or repeat? | two towns, three records of five versions in four arrangements, pages of one, one commit or tick, two requests of the screen, or three steps through the lists, or three other pages |
| `feed_dry_run` | is a dry run harmless? No. | as `feed`, with `--dry-run` |
| `publication_unchanged` | does an unchanged push mean that the store holds these bytes? No. | as `publication` |
| `reading_reasons` | does everything on For me say why? No. | as `reading` |

Why the bounds are enough. In `Feed` items are independent: the actions touch one row at a
time, so one item with two contents shows every case of the upsert; two sources show a
take-over, a confirmation and an amendment, and two versions a stale validator and a current
one. One fault, with one retry, allows a retry that succeeds, a visit that gives up, a failed
write or a kill, also one inside a put. The store writes in place, which has all the steps of
the other backend and the torn object besides; the proofs cover both. In `TranscriptSync` two
posts and pages of one are the smallest archive in which an edit moves an unread post onto a
page already read; two edits move one and then compensate the total; one batch to a run makes
every inventory span two runs. Clock, overlap, lag and skew are one step each, so that every
order of two stamps and a window edge occurs.

In `TranscriptTransfer` rows are independent, so one post shows every order of arrival; two
edits give it pages in an older and a newer version, or in two of one second, and a page may
leave it out. In `TownMap` addresses only meet in the choice of the busiest, for which two and
a limit of one are enough; one record that mentions either, both or neither lets a matter
disappear and come back, and one kill falls between the two writes of an answer. In
`Extraction` records meet in the limit, in the files they share and in attachments they take
from each other, for which two and a limit of one are enough; two upsets allow a failure and
then a moved link, a revised document and then a kill, or a failure under one view of a file
and a listing under the other. A 404 rests for two cycles, so that it outlasts a scheduled
run. Both records are minutes and the reading limit is one: the newest with text is read, and
the older only while it is the newest.

In `Towns` two towns meet in one document; one kill falls between any two migrations, after
which they are replayed; two clears of any scope and one build cover a town dropped, cleared
and collected again. In `ReaderAccess` two sessions are a session and the one after a sign-in,
or two readers on one device; a pair rotates once (`MaxGen`), which makes a spent token and a
fresh one; the quotas trade requests for faults, because two overlapping requests and one
fault are what it takes to lose a token, and one restart what it takes to make a form's field
stale. In `Publication` one fault already leaves a log, half a body or a lost cache, and two
runs follow one another. In `Reading` one record and one page less would leave nothing to
skip; one commit between any two statements is the smallest disturbance, and what it disturbs
is no longer claimed. Screen, lists and pages are explored apart (`Quotas`), since they share
nothing but the archive.

`MaxVersion`, `MaxFaults`, `MaxClears`, `MaxEdits`, `MaxTime` and `MaxUpsets` (all
upsets of the documents together), `MaxBuilds`, `MaxGen`, `MaxRuns`, `MaxNow`, `MaxChanges`,
`MaxFlying`, `Quotas` and `Starts` are bounds of the models; `MaxRetries`, `ListSize`,
`MaxPages`, `BatchSize`, `MaxBatches`, `MaxDocuments`, `Skew`, `Lag`, `Overlap`, `Limit`,
`ReadingLimit`, `NotFoundWait`, `PageSize`, `UpcomingSize`, `MattersSize`, `FeedSize` and
`YearLength` are the program's parameters scaled down.

Deadlock is checked wherever the system goes on: a run can always be started again.
`reader_access` and `reading` end when their quotas of requests are spent.

Fairness. A process that has started keeps taking steps (weak fairness on the work of the
process: it waits for nothing but a request, and a request has a timeout), the clock of the
transcript model advances, and the scheduled run comes round again whatever else was started
in between (strong fairness on starting a plain, full run: the workflow starts it twice a day;
the transfer's upload and import are repeated likewise, by whoever fetches and by the
workflow; the same holds of its `link`, of its plain `extract` and `geocode`, and of a
definite answer on each address that keeps being asked about). Nothing starts `interpret` but
an operator (`interpret.yml` has no schedule), so no fairness is assumed of it:
`EverythingRead` says what happens if an operator starts it again and again, and only of the
minutes within its limit. The definite answer is a real assumption: `geocode --limit` asks
about the busiest addresses first and does not record an outage, so an address whose lookup
always fails would starve the less busy ones for ever. `EverythingExtracted` likewise leaves
out links that are broken otherwise than by a 404, since their six hours are over by the next
scheduled run and under a limit the newest of them keep the front of the queue, and missing
files listed by another view than they first failed under, which no back-off covers (see the
findings). In `ReaderAccess` the server goes on with a request it has, the phone's promise
queue with the next call, and its timer fires (weak fairness on each; an answer lost in a
restart is the timer's). Nothing is assumed of publishers, of operators, or of failures other
than that the models allow finitely many of them.

### Findings

Three disagreements between the code and what it says of itself have a run:

- A dry run of `ingest` saves the validator of a body whose events it did not write
  (`pipeline/ingest.ts:157`); the next real run is answered 304 and takes nothing in. Run
  `feed_dry_run`.
- A push that failed between its two objects leaves a new body under an old digest; pushing
  the old database again compares digests only (`commands/snapshot.ts:57`), uploads nothing
  and reports `unchanged`, "True when the store already held these exact bytes". Until
  something else is published every pull is refused. Run `publication_unchanged`.
- For me shows administrative records without a reason when the reader follows the
  administrative channel of one town and something else in another (`db/repo.ts:731`). Run
  `reading_reasons`.

Others are known from the models, described here and carried by no run:

- The local document store writes objects in place (`documents/local.ts:31-34`), so a kill can
  leave a truncated object under a key that no later put will rewrite; the retried visit or
  extraction then writes its rows over it. `RecordsAreArchived` and `ExtractedIsKept` say that
  everything is whole but for this: dropping the exception, TLC finds the kill and the retry.
- Two versions of a post saved within one second have one `modified_gmt`, and the upsert
  refuses only what is older (`pipeline/transcript-upsert.ts:13`): an import that comes late
  can put back the earlier of them, where `docs/transcripts.md:189` says "older versions
  cannot revert newer text". `NothingReverts` and `ReceiptsHonest` state what is left.
- `interpret --limit` counts what is already read (`pipeline/interpret.ts:107-115`), so older
  minutes beyond it are read by no number of runs, only with a larger limit or `--event`.
  `EverythingRead` speaks of the minutes within the limit.
- The S3 store's `get` answers null to a request that fails (`documents/s3.ts:174`), where the
  port promises null only for a missing object (`documents/store.ts:70`). An upload that
  cannot read the manifest therefore starts from an empty one and replaces the cumulative
  history by the pages of its own laptop. For the same reason a pull that cannot read the
  digest installs what it got unverified (`unsure` in `Publication`).
- Migration 4 seeds the cache without a `cache_version` (`db/migrate.ts:107`), so misses from
  before the cache get the default of a fresh database, the current one, and not the retry the
  comment at `db/migrate.ts:52` promises them.
- A failure row is keyed by the preferred link and holds the link as listed, which a second
  failure does not update (`pipeline/extract.ts:266`). When a town lists first one view of a
  file and then the other, failures under the second are filed under the first, and the
  selection, which compares links, never sees them: every run opens the broken link, where
  `README.md:330-332` promises a back-off so that a broken URL does not consume "the front of
  every limited run". `BackoffHolds` holds but for links other than the one their file first
  failed under, and the instance has such links.
- A revised listing writes its date over the exact start a notice gave (`db/repo.ts:400`) and
  keeps `extracted_at`, so the notice is not opened again; `README.md:373` says the exact
  start replaces the guess.
- Two sources of equal precedence keep whichever reported a record first (`db/repo.ts:387`):
  the outcome depends on their order.
- A refresh works on the database its cache kept, so its publication replaces the readings
  Interpret published in between; `RecordsStay` speaks of the other commands. The cache is
  saved before Status folds a dead command's log, so what that command had committed is
  published but not cached: for the last command, the only one whose death does not stop
  publication, the next refresh takes it back. A laptop is outside the concurrency group and
  can take back anything.
- A pull killed between the rename and the removal of the old log leaves the new file beside
  it (`commands/snapshot.ts:107`).
- `clear --scope town` fails and is rolled back while another town's log or import names one
  of the town's documents, and `clearOrphans` then stops before the remaining towns.
- The general feed lists at most forty records to come (`web/server.ts:311`) and has no page
  for the rest; after exactly a full page of older ones it offers a blank page
  (`web/views.ts:393`). `BrowseIsComplete` says so.
- The feed of a matter calls itself every record linked to it, leaves administrative records
  out and stops at fifty; when `link` prunes the matter its feed becomes the whole town's
  (`Scope` in `Site`). A follow of a pruned matter can be removed on `/my` only.
- `backfillDocuments --limit` takes the same first rows each time
  (`commands/documents.ts:93`).

## 4. Proofs

`FeedProofs` proves, for any towns, sources, precedences, items, contents and bounds, under
the assumption `FeedConstants` (types of the constants, and that the markers for "no record"
and "unparseable" are not records or listings):

- `TypeCorrect`: the type invariant. It needs `Held`, that an item being applied is listed by
  the body in hand.
- `StrongestOwner`: the owner of a row reported it, and nobody who reported it outranks the
  owner. Inductive together with the types.
- `Provenance` (`RecordsAreArchived`): a row's content was read from a body that was put before
  it and is in the archive whole or, in a store that writes in place, as a kill left it. Needs
  that the body being applied was stored before, and that an object is torn only while it is
  being written or because a kill cut its write; `Held` carries both through the visit.
- `Implements`: every step is a step of `RecordPromise` or leaves the records alone.
- `FailureForgets`: after a failed visit there is no validator.
- `FaithfulValidators`: the deepest. Its invariant adds `Fresh` (a validator in hand or stored
  is never newer than the version the server is at, and a body in hand with the current
  validator is the current listing) and `AppliedSettled` (items already taken from a current
  body are settled in the feed). Publishers only move a version forward, rows only move by
  precedence, and a clear forgets rows and validators together, so a settled item stays
  settled as long as its version does.

`TranscriptSyncProofs` proves, under `SyncConstants` (types of the constants, a skew no larger
than the lag, and markers that are not versions, rows or contents), for any archive, page,
batch, lag, overlap and bounds:

- `SyncTypes`, `WatermarkHonest` (`NothingSkipped`), `SavedCursorHonest` (`CursorHonest`) and
  `InventoryFrozen` (`QueueIsFrozen`). The inductive invariant adds four parts. `Clocks`:
  every window, open, saved or finished, ends at least a lag behind our clock, so an edit
  stamped now leaves it for good, and no row is newer than its post. `Matching`: the process
  works on what is saved. `Listed`: since the first page there has been one set of posts, as
  many as the total says, that holds both the ids read and the window; this is why comparing
  totals is enough to freeze an inventory although edits move posts between pages. `Fetched`:
  a post of the batch still in the window is the one that was fetched. Dropping the comparison
  of totals, or a skew beyond the lag, breaks the argument; TLC shows the former (mutant
  `ListPageUnchecked`).

`TranscriptTransferProofs` proves, under `TransferConstants`, for any posts, edits, manifests
and bounds:

- `TransferTypes`, `ManifestNamesObjects` (`ManifestComplete`), `HonestReceipts`
  (`ReceiptsHonest`) and `RowsOnlyAdvance` (`NothingReverts`). `Stored`: what an upload refers
  to it has put. `PostsTold`, `PagesTold` and `RowsTold`: posts, pages and rows only say what
  the publisher once served. With these, that the upsert refuses what is stamped earlier is
  enough (`UpsertAdvances`, `RowsMove`): whatever the order of arrival, no row goes to an
  earlier stamp. Within one stamp nothing orders the versions, and nothing is claimed.

`TownMapProofs` proves, under `MapConstants`, for any records, addresses, points and limit:

- `MapTypes`, `PinsKept` (`PinsSurvive`) and `AskedOncePerResolver` (`AskedOnce`). `Backed`: a
  pin on the map has a point in the cache behind it, because a miss has a row of its own and
  never overwrites a point; so the best answer is again a point whenever the map is rebuilt.
  `Dated`: the last answer about an address is still in the cache, dated no earlier than it
  was given. `Wanting`: nobody else writes the cache during a run, so what is still to be
  asked is as unanswered as when the run began.

`DocumentsProofs` proves, under `ExtractionConstants` and `InterpretationConstants`, for any
records, files, texts, listings, documents, limits, waits and kinds:

- `DocumentTypes` (`TypeOK`), `ExtractedRecordsKept` (`ExtractedIsKept`) and
  `ReadingsAreOneView` (`OneView`). `Queued`: a run is over records that exist and, if it
  reads, have text, because nothing takes records away during one. `InHand`: at each of the
  four writes, the ones before it have happened, and what the store holds part of is being
  written or was cut short in a store that writes in place; a put that completes, or finds its
  object there, leaves it `Durable` (`CloseIs`, `HaveIs`). `Replacing`: while rows are
  inserted, whatever is there of the record is of the text at hand.
- `BackoffKept` (`BackoffHolds`), for whatever a town lists. `Waits`: the failure row of a
  file names the link it first failed under, and waits at least as long as that link has to
  rest. `Rested`: what is left in an unattended run's queue under such a link has rested.
- `NothingPaidTwice` (`PaidOnce`). `WholeThere`: a reading kept in full is still there until
  it is replaced or cleared, so the test of `isCurrent` finds it. `OnlyAsking`: nothing else
  leads to a replacement.

`TownsProofs` proves, under `TownsConstants`, for any towns, sources, records, documents and
bounds:

- `TypeCorrect`, `OpenWhole` (`OpenIsWhole`), `UpgradeKeeps` (`UpgradeKeepsAll`) and
  `TownsStayApart` (`TownsApart`). `Referring`: rows point to rows that are there, and neither
  id of the renamed source has imports. `Upgraded`: in which order the parts of the schema
  move. That a clear which succeeds leaves other towns alone is then the foreign keys: what it
  deletes, nobody else's row names.

`ReaderAccessProofs` proves, under `AccessConstants`, for any readers, sessions, follows,
requests and quotas:

- `TypeCorrect`, and `SignedOutForGood` (`SignedOutStays`): calls of the phone are serialized,
  so no answer of an earlier call is under way when a sign-out forgets the token; with the
  local backend no answer but a sign-in's carries a cookie.
- `ListsKept` (`ListPromise`): with `asked` mapped to the edits of the requests under way that
  may still be carried out, every step of the detailed specification is a step of
  `ReaderLists` or leaves its variables alone. `Sound`: an identity resolved is that of the
  session presented, and a form's field that verifies was made for the reader the form greets.
  `Devices`: what browser and phone hold was given to them. `Serial`: the phone has one call
  under way.
- `NobodyTurnedAway` (`TurnedAwayWithCause`) and `NewestHeld` (`PhoneHoldsNewest`). Their
  invariant, `CauseInv`, says of every session without a cause against it how its tokens and
  its holders stand. `Paired`: the session is live, and its newest token does not go stale
  while the reuse window is open. `Apart`: browser and phone never hold the same session.
  `Welcome`: the token a request presents is one the accounts still take, and once it has been
  resolved, the newest. `Handing`: what it brings back is that token or none. A local session
  that expires is excused, also when it is read again under a form (`RereadExcused`). `Alone`:
  a session just entered is in nobody else's hands. `Held`: a device has the newest token, or
  the one before it while an answer with the newest is on its way. A lost answer, a sign-out
  or a closed window is a cause (`excused`) and takes the session out of the statement.
- `GreetedIsStored` (`ShownReaderIsStored`), from `GreetInv`. `Carries`: a call under way
  presents a token of the session that is stored. `Starting`: the question the app opens with
  is first in the queue and finds nobody greeted. `Greeted`: whoever is greeted holds the
  stored token, or a question about the session is still to be answered.

`PublicSideProofs` proves, under `PublicationConstants`, for any list of commands, runs and
faults:

- `PublicationTypes`, `ServedWhole` (`ServedIsWhole`), `RecordsKept` (`RecordsStay`). `Clean`:
  outside the moment between rename and sweep, a log beside a file is its own, and nothing is
  pushed or shipped that has one. `Trusted`: what passed the comparison with the digest is
  what somebody released, since a digest is only written for a body that was pushed.
  `Carried`: all that is published is in the cache or was lost with it; from the start of a
  refresh to its save the file only grows over the cache, the interpreter, once it has pulled,
  holds all that is published, because the refresher waits for it (`Roles`) and a laptop adds
  nothing new. Two workflows that overlap break this (mutant `FreeRegardless`).

and, under `LinkingConstants`, `ArchiveConstants`, `SiteConstants` and `ReadingConstants`, for
any finite archive of any towns, any page sizes, and any order of commits, clocks, statements
and answers:

- `ReadingTypes`; of the screen `FoundIsShown` (`ShownIsFound`), `LoadingAsks`
  (`LoadingIsAsking`) and `WalkComplete` (`WalkIsComplete`); of the pages `BrowseComplete`
  (`BrowseIsComplete`), `AgreePages` (`PagesAgree`) and `UnionForMe` (`ForMeIsUnion`). All
  follow from one invariant, `ReadersInv`, in three parts:
  - `TypeInv` is about the archive. `Consistent`: a link is of a record that is there, to a
    matter of the record's own town that is there. `Counted` and `Rolled`: the row of a matter
    counts its links and has their status, the latter unless one of its records was published
    anew since. `Closed`: a run without a screen asks nothing. The rebuild, the upsert and the
    clear each preserve this; a rebuild writes what its references say (`WrittenIs`,
    `RebuiltIs`), and these refer to records of one town (`ReferencesRefer`).
  - `ScreenInv` is about the phone. `Awaited`: at most one request is live, it is that of the
    path on the screen, and a screen that loads has one. `Told`: an answer or a result with no
    commit since says what the archive says. `Walked`: what was walked is the stretch of the
    one order up to the page on the screen.
  - `SiteInv` is about the website. `Trailed`: what a list page has read, and all that was
    passed on the way to it, are stretches of the same orders, the half to come before the
    pages of the past. `Paged`: the statements of a page with no commit between them say what
    one read would have said.
- The lemmas under it are about orders and pages: an order of a finite set lists every member
  once (`RankedIsAll`), and is the only one when no two members are equal in it
  (`OneRanking`), which is why walks and trails assume that and why equal dates are a hazard;
  consecutive pages join to a longer stretch and the last one ends it (`PagesJoin`,
  `PagesEnd`); the first so many of an order are those with the fewest before them
  (`FrontCounts`).

The proof found three things the runs had not shown: two cases of `Rows` overlapped, which TLC
resolves by taking the first; the type of a list page admitted the query of a page of
timelines; and the assumption that all versions of a record are of one town, which ids scoped
to the jurisdiction guarantee (`db/repo.ts`), had not been stated although `AgreePages` needs
it.

Only model-checked: the seven liveness properties, whose fairness and ENABLED are outside the
prover's reach. The three properties that runs refute are false, as reported.

## 5. Not modelled

The HTML and RSS selectors, PDF text extraction, classification, the registry's data,
geometry, request signing, markup and styles, and the read-only reports: pure functions over
text or input and output, with no state whose order matters. The copy of the archive moves
immutable objects under their own names. Readers' locations, feed tokens and passwords are
single writes nothing else depends on. The map and agenda pages are one query each. Left out
of what is modelled, and so outside what the runs show: two commands of the pipeline at once,
servers that stop sending validators, archives beyond `MaxPages`, and precedences that change
between builds. The reasons are listed per component in `PROJECT.json`, with the hazards no
property covers yet.
