# Verification of asset-service

TLA+ modules for the parts of this service that keep state and meet each other
in time, TLC configurations that check them on small instances, and proofs that
TLAPS checks for instances of every size.

    tlc -config DerivingLocal.cfg MCDeriving.tla   # one run
    tlapm DerivingProofs.tla                    # the proofs about two modules

`PROJECT.json` lists the runs, the properties each checks, a seeded bug per
property that the run must find, the source lines behind every definition, the
hazards of the code and the theorems.

## The system

One Go process (`cmd/asset-service serve`) owns a SQLite catalog and writes to
an object store. Everything else reaches it over HTTP or, for the operator's
commands, opens the same SQLite file on the host.

| Part | State it keeps | Operations | What makes it correct |
|---|---|---|---|
| jobs table (`internal/catalog/renditions.go`, `derivations.go`) | a row per asset with work outstanding; a log of attempts | Enqueue, ClaimJob, CompleteJob, FailJob, ReleaseClaimedJobs, ReleaseStaleJobs | a row is handed out a bounded number of times; given up is final; no row goes without a success in the log |
| local worker (`internal/renditions/worker.go`) | what it is building | release at start, drain, build, report, back off | every claim is in its hands or released by a restart, and every job settles, but where the catalog refuses a statement |
| jobs routes, remote workers (`internal/api/jobs.go`, `cmd/asset-service/work.go`) | none between calls | claim (with time-out), store a form, finish | only a stale claim is offered again; late reports bring nothing back that was given up |
| deriving clients (`upload --derive`) | what they are building | store forms and finish, without a claim | what they report as done is done |
| requeue (`cmd/asset-service/requeue.go`) | a list taken at its start | list, delete renditions, enqueue | what it threw away is made again |
| asset storage (`internal/assets`, `internal/objstore`) | assets and renditions rows; objects and their access | Put, PutRendition, Ladder, URL | a row has its object; access agrees with visibility; a key names one content |
| withhold (`cmd/asset-service/withhold.go`) | none | check that smaller forms exist, close the original | an original is closed only while something public stands in for it |
| uploads in parts (`internal/api/uploads.go`) | files and records of open uploads | open, append, finish, drop, sweep | at most four each; no part lost or doubled; nothing swept in use |
| accounts, keys, sign-in (`internal/catalog/accounts.go`, `internal/api`, `keys` and `accounts` commands) | accounts with tiers; keys | sign in, issue, mint, revoke, set tier | a blocked account keeps no usable key; nobody revokes or hands out what they do not administer |
| tiers, quotas and permissions (`internal/policy`, `internal/auth`) | none; usage is counted from the assets | Can, CanGrant, Evaluate | no chain of keys widens access; limits are passed by no more than what was let in at once |
| throttle (`internal/httpx/throttle.go`) | a bucket per caller | Allow, sweep | a caller is never let through more often than the rate |
| derived forms (`internal/derive`, `imaging`, `video`, `model`) | none | Ladder, strip, orient | every ladder fits its source; a published copy keeps the picture and loses the notes |
| release agent (`deploy/release-agent.sh`) | the pin in `.env`, the files STATE and FAILED | pull, pin, start, health check, roll back | the service returns to the release that last came up; a failed one is not tried on every tick |

They interact through the catalog alone: `Put` queues, the two kinds of worker
claim, the manifest reads renditions and then the job row, the commands work on
the same tables from another process. SQLite is opened with one connection per
process, so a statement is atomic and nothing larger is: there is not one
multi-statement transaction in the paths below. What is hard is therefore what
happens between two statements: another caller, a crash, a time-out, an error.

## The modules

| Module | Models |
|---|---|
| `BoundedRetry` | the promise: a request for work is tried at most `Budget` times, then done or abandoned for good |
| `JobQueue` | the jobs table: one action per exported statement, any caller at any time |
| `Deriving` | the callers on top of `JobQueue`: uploads, local worker, remote workers, deriving clients, requeue; and the lines of the log |
| `DerivingProofs` | the theorems about `JobQueue`, then those about `Deriving`, which use them |
| `Uploads` | uploads in parts: the map under its mutex, the files in the spool folder, the requests at work |
| `UploadsProofs` | the theorems about `Uploads` |
| `AssetStore` | the bucket beside the catalog: `Put`, `PutRendition`, `withhold`, `requeue --rebuild`, and a reader's manifest |
| `AssetStoreProofs` | the theorems about `AssetStore` |
| `Policy` | scopes and what they grant; the limits of a tier and the decision about an upload: pure functions |
| `Accounts` | accounts, tiers and keys: sign-in, mint, revoke and block, as the statements they are |
| `AccountsProofs` | the theorems about `Accounts` |
| `Admission` | uploads against the limits of their account, composed with `Accounts` |
| `AdmissionProofs` | the theorems about `Admission` |
| `Throttle` | the token buckets of sign-in and their sweep |
| `ThrottleProofs` | the theorems about `Throttle` |
| `Pictures` | stripping a JPEG or PNG, and its way up: pure functions |
| `Ladders` | which derived forms an asset gets and of which size: pure functions |
| `FormsProofs` | the theorems about `Pictures` and `Ladders`, as `MCForms` puts inputs to them |
| `ReleaseAgent` | the release script, one action per command that changes something |
| `ReleaseAgentProofs` | the theorems about `ReleaseAgent` |
| `MCJobQueue`, `MCDeriving`, `MCAssetStore`, `MCAccounts`, `MCForms` | constants, mixes and inputs for TLC |

`BoundedRetry` is refined by `JobQueue`, which `Deriving` extends: what its
callers do to the table they do by its statements. `Uploads` and
`AssetStore` meet in one call: what `finish` has assembled goes to `Put`.
`Admission` extends `Accounts`, which extends `Policy`; `MCAccounts` puts
`Throttle` beside them, since what it lets through is the start of a sign-in.

### JobQueue

`jobs[a]` is the row of asset `a`: `state` (with `"none"` for no row),
`attempts`, `wait` = `next_attempt_at` − now, `quiet` = now − `updated_at`, and
`why`, the three things `last_error` can be (empty, a report's text,
`deathReason`). Times are relative so that no clock has to be bounded: `Tick`
ages the rows, and only the ages the code compares are told apart. `claims[a]`
is a history variable, how often the current row was handed out.

`Enqueue`, `ClaimJob`, `ReleaseClaimedJobs` and `ReleaseStaleJobs` are the
functions of the same name. `CompleteJob` is the DELETE of its function and
`FailJob` the UPDATE; the line both write to `derivations` before that is
written by statements of its own and is in `Deriving`. The statements carry no
claim and check none, and the module keeps that: every statement may be issued
at any time for any asset.

### Deriving

A worker is a record: where it is in its loop (`at`), the asset it holds, the
forms it has yet to store (`left`), the attempts it read with its claim
(`tried`), which the local worker's backoff uses after the row may have
changed, and how far its report is (`told`). `logged[a]` is what the lines of
an asset in `derivations` say. The history variables are `closer[a]`, who took
the asset's row away; `rebuilt`, whose forms requeue threw away; `uncounted`,
whose line the catalog refused; and `dropped`, the claims that a refused
statement left with nobody behind them.

`Ladder[w][a]` is what `derive.Ladder` makes of the asset on the machine of
`w`. It differs by machine: by the widths a worker or a client is started
with, and by the tools there are. Where ffmpeg is missing, the ladder of a
video is empty, without an error.

* `InsertAsset`, `QueueUpload`, `QueueLost`: `Service.Put` after the bytes are
  stored, as the two statements it is.
* `AskForJob`, `TakeJob`, `TakeNothing`: `claimJob`, again two statements;
  `TakeJob` is also the local worker's claim. `DeriveHere` is `upload --derive`
  beginning without one.
* `PutRung`, `Finished`, `Unreadable`, `Stumble`: `build`, in both its forms.
* `TimeReport`, `LogReport`, then `ReportDone` or `ReportFailure`: a report, as
  the three statements that matter in it (the read of the row that is timed,
  the INSERT of the line, the DELETE or the UPDATE). Any other report, claim
  or restart can come between them. `LogRefused` is a line that is not
  written, which the code ignores; `ReportRefused` is the last statement
  failing, which the local worker logs and leaves.
* `Serve`, then `StartLocal` or `StartUnreleased`: the serving process starts,
  and its worker releases what is running, or is refused that, logs it and goes
  on. `Die` and `Stop` end a process; with the serving one go the requests it is
  answering, and whoever sent them ends with the error.
* `WorkExits`: any error of the API ends `work`, and so it does an upload.
  `RunWork` is an operator starting it, since nothing in the repository does.
* `ListCandidates`, `ClearRungs`, `QueueAgain`, `RequeueStops`: requeue.

`Mishaps` says what may go wrong in an instance, so that a property can be
checked under exactly the failures it is to withstand: `stumble` (any ordinary
error while building), `die` (a worker, the process or a command stops, or is
killed by what it works on), `unqueued` (the queue row is not written),
`unlogged` (a line of the log is not), `refused` (the catalog refuses the local
worker's release or report, or a call of `work`). `Broken` are the assets that
never decode. A machine without the tool for an asset does not try to read it.

### Uploads

`open` and `upload` are the map of open uploads, `spool` and `content` the
files, `handler[h]` a request: where it is, whose it is, the upload it has, the
offset it announced, how much body comes and how much was copied, and the files
a sweep still has to remove. Each hold of the mutex is one step, so opening an
upload is `Sweep`, `RemoveSwept`, `Count`, `CreateFile` and `Register`, with
every other request in between; appending is `Take`, `AcceptPart` or
`RefusePart`, `CopyUnit` for each unit of the body, then `PartLands` or
`PartFails`; finishing is `Take`, `Store` or `RefuseFinish`, `Drop` and
`RemoveDropped`. `upload[id]` outlives the map's entry, as the struct a request
points to does.

A client's file is the sequence 1, 2, 3, ... and a part announced for offset
`from` carries the units after `from`. A body may be one unit longer than the
file has room for, which is what `io.LimitReader` with one byte more is for. A
failed `Truncate` is a choice (`cut`), since its error is dropped. Ids are 128
random bits and are drawn as fresh numbers. `GoIdle` is the hour that passes,
`Stop` and `Start` the process; `OwnSpool` says whether the spool folder is the
service's own, the only case in which a start may empty it.

### AssetStore

`row`, `forms` and `job` are the catalog, `acl` and `bytes` the bucket (who may
read an object, and the digest in an original's metadata). An object's `acl` is
`"none"` where there is no object. No transaction spans the two, so `Put` is
`Lookup`, `HeadOriginal`, `PutDone` or `PutFails`, `InsertAsset` and `Queue`,
each a step; a failed call to storage may have worked (`kept`), and a request
can end anywhere (`Abandon`). `PutRendition` is `HeadForm`, `PutForm`,
`RecordForm`; `withhold` is `List`, `Look`, `SetPrivate` or `QueueInstead`.
A reader makes a manifest from three reads.

`Legacy` assets may be there from the start as they were stored before
originals were withheld: with a public object, no forms, and the content type
`LegacyKind`. `Stem` says which assets give their forms the same keys: a form's
key is made of the asset's name and the form's own bytes.

A request is `[key, digest, visibility, kind]`: its kind stands for the content
type it declares, and nothing makes two requests for one key declare the same.
`OriginalAccess` goes by the request, everything after that by the row, which
keeps what the first request to be recorded declared. A key is `Disputed` where
requests for it differ in visibility or kind.

`requeue --rebuild` is `ListAgain`, `DeleteRenditions` and `QueueAgain` for each
asset, and `EndRebuild` anywhere. It removes rows and never an object. What is
built again is taken to be the same bytes, so that its keys are the same; that
holds while the tools and their settings are the same. Without `--rebuild`,
requeue queues and nothing else, and is in `Deriving`. The queue is only what
these operations see of it: a builder has whatever job is pending.

### Policy, Accounts, Admission

A scope is an action on a namespace, which may be `Everywhere` (the `*`).
`Can`, `Holds`, `CanGrant` and `Evaluate` are the functions of those names;
`LimitsOf` is `policy.For` and `Home` is `policy.Namespace`.

`keys` is the table of keys in order of insertion, `tier` that of accounts. A
request is let in by one read of its key (`LetIn`) and goes by the principal it
got then. Signing in is `Redeem`, `UpsertAccount`, `Bless` for the accounts
named in the configuration, `ReadAccount`, `CountKeys`, `Issue`; minting is
`AskForKey` and `Mint`; revoking is `AskToRevoke`, `ListKeys`, `Revoke`; a
change of tier is `SetTier` and, for blocking, `SweepKeys`. The API, the HTML
page and the commands on the host go through the same actions where they make
the same statements. `Abandon` ends a request after any of them, `Expire` is
the clock. A key remembers which key its chain of minting began with (`root`).

`Admission` adds what each account has stored (`files`, each with the narrowest
window it is still in, which `Grow` widens) and uploads, which are let in by
`AskToUpload`, `ReadTier`, `CountHour`, `CountDay`, `CountWeek` and `Judge`,
and stored later by `StoreUpload`. An upload opened in parts is one whose
`StoreUpload` comes late: `finish` judges nothing again.

### Throttle

Credit is counted in ticks, `Every` of them to a token, so that refilling is
addition. Each call carries the time its request read before it took the mutex,
up to `Skew` ago. `spent` is history: of all stretches of time up to a caller's
last allowed call, the most it was allowed beyond what the time pays for. That
`2 * Skew <= Every * Burst` is an assumption: a request that waits longer than
half the time a bucket takes to fill may find its bucket dropped and be given a
full one. In the service that time is 100 seconds.

### Pictures, Ladders

A JPEG is the sequence of its segments and a PNG that of its chunks; a segment
is what the two walks tell apart. Neither walk reads past the first scan:
`BeforeScan` is what they see, `FromScan` the scan and all that follows, which
the copy has as it came. `Kept` is what one segment leaves in the copy,
`StripJPEG` and `StripPNG` the whole walk, `TagInIFD0` and `Orientation` the way
up, `Turned` where `orient` puts a pixel. The walk that strips goes on after a
marker that says the picture ends (`eoi`), the one that reads the way up ends
there, as each does in the code. A ladder is the
sequence of its forms, each a kind and a size. A video has the size it is stored
with, and `turned` says that it is looked at on its side (`Displayed`): the code
probes the first and ffmpeg turns what it decodes. Whether ffmpeg is there is
asked twice, of the machine that derives and of the server that withholds
(`serverFfmpeg`), which need not be one. What ffmpeg and the slicer do
is external: a form that fails to be made fails its ladder, but for one of the
two slices. `UpTo` is the loop that picks the widths which fit and `Sorted` is
`sort.Ints`, said by what it returns; both, and the copies, are flattened
sequences, so that they can be reasoned about one element at a time. `MCForms`
grows or chooses the inputs: a file gains a segment or a chunk in each step,
and a ladder is asked for once.

### ReleaseAgent

`installed`, `failed` and `pinned` are the two files and the line in `.env`,
`running` the image the service runs; a run remembers the release it installs
and `previous`. `LockFree` is the `flock`. `BreakOff` ends the script anywhere,
for a command that fails under `set -e`, a time-out of the unit or a restart
of the host. `good` and `adrift` are history: the release that last came up,
and that a run ended between its pin and its verdict or rollback.

## What the runs show

| Run | Question | Instance |
|---|---|---|
| `queue` | does the table keep its promises under any caller? | 2 assets of different cost, 2 attempts, stale after 1 tick, retries 1 or 2 ticks ahead |
| `deriving_remote` | do late and repeated reports, on machines that differ, leave anything half made or uncounted, and who puts back a fresh claim? | the serving process and its worker, 2 workers elsewhere, one of them without ffmpeg; 1 video of two forms, 2 attempts, 1 rebuild; failures, deaths, refused lines |
| `deriving_local` | are claims safe with the worker in the process, beside a client that reports without claiming, is an attempt counted once, and does every job end? | local worker, 1 client with another width, a video and an unreadable image, 2 attempts; failures, crashes, lost queue rows, refused releases and reports |
| `unwired` | violated: where nothing goes wrong no asset is given up | the worker as `serve` builds it |
| `bare_work` | violated: what a machine has no tool for it reports as failed | the serving process and 1 worker elsewhere without ffmpeg, a video, nothing going wrong |
| `queue_row_lost` | violated: every stored asset is derived or given up | local worker, an image, one failed insert, no operator who runs requeue |
| `uploads` | is the file assembled whole, nothing swept in use, no file forgotten, the limit overshot by no more than the requests at once, every take given back? | 2 callers, 2 requests at once, files of 2 units, 1 open each, 2 uploads drawn |
| `asset_store` | do bucket and catalog agree after any failure, and is what is published readable? | 2 uploads at once of one of: a public photo, old or new; a scan some send as a picture and some as a file; a private picture. A build, a reader, a run of withhold and one of `requeue --rebuild` |
| `shared_forms` | violated: a form is as visible as its asset | two pictures of one name whose forms are the same bytes, one public, one private |
| `accounts` | does blocking take every key, does no key outgrow the one its chain began with, by how much may limits be passed, is a caller of sign-in held to its rate? | 2 accounts, one named in the configuration; 2 requests and 2 uploads at once; 3 keys, 3 files; 2 callers and 12 ticks |
| `forms` | does the published copy keep the picture and lose the notes, is every picture turned as tagged, does every ladder fit its source? | JPEGs of 4 segments, scans among them, PNGs of 6 chunks, pictures up to 4 by 4, sources up to 7 by 7, upright or turned, with and without ffmpeg on either machine, every list of 1 to 3 of 4 widths in order, repeated ones too |
| `release_agent` | does the service return to the release that last came up, and is a failed one left alone? | 3 releases, one of which never comes up; 2 runs at once; cut off anywhere |

Bounds. Two attempts are the fewest at which a first charge and a last one
differ. In `queue`, one tick of staleness separates a fresh claim, one at the
limit and one beyond it. In the runs of `Deriving` that pass, `StaleAfter` is 0:
a claim is stale a tick after it was made, so that every order of time-out,
report and second claim is there with the fewest ages. Two assets are what the
cost order needs, one video of two forms what a half-stored ladder needs, and
three workers (the local one and two elsewhere) what a claim taken from its
second holder and handed to a third needs. One rebuild can meet a build in any
of its steps; a second would meet the next build in the same ones. `OverdueCap`
stops a due row from growing older, which only the order among equals could
see; `ChargeCap` stops the counting of failures on a row that was given up.
`claims` needs no bound: the run shows it is bounded.

In `uploads`, two requests are what a race needs (a sweep beside a part, two
takes of one upload, two opens by one caller), and two ids what a sweep that
removes one upload while another is opened needs. A file of two units has an
offset at the start, one inside and one at the end, so a part can be short,
exact or one unit too long, and can be announced behind, at or ahead of where
the upload stands. The theorems below cover every other size.

In `asset_store`, two uploads of one key race each other through the same calls,
and two put attempts separate a retry from the last one. All requests for a key
have one digest. The three keys share no object, so all that they share is the
lists the operator's commands take; `OneKeyInUse` (a `CONSTRAINT` in the cfg)
leaves out what follows a state in which a second key is in use. The run thus
says of each key by itself what it says: 2 million states, the uploads taken as
interchangeable (`MCSymmetry`), instead of their products. Keys that do share objects are what `shared_forms` is about, and the
theorems have any number of keys at once. No two requests of the run differ in
visibility for one key; in the theorems they may.

In `accounts` everything anybody may do at once is out of reach, so a behaviour
mixes one of five kinds of operations, chosen at its start: `standing` (sign-ins
beside blocking and resetting by command), `founder` (the configured account
signs in, mints and is blocked over the API), `keys` (operators' keys mint,
revoke and are revoked), `uploads` (one key, two uploads, blocking and resetting)
and `starts` (the throttle). The tiers' numbers are in the order of the real
ones and small enough that each limit is met: 1 or 2 files an hour and a day,
2 or 3 a week, 1 or 2 live keys. Two requests are what each race needs (two
counts before one insert, a block beside an issue, a revocation beside a
reissue of the name), and `IssuedBounded` and `QuotaBounded` are stated in the
number of requests so that more would say nothing else. Three keys are a first,
one minted by it and one minted by that. Two tokens and a skew of one token in
the throttle let a burst, a late call and a sweep meet.

In `forms` four segments hold a note, a tag, what the picture needs and one
thing more, such as a stray byte, in every order. The widths and sides make
sources narrower and wider than all, some and none of the widths, odd and even;
a width may be configured twice, which `config.widths` does not prevent.
Its behaviours end where an input is complete, so that run does not check
deadlock. `release_agent` needs a release to go back to, one that fails and one
more that succeeds; two runs are what the lock is for. The theorems cover any
number of each.

Fairness (`FairDeriveSpec`, of the serving process and its worker alone). The
worker in a process that is up goes on with its loop (weak fairness of its own
steps: Go runs its goroutine). The serving process is started again when it has
stopped (`restart: unless-stopped` in `deploy/docker-compose.yml`). One that is
restarted over and over gets past its release, granted or refused, and through
a claim in the end (strong fairness, since a crash disables both for a while). A
request that has stored its asset goes on to queue it, unless it is lost. Time
passes. Nothing is assumed about uploads arriving, clients, the operator, or
anything going right; and nothing about `work` on other machines, which ends at
the first error of the API, at the latest when the service restarts, and which
nothing in the repository starts again. Liveness is therefore claimed of the
local worker only.

Fairness of `Uploads`: a request that is being served gets on with its work.
The server's `ReadTimeout` is the upload time-out (`main.go`), so that a body
that stalls ends in an error and is not waited for without end. Nobody need
send another request, and the clock need not reach the hour, so nothing that
holds depends on a sweep. The other modules state no liveness property and no
fairness: a request may end anywhere, an agent may be cut off every time, and
nothing in the code makes a release come up.

### Where the code and its documents differ

* `unwired`: `serve` builds the local worker without its `Assets`. The first
  form it stores dereferences nil and takes the process down; each restart
  charges an attempt, and after `RENDITION_ATTEMPTS` restarts the asset is
  given up and the next one begins. The tests set the field themselves.
* `queue_row_lost`: a queue row that is not written is not written later by the
  service. An operator who runs `requeue` puts the asset back; the run has none.
* `shared_forms`: a form is stored only where its key has no object, and two
  assets of one name that differ only in metadata share the keys of their
  forms. The forms keep the access of whichever was stored first.
* `bare_work`: `work` says that without ffmpeg "video jobs will be reported as
  failed" (`work.go:50`). `derive.Ladder` returns no forms and no error there
  (`derive.go:163-164`), and the job is reported as done: the video reads as
  ready with no form, and where the server has ffmpeg its original is withheld.

Noted while modelling, without a run. Of the queue and its callers:

* No report says which claim it is about. A worker that was merely slow takes
  the job from the one it was handed to. A restart of the service does the same
  to every worker elsewhere, and both charge an attempt that is charged again
  when the other report arrives. `OneChargePerClaim` is therefore checked where
  only the local worker claims, and `FreshClaimStays` says that such a report
  and such a restart are all that takes a fresh claim.
* "Nothing that finishes work can forget to be counted" (`derivations.go:25`)
  holds of an asset and not of each report. A report reads the row to be timed,
  writes its line and deletes the row in statements of its own. With a second
  report between them, the newest line can be a failure though the row is gone.
  One that found no row to time deletes a row that was queued since, and no line
  says so. `GoneIsCounted` is what is left: some success was logged first, or
  the catalog refused a line.
* What done means goes by the machine that says it. A client of
  `upload --derive` and a worker elsewhere make the widths they are started
  with, not the server's.
* A refused release at the start (`worker.go:86`) or a refused report leaves a
  row running with nobody behind it until the next start, or until somebody
  elsewhere asks for work.
* Requeue acts on a list taken earlier, and its insert does nothing where a row
  exists; the forms it deleted under a running build are gone when that build
  reports success. `DoneMeansWhole` excepts what a rebuild threw away.

Of bucket and catalog:

* `WithholdsOriginal` is one function so that the upload path and the read path
  "must not be able to disagree" (`derive.go:65-70`). They ask it about
  different content types: the one this request declared (`service.go:306`) and
  the one the row was recorded with. Bytes stored by a request that says text
  and stops before its row are readable; a later request that says JPEG adopts
  the object (`service.go:297-303`) and the row withholds what anybody can read.
  In the other order the plain URL that is handed out is refused. Two
  visibilities for one key do the same (`service.go:172`). `AccessAgrees` and
  `PublishedIsReadable` except the originals of such keys (`Disputed`), and say
  of their forms that they go by the row.
* A rebuild between the look of `withhold` and its `SetPrivate`, or after both,
  leaves a private original whose copy is no longer recorded, so that the
  manifest has nothing to publish until the asset was built again. The copy is
  still in the bucket and public (`WithheldHasCopy`).
* The manifest reads the forms, then the job. Before the queue row is written,
  and around the end of a build, it says ready and lists less than every form.

Of derived forms:

* `imaging.Full` is to lose "everything a camera wrote about where it stood"
  (`strip.go:13-24`). What follows the first scan is copied unread: segments
  between scans, and a second whole picture after the end of the first, with
  EXIF of its own. `NotesGoPictureStays` says of that part only that it is
  copied as it came.
* The manifest's size of an image goes by the tag in the first 128 KiB of the
  file (`derive.go:191-196`), the forms by the tag anywhere before the scan.
  `Size` has the tag.
* A video stored on its side is probed unturned (`video.go:207-238`) and encoded
  turned: its encodes have the recorded width and another height than recorded,
  and may be upscaled, which `video.go:120-121` says is never done. `LadderFits`
  excepts these encodes; a poster is measured from the frame and is not excepted.
* A server with ffmpeg withholds a video whose ladder a machine without ffmpeg
  made: there is nothing to publish. `LadderFits` asks for something to publish
  only where the machine that derives has the server's tools.
* Of a JPEG with several EXIF segments the first decides its way up, unless it
  says nothing: then the copy's first is another. Bytes that do not walk as a
  JPEG are published as they came.
* A width configured for video may be odd, and is then encoded as it is; the
  comment on `widthsFor` (`internal/video/video.go:181`) says an even width.
* The height of a video's form is computed by rounding down and not read from
  what ffmpeg wrote, which is asked for `scale=w:-2` and rounds by itself.

Of uploads, accounts and releases:

* The limit of open uploads is counted in one hold of the mutex and the upload
  inserted in another, so a caller can have more than the four that
  `uploads.go:40-42` names (`OvershootBounded` says how many more). Idle uploads
  are swept only when somebody opens one.
* An upload is judged when it is let in. One opened in parts is not judged
  again when it is finished, up to a day later, so a limit of the hour is
  passed by whatever was opened earlier (`QuotaBounded` says by how much).
* `mintKey` does not look at `MaxLiveTokens`, which is about issued keys only.
* "A blocked account keeps no working credentials" (`accounts.go:90-91`) is true
  once both statements ran. A stop or an error between `SetTier` and the
  revocation leaves a blocked account with its keys: `BlockedKeepsNone` is about
  accounts that were swept.
* A change of tier that is not a block leaves the account's keys as they are,
  scopes included; those let in before a block go on to issue and to mint.
* An account that is named in the configuration and blocked is an admin again
  when it next signs in.
* The release agent takes for `previous` what `.env` pins. After a run that was
  cut off between its pin and its verdict, or whose `compose up` failed under
  `set -e`, that is a release nothing vouches for, and the next rollback goes
  there (`agent-docs/operations.md:209` says "rolls back to the previous image").
  Where it is the very release that is being installed again, and that fails
  again, the rollback "goes back" to what is pinned and running already:
  `FailedIsNotPutUp` is about steps that move the pin or the service.

And: requeue skips an asset that was given up, since its row still exists;
`POST /v1/jobs/claim` is documented as the oldest job that is due and hands out
the cheapest.

## What is proved

Every invariant and every action property the passing runs check is also a
theorem: the run shows it on a small instance, and the theorem for every value
of the constants that its assumptions admit. What remains with TLC is under
"Left to TLC" below.

### The queue and its callers

The first part of `DerivingProofs` is about `JobQueue` alone, for every set of
assets, cost, number of attempts, staleness and set of retry delays
(`QueueAssumption`):

* `TypeCorrect`: rows keep their shape.
* `ClaimsAccounted`: the inductive invariant `EveryClaimAccounted`. The bound
  on claims is not inductive by itself: it needs that a pending row's claims
  are covered by its attempts, a running row's by its attempts and one more,
  and that a row that may be tried has attempts left. `AttemptsBounded` follows.
* `GivenUpStays`, `LastErrorTrusted`: an action property and an invariant of
  the same table, from type correctness.
* `Implementation`: `JobQueue` implements `BoundedRetry` under the mapping
  `PhaseOf` of rows to phases and `claims` to tries: initial states map to
  initial states and every step to a step or a stutter. A release maps to
  abandoning the set of rows it retires. The step lemma uses the invariant:
  without it a claim could be a try beyond the budget.

Each action is its own step in these proofs; what they share about rows (what
an operator returns for a well-formed row) is in the lemmas `RowOperations`,
`Charge` and `AccountKept`.

The second part is about `Deriving`, for any workers, clients and assets, any
ladder for each of them, and whatever goes wrong (`DerivingAssumption`, which
adds that the delays the workers back off by are among those the table is
given):

* `CallersShaped`: the inductive invariant `Shaped`. The types do not hold by
  themselves either: that a report names an asset needs that a busy worker has
  one (`AtWork`), and that a delay is one of the table's needs that the
  attempts read with a claim were below the maximum, which in turn is what the
  account of claims says. `WorkTyped` follows. That the callers only issue the
  table's statements is how they are written, and a lemma (`QueueStep`);
  `CallersBounded` draws the conclusion for `AttemptBound`.
* `CallersBuild` and `ReadyIsWhole`, which is `DoneMeansWhole`. What is missing
  from it is what a worker has stored of its own ladder at each stage (`Made`),
  and it is an invariant only with the exception the code has: `rebuilt`.
* `NoneUncounted` is `GoneIsCounted`. A report's three statements are steps of
  their own, so its invariant follows each report through them (`CountedSoFar`):
  one that has written its line has a success of its asset in the log, and one
  that found no row to time is about an asset whose row somebody else took away
  after logging it (`CountedWhenGone`, `CountedStays`).
* `ClaimsStay` is `FreshClaimStays`, for any workers elsewhere, with time-outs.
* With no worker elsewhere (`Remotes = {}`): `NoneOrphaned` (`NoOrphanedClaim`,
  refused releases and reports included) and `ChargedOnce`
  (`OneChargePerClaim`).

The hypotheses are where the code stops giving the guarantee. A worker
elsewhere loses its claim to any restart of the service, and is charged twice.
`ChargedOnce` needs besides that there are no clients or that nothing is
requeued: with both, a client finishes an asset while the local worker is still
at it, requeue queues the asset again, and the late failure of the local worker
is charged to a row that nobody has claimed. Each hypothesis holds in the run
that checks the property, `deriving_local`.

### Uploads in parts

`UploadsProofs` proves, for every set of callers, finite set of requests at
once, length and limit (`UploadsAssumption`), two inductive invariants, one on
top of the other:

* `Ownership`: each file is the map's or one request's. `HeldByOne` and
  `FilesAccounted` are not inductive by themselves. What is missing is which
  ids a request at each stage can have (`Stages`), that whatever is owned is
  in the folder (`Spooled`), and the converse (`Exact`). Every step of a
  request is of one of a few kinds, each with a lemma of its own: it owns
  nothing before and after (`Bystander`), goes on holding (`GoesOn`), gives
  back (`LetsGo`), or removes a file it keeps (`Removes`). `HeldIsOwn` and
  `NoFileForgotten` follow.
* `Sound`: the offset of an open upload counts units that are the client's, a
  copy in progress has added units that are the client's, and what is being
  stored is as long as announced. It needs ownership: only because no other
  request holds the upload is the offset that a copy started from still the
  offset. `TypeCorrect`, `Assembled` and, from two states of `Sound` and the
  lemma `OffsetsRise`, the action property `LandedForGood` follow.
* `OvershootHeld` is `OvershootBounded`. It counts, so what has to be kept is
  an inequality of cardinalities: the uploads a caller has open and those it
  was let in for are together at most the limit's last free place and one for
  each request. The step that matters is the count under the mutex, which lets
  a request in only where fewer than the limit are open; sweeping and dropping
  only make the sets smaller, and inserting moves a request from one to the
  other.

### Bucket and catalog

`AssetStoreProofs` proves, for any assets, requests, uploads at once, builds
and readers (`StoreAssumption`):

* `StoreShaped`: the inductive invariant `Shaped` and the action property
  `Grows`: rows and objects are only added, and the forms of an asset go only
  when a rebuild deletes them, which `rebuilt` remembers. What an upload, a
  build, a reader, a run of withhold and a rebuild read before their last step
  stays true because of it (`UploadFits`, `BuildFits`, `ReadFits`, `RunFits`):
  a reader's URL names an object, and no object goes. It needs no hypothesis;
  `StoreTyped` follows.
* `CatalogIsBacked` is `RecordedIsStored`, under `OneDigest`: requests for one
  key have one digest. A key names a file by part of its digest only, and `Put`
  returns the row it finds without comparing the rest (`service.go:138`).
* `AccessKept`, `ReadersServed` and `CopiedBeforeWithheld` are `AccessAgrees`,
  `PublishedIsReadable` and `WithheldHasCopy`, under `SharersAgree`: different
  assets whose forms share their keys agree on who may read them; and
  `FormsApart`: no form has the key of an asset. Without the first the
  properties are false, as `shared_forms` shows (`service.go:205`). Nothing is
  assumed of the requests for one key: they may declare any content types and
  visibilities, and what follows from a dispute is excepted in the properties,
  for the original alone.

The hypotheses are about what clients ask for, not about what the code does,
and hold in the run `asset_store`.

### Release agent

`ReleaseAgentProofs` proves, for every set of releases and of runs and whatever
releases never come up (`ReleaseAssumption`):

* `Invariance`: the inductive invariant. Neither property is inductive: what is
  missing is that at most one run is under way, what the files and the pin are
  at each step of it (`previous` is the good release until it is pinned again,
  the pin is the release being installed while it is waited for), and that the
  release of a run past its check is not the one recorded as failed.
* `GoesBack`: `BackToTheLastGood`, when no run is under way.
* `NoLoop`: the action property `FailedIsNotPutUp`, from the same invariant at
  the steps that pin and start, the new release and the previous one alike. A
  rollback to what is recorded as failed moves nothing, because that is what is
  pinned and runs.

### Accounts and admission

`AccountsProofs` proves, for any accounts, namespaces, numbers of keys and of
requests at work (`PolicyAssumption`, `AccountsAssumption`):

* `Accounted`: the inductive invariant. A request that mints or revokes goes by
  what it read before, so each property needs what its requests still know:
  `MayMint` (the scopes it was let in with are a key's and cover what it
  mints), `MayRevoke` (a key of the name it is to revoke was one it
  administers), `Staged` (which account and tier it can have at each stage).
  `Rooted` says where every key comes from, `OfOneName` that a name is one
  key's, `Late` what an account has left after it was blocked and swept. What a
  step does to the table of keys is one of two things, `Stays` or `Comes`, and
  what it does to the requests is said by a lemma for each action.
* `MintedWithinRoot` is `WithinRoot`, for chains of any length: by the lemma
  `Transitive`, who administers what administers something administers it.
* `RevokesItsOwn` is `RevokesWhatItMay`: the request saw a key of the name and
  names are unique, so the key it revokes is that one.
* `BlockedIsOut` is `BlockedKeepsNone`.
* `IssuedKept` is `IssuedBounded`. An account's tier may change between any two
  sign-ins, so a count against the limit of one tier is not kept by any step;
  `Tallied` is: for every number, the live keys issued under tiers of at most
  that limit, and the requests that passed such a limit and have yet to insert
  theirs, are below it but for one for each request. The property is this for
  the loosest limit among an account's keys.

`AdmissionProofs` adds uploads to it, for any bodies and any number of uploads
at once. `Admitted` is the inductive invariant: from the moment an upload has
read its account, that account is not blocked, or the upload read it as
blocked, or is late; and what has been admitted was not read as blocked. The
last needs of the limits only that a blocked tier's largest file is below zero
(`PolicyAssumption`, from `policy.go`), so that `Evaluate` forbids whatever is
uploaded. `BlockedUploadsAreLate` is `BlockedUploadsWereLetIn`.
`AdmissionTyped` needs in addition that a sum of sizes is a number.

`QuotaKept` is `QuotaBounded`. Its invariant `Quotas` is of the kind of
`Tallied`, for every number and each of the four measures: what is stored in a
window under limits of at most that number, and what may be added by the
uploads that passed such a limit, is below it but for one file of each upload.
Day's bytes are a sum over a finite set; that adding and taking away one
file changes it by its size is shown by descent on the subsets of a set
(`Descent`: if any were wrong, a least one would be, and it is not). Two
things are assumed. `Bodies` is finite (`AdmissionAssumption`), so that there is
a largest one: the server has a maximum size for an upload of its own.
`Ascending` says that the numbers of a higher tier are the wider, as those of
`policy.For` are (`policy.go:45`): only then is there one file in a window
whose limits are the loosest of all by every measure at once.

### Throttle

`ThrottleProofs` proves, for any callers, rate, burst and `Skew` within
`ThrottleAssumption`:

* `Accounted`: the inductive invariant. `RateBounded` speaks of what a caller
  was allowed and the code keeps only its bucket, so what is missing is how the
  two go together (`Balanced`: credit left and ticks spent, taken to the same
  time, are a full bucket at most), how far late calls can pull a bucket down
  (`NeverFarBelow`), and that a caller whose bucket was swept may as well begin
  with a full one (`MadeUpFor`). The last is where `2 * Skew <= Every * Burst`
  is needed.
* `HeldToRate` is `RateBounded`.

### Forms

`FormsProofs` proves what the run `forms` checks, for JPEGs of any number of
segments, PNGs of any number of chunks, pictures and sources of any size, and
any lists of widths (`FormsAssumption`: the bounds are numbers, and a width that
is configured is more than nothing).

* What flattening a sequence of sequences gives (`FlattenAppend`, `FlattenMore`).
  The library defines it by a recursive function. Its facts are shown by
  induction along the length in the form of the lemma `Upward`, which speaks of
  a set of numbers and not of a predicate: `0` is in it, with each number the
  next, so every number is.
* `TurnedRight` is `UprightAsTagged`. That every place of the turned picture
  gets a pixel is shown by turning back: each tag is undone by itself or, for
  the quarter turns, by the other one (`TurnedBack`, `Reached`).
* `CopiesAreClean` is `NotesGoPictureStays`. The induction over a file is the
  specification's own: a behaviour grows the file, and `Copied` and `Stripped`
  are what each segment or chunk keeps true of the file so far and its copy.
  `SameTag` is the part that is not obvious: that a copy is its own copy and
  stays the way up needs that the one tag written is read back as it was
  (`TagReadBack`), and nothing before it in the copy decides. `ApartOnce` says
  that the copy's first scan is the original's, and `Halved` that what the walk
  makes of a file is made of its front. `Stripped` says of a PNG that it keeps,
  in order, every chunk a decoder needs.
* `LaddersFit` is `LadderFits`, with its exceptions for turned videos and for a
  machine without the server's tools. `RenderedFits` and `EncodedFits` say of one form
  that rounding down loses less than one pixel, or two where the height is made
  even; `UpToPicks` and `WidthsForPicks` that the widths picked are of the list,
  fit, and come in order, and that a video of more than one pixel's width has
  one; `ImageFits`, `VideoFits` and `ModelFits` put each kind's ladder together.

### Left to TLC

Liveness under fairness and `ENABLED`, which this prover does not reach:
`EveryJobSettles` and `EveryTakeEnds`. The four runs that expect a violation
refute what they check. What `Sorted` returns is said by a choice among the
orderings of a list; the proofs show that it is in order and of the list's
elements, and TLC evaluates it.

## Plan

Done: every component the inventory lists as modelled, with its runs, and a
theorem for every invariant and action property of a passing run. What would
add most next:

1. Liveness in steps that the prover reaches: the measure by which a job comes
   closer to its end (`EveryJobSettles`), as an action property.
2. What the code does keep of an original whose uploads disagree, as a property
   of its own.

Where a new question deserves a run, one that repeats an older question on
another instance makes way for it.

## Not modelled

* What is made of bytes by floating point or by another program: scaling and
  encoding of images, ffmpeg, the slicer and its numbers, the render of a model
  and the reader of STL files (`internal/model`). Their failing is modelled, as
  a ladder that fails; what they return has nothing for a state machine to say.
* Request signing (`objstore/sigv4.go`): strings and a keyed digest.
* Configuration but for the lists of widths, statistics, the client commands,
  the HTML pages: they parse or only read.
* The stored time stamps, strings that drop trailing zeros and are compared as
  strings: the models compare numbers. Within one second two rows may be
  handed out in the other order.
* In `AssetStore`, two digests for one key at once.
* Of uploads in parts: the `upload-*` files that hold a body while it is hashed,
  which are removed with their request, and an `os.Remove` that fails, which
  leaves its file to the next start.
* An account's handle, which signing in may rename: `Home` is constant.
* A form that somebody uploads again under its own key, as an asset.
* The edge worker, which rewrites requests without state, and deployment data.
