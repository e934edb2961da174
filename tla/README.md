# MyMediaVault: verification of the worker and the web application's core

TLA+ models of MyMediaVault, translated from the source, model-checked with TLC
and, where it matters most, proved with TLAPS for every value of the constants.

MyMediaVault is a Next.js application (`apps/web`, logic in `packages/core`) and
a worker on a VM (`apps/vm-worker`). They never call each other. All they share
is a MongoDB database and a blob store, and neither uses a transaction: every
interaction is a sequence of single-document commands and single-blob puts and
deletes, interleaved with everybody else's. That is what the models are about.

## 1. Inventory

Paths: `PP` = `apps/vm-worker/src/mymediavault_vm_worker/preview_pipeline.py`,
`videos.ts`, `actors.ts`, ... = `packages/core/src/...`; other Python files are
relative to `apps/vm-worker/src/mymediavault_vm_worker/`. ADR 001 is
`docs/decisions/001-asynchronous-actor-identification.md`.

| Component | State | Operations | Modelled |
|---|---|---|---|
| Torrent processing scheduler (`PP`) | `processingState`, queue time, cooldown, lease, failure count of every torrent; the asyncio tasks | claim, repair stale, queue stale artifacts, session (metadata, attempts, complete, yield, fail, finish), stop | `TorrentScheduler` |
| Preview artifact persistence (`PP` `MongoPreviewJobLease`, `storage.py`, `storage.ts`) | blobs of frames, sheet and raw torrent; the references in the torrent record | put frames, update, delete obsolete; put raw, update | `PreviewArtifacts` |
| Video catalog and queue operations (`videos.ts`) | torrents, videos, tag links | create, update, delete video; delete torrent; queue again, cancel, ensure queued; reset actor analysis | `VideoCatalog` (videos, tag links, orphans); the writes to a torrent's fields in the module that owns them |
| Actor analysis worker (`actor/worker.py`) | `actorAnalysis*`, `systemActorIds`, actors' evidence and profile images | claim by plan, lease repair, analyse, persist identity, improve profile, finish, fail | `ActorAnalysis` (the queue), `ActorCatalog` (what it stores) |
| Actor identity index (`actor/identity.py`, `actor/selection.py`) | exemplars per actor | cluster, match, assign, retain exemplars, evaluate | `ActorIdentity` |
| Actor catalog (`actors.ts`) | actors, profile blobs, attributions | create, update, delete, resolve | `ActorCatalog` |
| Tags (`tags.ts`) | tags, tag links | create, rename, delete, sync | `VideoCatalog`, but for renaming |
| Preview engine (`preview/core/engine.py`, `models.py`) | one attempt: anchors, candidates, decode checkpoint | download, decode, retry missing anchors, select, result | `PreviewSession`; only its outcomes in `TorrentScheduler` |
| libtorrent client and cache (`preview/torrent/client.py`) | active handles per info hash, cache on disk | download, retain, release, save resume data, prune | `TorrentCache`; the download loop and deadlines in `PreviewSession` |
| Metadata resolution (`metadata.py`) | none | HTTP resolvers in order, then DHT | `PreviewSession`; its outcomes in `TorrentScheduler` |
| Range planning (`preview/planning`, `preview/selection`) | none | pure functions | `PreviewSession` |
| Frame selection (`preview/frame_selection`) | candidates of one attempt | a call to a language model, validation of its answer | `PreviewSession` |
| Composition, settings (`main.py`, `settings.py`) | the process | start, stop | as far as the scheduler sees it; the settings' constraints in `PreviewSession` |
| Authentication, pages, decoding, vision, scoring, migrations, infrastructure | | | no (section 8) |

**Interactions.** The web application inserts torrents and rewrites their
`processing*` fields whatever the worker is doing. The scheduler claims one with
`find_one_and_update`; from then on every write of its session is an
`update_one` filtered on `_id` and `processingState: "running"`. There is no
owner token, so a write by a session that has lost its claim is dropped only if
nobody has claimed the torrent since. A finished preview resets the actor
analysis of the torrent, which the actor worker claims by polling; it writes
actors, and the web application edits and deletes those.

**What is hard.** Sessions interleave with each other, with the web application
and with leases that lapse; a session decides on the snapshot it took when it
claimed; an artifact takes several puts, one update and several deletes; blob
keys are derived from the info hash, so attempts, sessions and even a re-added
torrent share them; the worker may stop between any two commands; fairness
between torrents rests on one FIFO order and on sessions giving way.

**What makes each component correct.**

* Scheduler: one session per torrent unless somebody took the torrent away; late
  writes have no effect; a complete torrent has a full, current artifact; the
  failure budget holds; FIFO order; nobody starves; crashed sessions are found.
* Artifacts: the record refers to blobs that exist and that it describes; what
  is deleted leaves nothing behind.
* Catalog: no video without a torrent, no torrent that nobody has, no link to a
  tag or actor that does not exist.
* Actor analysis: only the analysis of the current frames is stored; attempts
  are bounded; a profile image exists as long as an actor refers to it; an
  administrator's image is never replaced.
* Identity: at most 12 exemplars per actor and 2 per torrent, the best ones.
* Engine: at most one frame per anchor, a status that agrees with the frames,
  no attempt that spends its budget without new pieces.
* Client and cache: a handle is owned by one session; a save does not wait for
  an alert another save has consumed; nothing active is pruned.
* Planning: ranges lie inside the file, are ordered and do not overlap.

## 2. Plan

Each item is a module with its MC module, its runs and its proofs (`...Proofs`).
The order is that of how much goes wrong if the part does.

1. `TorrentScheduler`, refining `FifoQueue`.
2. `PreviewArtifacts`.
3. `ActorAnalysis`: the analysis queue on the torrent record.
4. `ActorCatalog`: actors, attributions and profile blobs, between the actor
   worker and concurrent requests.
5. `VideoCatalog`: videos, the torrent record as the catalogue sees it, tags and
   their links, between concurrent requests of several users.
6. `TorrentCache`: the state all sessions' download threads share.
7. `PreviewSession`: what one session does between claim and outcome: metadata,
   planning, download loop, decoding, retry ladder, selection. It says which
   results `TorrentScheduler` may assume.
8. `ActorIdentity`: clustering, matching and exemplars.

All eight are done. Worth doing next: a refinement from `PreviewSession` to one
session of `TorrentScheduler`, and the pages' authorization on top of
`VideoCatalog`.

## 3. Modules and how they correspond to the code

### TorrentScheduler

State: `doc[t]` holds the `processing*` fields of a torrent document that the
scheduler reads, the number of preview frames and what the diagnostics say of
the recipe; `before` is the order of `processingQueuedAt`; `sess[s]` is the
asyncio task in a slot with the snapshot it claimed; `worker` the process;
`ensuring` the requests of `ensureTorrentProcessingQueued` between its read and
its write; `contested` is a history variable (below).

| Code | Action or operator |
|---|---|
| `_claim_one` | `Claim`, `Claimable`, `Claimed` |
| `_repair_stale_running` | `RepairStaleRunning` |
| `_queue_stale_artifacts` | `QueueStaleArtifacts` |
| `_ensure_metadata` and its two exceptions | `MetadataResolved`, `MetadataInvalid`, `MetadataUnavailable` |
| `_set_phase` and the loop condition | `StartAttempt`, `StopSession` |
| `engine.generate`, `lease.complete` | `AttemptEnds` (`Replaces`, `Stamped`) |
| the engine's waiting result | `AttemptWaits`, `WaitRaises` |
| an exception of the attempt, of a blob delete | `AttemptRaises`, `CleanupRaises` |
| the decisions after a result | `Settle`, `Continue`, `GiveWay`, `Yield` |
| `_finish`, `_requeue`, `_fail_or_requeue` | `Finish`, `Requeue`, `FailOrRequeue` |
| time | `CooldownElapses`, `LeaseLapses` |
| `PreviewWorker`, `stop`, a kill, a new release | `WorkerStops`, `WorkerExits`, `WorkerStarts` |
| `queueTorrentProcessing`, `resetTorrentPreview` | `AdminQueuesAgain` |
| `cancelTorrentProcessing` | `AdminCancels` |
| `ensureTorrentProcessingQueued` | `EnsureReads`, `EnsureWrites` |

A step is one database command or the end of one attempt. Time is reduced to
what the code derives from it. Which anchors have a frame is reduced to how
many, so on equal counts `Replaces` allows either answer. What libtorrent,
ffmpeg, the language model and the metadata sources answer is nondeterministic.
Database outages are not modelled: an exception of a MongoDB command ends the
scheduler task or is handled by `_fail_or_requeue`, whose own write would then
fail too; what remains is a killed worker, which is modelled.

`contested` records the torrents whose document was requeued or cancelled while
a session of theirs was alive. Without an owner token the code promises very
little about those, and the three invariants that name it say exactly how much
holds without such a contest. The properties that hold regardless do not
mention it.

`FifoQueue` is the abstract specification: items in one line, the first open one
is taken, places change only by moving to the tail. `ImplementsQueue` is the
refinement: waiting = queued or partial, active = running, open = not cooling
down, ahead = `before`.

### PreviewArtifacts

State: `doc`, the record of one info hash (which `_id`, whether it runs, how
many frames, whether the raw payload is referred to); `blobs`, the keys that
exist; `described`, the frames whose blob is the image the record describes;
`sess` and `del`, the sessions and delete requests between two commands;
`overlapped` and `torn`, history variables for the two hypotheses of the
properties.

| Code | Action |
|---|---|
| `_ensure_metadata` | `PutRaw`, `StoreRaw` |
| `_store_frames`, `_store_sheet` | `PutFrame` (one per frame) |
| `complete` | `AttemptEnds` (decision), `StoreResult` (update) |
| `_delete_old_keys` | `DeleteObsolete`, `CleanupDone` |
| `_finish`, `_requeue`, also after an exception | `Release` |
| `deleteTorrentRecord` | `DeletionReads`, `DeleteRecord`, `DeleteBlob`, `DeletionEnds`, `DeletionBreaks` |
| `createVideo` | `Add` |

The queue is reduced to who may write. The contact sheet goes with the first
frame. The videos and tag links that `deleteTorrentRecord` removes in the same
step as the record are not in the model.

### ActorAnalysis

State: `rec[t]` holds the `actorAnalysis*` fields of a torrent, whether its
processing is complete, what `processingUpdatedAt` says (a counter), which
artifact it shows (`art`) and which one its attribution was made from (`shown`);
`w` is the worker, which is sequential: its place in `_claim_plans` and the
snapshot it claimed; `recipe` the algorithm version it runs; `intact` a history
variable: nobody has written to the claimed torrent since.

| Code | Action or operator |
|---|---|
| `_repair_stale_processing` | `RepairStaleProcessing` |
| `_claim_plans`, `_claim_one` | `Plans`, `Matches`, `Claim`, `NextPlan` |
| `_analyze_frames` | `AnalyseFrames` |
| the last update of `_process` | `StoreAssignment` (`Current` is its filter) |
| `_fail` | `Fail` |
| the process, a new release | `WorkerExits`, `WorkerStarts` |
| time | `LeaseLapses` |
| `complete`, `_finish` (`PP`) | `ReplaceFrames`, `KeepFrames`, `Completes` |
| queue again, cancel, requeue | `LeavesComplete` |
| `resetTorrentActorAnalysis` | `ResetActorAnalysis` |

The analysis reads the blobs while a requeued session may overwrite them, so
`AnalyseFrames` sees the images of the claim only if nothing was written since.

### ActorCatalog

State: `actors`, the collection (an id is unused, reserved by whoever is about
to insert it, live or deleted; the image its record names, whose it is, whether
it has evidence); `system` and `user`, the two attributions of each torrent;
`blobs`, the profile images; `w`, the worker in `_process` after its analysis;
`req`, the requests of the web application between two commands; `disturbed`, a
history variable: actors on which two operations overlapped or one broke off.

| Code | Action |
|---|---|
| `_process` | `LoadActors`, `Assign` |
| `_persist_identity` | `UploadProfile`, `InsertActor`, `InsertRaises`, `UpdateEvidence` |
| `_improve_system_profile` | `UploadImprovement`, `SwapProfile` (`Unchanged` is its filter), `CleanProfile` |
| `createActor` | `CreateUploads`, `CreateActor`, `CreateConflicts` |
| `updateActor` | `UpdateReads`, `UpdateUploads`, `UpdateActor`, `DeleteImage` |
| `deleteActor` | `DeleteReads`, `DeleteRecord`, `PullFrom`, `RecordGone`, `DeleteImage` |
| `resolveActorIds` and the writes after it | `ResolveActors`, `AttributeActors` |
| an exception, a kill | `WorkerBreaks`, `RequestBreaks` |

Which clusters match which actors is any answer; so is whether an improvement is
worth it. `updateMany` of `deleteActor` is one step per torrent and runs beside
`deleteOne`, as the `Promise.all` has it. Only the worker writes evidence, and
there is one, so its revision check fails exactly when the actor is gone. A
command that raises is taken to have had no effect: a write that was stored but
whose answer was lost would let the handlers delete an image in use.

### VideoCatalog

State: `torrent`, the record with the info hash; `videos`, `tags` and `links`,
the collections; `req`, the requests between two commands. Ids are UUIDs and
given once (`spent`). Five history variables are the hypotheses of the
properties: `saved`, the selection the last edit of a video began to store;
`loose`, videos stored while their torrent was being deleted; `forsaken`,
torrents whose creation or deletion broke off; `stale`, links stored after what
they link was being deleted; `mixed`, videos on which two edits overlapped.

| Code | Action or operator |
|---|---|
| `createVideo` | `CreateReads`, `MakeTorrent`, `CheckVideo`, `ResolveTags`, `StoreVideo`, `ClearTags`, `LinkTag`, `LinkRefused` |
| `updateVideo` | `UpdateStarts`, `ResolveTags`, `EditVideo`, `ClearTags`, `LinkTag`, `LinkRefused` |
| `syncVideoTags` | `ClearTags`, then `LinkTag` or `LinkRefused` (one per tag, in any order) |
| `deleteVideo` | `DeleteReads`, `DropLinks`, `DropVideos`, `DropsDone` (the count), `DropTorrent` |
| `deleteTorrent` | `DeleteTorrentReads`, `ListVideos`, `DropLinks`, `DropVideos`, `DropTorrent` |
| `createTag`, `deleteTag` | `CreateTag`, `DeleteTag`, `UnlinkTag` |
| an exception, a kill | `RequestBreaks` |

The unique indexes (info hash; user and torrent; video and tag) are in
`MakeTorrent`, `StoreVideo` and `LinkRefused`. A link is a plain insert, so of
two overlapping edits that select the same tag the second is refused: its request
answers an error, while its other inserts, which are sent at the same time, still
arrive. An edit that nothing overlapped is never refused a link
(`TagsAreTheSelection`). `RequestBreaks` is the end of a request before they
arrive.

### TorrentCache

State: `lt`, libtorrent's live handle of each info hash, with `asked` and
`alerts`, its pending answers and its one alert queue; `active`
(`_active_torrents`) and `kept` (`_ACTIVE_CACHE_ENTRIES`), which all sessions of
the process share; `disk` and `older`, the cache directory and its order by
modification time; `ses`, the sessions. `shared` and `caught` are history
variables: hashes two sessions had at once, and hashes registered while a prune
already had them on its list.

| Code | Action or operator |
|---|---|
| `_touch_cache_entry`, `_prune_torrent_cache` | `Touch`, `Victims`, `Prune` (one entry) |
| `_download_sync` | `StartDownload`, `AddTorrent`, `AddRaises`, `CollectAlerts`, `DownloadEnds`, `FinishDownload` |
| `_get_active_torrent`, `_retain_active_torrent`, `_take_active_torrent` | `Reused`, `Retain`, `Taken` |
| `_save_resume_data` | `AskResumeData`, `TakeAnswer`, `AnswerTimesOut` |
| `release`, `_remove_torrent`, `_unregister_active_cache_entry` | `Release`, `RemoveTorrent`, `Unregistered` |
| libtorrent | `PieceArrives`, `AnswerResumeData` |
| the process | `WorkerRestarts` |

A session releases its torrent after it has given its claim back: `_finish` and
`_requeue` precede `release_session`, which is in the `finally`. So a torrent
that is claimed again at once has two sessions although the scheduler did
nothing wrong, and `shared` is no exotic case. What can happen then (a handle
removed under its other session, a dead handle retained over a live one) is in
the model; the properties say that nothing of it happens otherwise.

### PreviewSession

State: `pc`, the session's place; `answers` and `payload`, what the metadata
sources said; `active`, `have` and `ranges`, the retained handle, libtorrent's
pieces and the byte ranges asked for; `count`, `downloaded` and `floor`, the
counts the code compares; `clean`, `missing`, `previous` and `rung`, the
candidates of each anchor and the retry ladder; `result` and `outcome`.
`checked` is a history variable: the true progress at the last checkpoint.

| Code | Action or operator |
|---|---|
| `HttpTorrentMetadataResolver`, `fetch` with fallback | `AskResolver`, `AskDht`, `Combined` |
| `parse_torrent`, `_bdecode` | `ParseTorrent`, `Bdecoded` |
| `parse_torrent_metadata`, `select_media_file` | `Usable`, `Selected` |
| `PreviewLayoutBuilder` | `Layout`, `AnchorLayout`, `Merged` |
| requested pieces and their deadlines | `Requested`, `Groups`, `DeadlineOrder` |
| `generate` up to the download | `Begin`, `Wanted` |
| the download loop | `PieceArrives`, `DownloadEnds`, `Waits`, `DownloadRaises` |
| decoding, candidates | `Decode`, `DecodeFails`, `WithFrames` |
| the retry ladder | `Widen`, `WidenEnds`, `Redecode`, `LadderEnds` |
| the selector and its validation | `Select`, `SelectionFails`, `ValidChoice`, `LocalPartial` |
| `_run_session` after a result | `Judge`, `Breaks`, `WorkerStops` |

Wherever the code compares a clock with a budget, either side is possible.
Ratios are rounded as the code rounds them, in millionths. Progress counts in
whole pieces, and only one session is looked at. A candidate beyond the cap of
its anchor is not counted. The branch of `_run_session` for *useful progress* is
not a case of its own: it only decides what free choice already covers. A
payload is bencoded, cut inside a token or something else; the two parsers do
not agree on which are good, and a payload that `parse_torrent` stored and
`parse_torrent_metadata` refuses fails every session of its torrent.

### ActorIdentity

State: `actors`, the exemplars of each, and `assigned`, `systemActorIds` of each
torrent.

| Code | Operator |
|---|---|
| `cluster_observations`, `select_main_clusters` | `Clusters`, `MainClusters` |
| `_match` | `Matches` |
| `_retain_exemplars` | `Retained` |
| `assign` | `Assign`, `Assignment`, the action `Analyse` |
| `evaluate_fixture_partitions` | `FalseMerges`, `Splits`, `Passed` |

An embedding is a point of an arc, a threshold on cosine similarity a largest
distance, a normalised mean the mean point: similarity falls with the distance
and ties are ties, which is what the algorithms look at. The worker drops
clusters without a usable profile face before it assigns; here every main
cluster is assigned.

### Sequencing

The loops, sorts and comprehensions of both: `Folded`, `Sorted`, `Ascending` and
`Passing`. No code of its own.

### Seeded faults

An operator whose name ends in `_Fault` belongs to no specification. It is a
plausible mistake in the definition after it (a dropped filter, a missing reset,
an off-by-one), and `PROJECT.json` names for every property one that makes TLC
find it violated. It shows that the property says something about the code.

## 4. Runs

| Run | Configuration | Shows |
|---|---|---|
| `scheduler_safety` | `MCTorrentScheduler.cfg` | the five invariants, two action properties and the refinement of `FifoQueue` |
| `scheduler_liveness` | `MCTorrentLiveness.cfg` | every torrent is served, orphans are repaired |
| `artifacts_safety` | `MCPreviewArtifacts.cfg` | no dangling reference, frames match the record |
| `actor_queue` | `MCActorAnalysis.cfg` | only the claimed generation is stored, attributions come from the frames shown, every preview is analysed |
| `actor_catalog` | `MCActorCatalog.cfg` | images exist, an administrator's is kept, undisturbed operations leave nothing behind |
| `video_catalog` | `MCVideoCatalog.cfg` | no video without a torrent, no torrent without videos, links resolve and are the selection, users are isolated, but for the overlaps the invariants name |
| `torrent_cache` | `MCTorrentCache.cfg` | everything is released with the slot, a session's handle is live, active entries are not pruned, pruning is LRU |
| `actor_identity` | `MCActorIdentity.cfg` | caps on exemplars, evidence only improves, the evaluation is exact |
| `preview_session` | `MCPreviewSession.cfg` | a plan covers its anchors, waiting is not failed on progress, an outcome is earned |
| `waiting_is_no_failure` | `MCWaitingIsNoFailure.cfg` | violation: an attempt without news counts as a failure |
| `yielded_is_saved` | `MCYieldedIsSaved.cfg` | violation: a session may release a torrent whose resume data went elsewhere |
| `complete_file_ends` | `MCCompleteFileEnds.cfg` | violation: a complete file under target is tried again |

**Bounds of the scheduler runs.** Two torrents are what an order needs, two
sessions what a race needs. `FailureLimit = 2` has a count between zero and the
limit; `Target = 2` (3 in `waiting_is_no_failure`) has a partial result. What the
worker and the clock do by themselves is unbounded. What disturbs them (a web
request, a lease that lapses under a live session, a blob that cannot be
deleted, a stop, a kill, an upgrade) costs a unit of `budget`: `Wide` units when
both torrents start in the queue, `Narrow` when t1 is alone. Three are enough
for a torrent to be requeued under a session, claimed by another and disturbed
again. Web requests go to t1; `Kinds2` bounds what the attempts of t2 end in,
which plays the other torrent. `LeaseCovers = FALSE` in the safety run: the lease
may lapse during an attempt, which `_lease_seconds` makes unlikely but does not
exclude for every setting.

**Bounds of the artifact runs.** Three frames (none, some, all; one to keep and
one to delete), two sessions, two delete requests, the torrent added twice. Once
two writers of the same keys have been alive at once (`overlapped`) the
properties promise nothing more and the run does not go on: the states after it
would be counted and not checked.

**Bounds of the actor runs.** `actor_queue` has two torrents, so that one can
starve the other, two recipes, so that a new release makes results stale, two
attempts, and five processing writes on t1 (`MaxUpdates`): enough to complete,
requeue and complete again under a claim and once more after a second one. t2
makes two (`Updates2`) and competes. Exits of the worker and resets cost a unit
of `Disturbances`. `actor_catalog` has one actor, one torrent, the worker and
two requests, and four uploads: any three of the replacing operations can be
under way at once and one more follow. `View` identifies states that differ only in
what an idle worker last had in hand, which `LoadActors` overwrites. No action relates two actors but through
the ids an analysis or a request holds; the same invariants were checked with
two actors, one request and three uploads. `actor_identity` has three torrents
on which two actors appear, two frames, an arc of four points, where faces can be
alike, near (within a threshold) or apart, two qualities, and caps of three
exemplars per actor and two per torrent. Both caps bite, and since the caps are
apart, an actor can be full while a torrent has one exemplar, so that a
replacement takes an exemplar of the very torrent that is analysed. There are
five analyses (`MaxAnalyses`), of any torrents in any order: three faces in the
first, two in the next two, then one. The third can already replace.

**Bounds of the catalogue run.** Two users, two videos, two torrent ids (one to
delete, one to create again), one tag, two requests. A request breaks off only
while no video was deleted and nothing else has gone wrong: a break only
widens the hypotheses of the properties, and later ones add nothing to check.
`View` drops what a request or a deleted document no longer needs. Ids and
request slots are interchangeable (`SYMMETRY`): no action or property compares
them but for equality, and `CHOOSE` is used on none.

**Bounds of the cache runs.** Two sessions and three torrents, so that a third
entry can be the victim while two are active; a torrent is one unit and the
budget holds one. `MaxHandles = 3` is how many handles of a torrent two sessions
and the table can have, plus one. One answer of libtorrent is on its way at a
time, an entry with resume data is alone in the cache, and one torrent is had
twice: which answer is taken by whom is the subject of `yielded_is_saved`, where
libtorrent answers every request and in time, nothing is pruned, restarted or
shared, and the saved data still goes to the wrong torrent.

**Bounds of the session runs.** `Target = 2` anchors, ranges of 1 byte at an
anchor and 3 at the edges, retries with 3 and 5, two candidates per anchor, two
resolvers and DHT. The payloads (`MCPayloads`) have a file of 16 bytes in six
pieces, one of which no first plan needs, so that there are more than two
deadline groups and a ladder has something to add; a file that starts and ends
within pieces of its neighbours, competing with a larger one; a file of one
byte, where all ranges nest; no video; and what one or both parsers refuse.

Deadlock is not checked: every torrent can be settled and every budget spent.

**Fairness.** `Fairness` in `TorrentScheduler` is weak for claims, repair, the
stale-recipe scan, each session's next step, the clock and the restart of the
process. The scheduler polls in a loop for as long as the process runs
(`PP` `run`), attempts are bounded by `max_time_seconds`, and the process is
restarted by systemd (`apps/vm-worker/README.md`, `Restart=always`). `GiveWay`
is strongly fair: a session's age only grows, so one that keeps reaching its
checkpoint under pressure is past `MMV_PREVIEW_SESSION_FAIRNESS_SECONDS` at one
of them. The web application and crashes are not fair, and no blob store or
resolver is assumed to succeed.

In `ActorAnalysis` the worker's steps, its restart and the passing of a lease are
weakly fair (`run` polls in a loop, the process is restarted); nothing is
assumed of analyses, previews or administrators. `EveryPreviewIsAnalysed`
therefore ends in success, in used-up attempts or with the preview gone.

`EveryTorrentIsServed` excludes one case: a torrent requeued while its own
session is alive is no pressure on that session (`_has_queued_work` excludes its
id), so it waits for as long as the session has no other torrent to give way to.

## 5. Where code and documentation disagree

Each of these is a run that TLC finds violated; `PROJECT.json` has the line and
the quotation.

* `WaitingIsNoFailure`: an attempt that finds no new piece returns a result that
  `PreviewResult` refuses to construct, and so counts as a failure: after
  `preview_failure_limit` sessions the torrent is exhausted for having waited.
* `YieldedIsSaved`: all sessions share one libtorrent alert queue, and
  `_save_resume_data` takes the first answer in it for its own and drops the
  others. One torrent's resume data is stored as another's (libtorrent refuses
  it later), and the other save times out.
* `CompleteFileEnds`: `docs/worker.md` exhausts a torrent that is under target
  with its file complete. The code looks at no such thing and tries again, at
  once, until somebody else needs the slot.

Met while modelling and not run:

* *Queue again* on a running torrent admits a second session. One of the two
  fails and clears the frames, the other then reports success: `complete`
  without frames. After a failed attempt has cleared the frames, a session still
  yields as `partial`, because its snapshot had some; and the second partial
  result of a session is compared with the torrent as claimed, so it may replace
  a better one.
* Frames stored by one attempt of a session and cleared by a failed later one
  are not deleted, now or when the torrent is.
* `deleteTorrentRecord` deletes the blobs after the record: a torrent of the same
  info hash that is added in between can lose the raw payload it refers to, and a
  request that breaks off leaves the blobs.
* A profile image that is uploaded while `deleteActor` runs may be left without an
  actor.
* `deleteActor` pulls the id from the torrents once; the worker's last update
  and `updateVideo` write ids they resolved before, and a deleted actor stays
  attributed.
* Two edits of one video that overlap can select the same tag: the second insert
  of the link fails on the unique index. `createVideo` takes every such error for
  one of the video itself and answers *already in your collection* for a video it
  has just stored (`videos.ts:207`); `updateVideo` fails after its edit is stored.
* `docs/worker.md:43` skips decoding when no piece is new since the previous
  decode checkpoint. The counts compared are of different sets of pieces (those
  of the attempt's own ranges), the checkpoint is also set by an attempt that
  ran out of time before it decoded anything, and after such an attempt the next
  one asks for the whole file without having taken the ladder.
* `docs/worker.md:64` tries every resolver, then DHT. `_bdecode` raises
  `ValueError` on a payload cut inside a token, which `fetch` does not handle:
  the session fails there and then.
* `docs/worker.md` says both that a failed attempt preserves the current
  artifact and that it clears it (the code clears it); cancelling a torrent does
  not stop its session; `insufficient_preview_frames` (`docs/data-model.md`) is
  nowhere in the worker; `docs/actor-identification-plan.md` has rows with a
  stale fingerprint claimed lazily, but one whose attempts are used up is not
  reclaimed for a new recipe, and a discarded result stays `processing` until
  its lease lapses.

## 6. What is proved

Every safety invariant and every action property that a passing run checks, and
the refinement of `FifoQueue`. The eight modules named `...Proofs` prove them with
TLAPS, for all values of the constants that satisfy the modules' assumptions:
any number of torrents, actors, sessions, requests, users, videos, tags and
frames, files and pieces of any size, and unlimited disturbances.

| Assumption | Says |
|---|---|
| `SchedulerAssumption` | ids are in a strict total order, target and limit are positive, a slot is not a torrent |
| `ArtifactAssumption` | target and bound are positive |
| `AnalysisAssumption`, `CacheAssumption`, the two `CatalogAssumption`s | numbers are numbers, the null value is not a torrent or a hash |
| `IdentityAssumption` | distances are natural, caps and bounds positive, and the torrents finitely many (the evaluation counts them) |
| `SessionAssumption` | the constraints `PreviewEngineConfig` and the settings check; `Target`, which is 9 in the code, is positive and below a million, or a ratio of six digits would not tell the last anchors from the end; piece lengths are positive |

| Theorem | States |
|---|---|
| `TypeCorrect` | `TypeOK` |
| `BudgetKept` | `FailureBudget` |
| `OneSessionPerTorrent`, `ClaimIsOwned` | `SoleSession`, `SessionOwnsClaim` |
| `CompleteShowsAll` | `CompleteIsFull` |
| `Inductive` | the conjunction `IInv` |
| `LateWritesDropped`, `FailuresCounted` | the action properties |
| `ImplementsFifo` | every behaviour is one of `FifoQueue` |
| `PreviewArtifactsProofs!TypeCorrect`, `ReferencesExist`, `ImagesDescribed` | `TypeOK`, `NoDanglingReference`, `FramesMatchRecord` |
| `ActorAnalysisProofs!TypeCorrect`, `AssignedCorrectly`, `StaleDiscarded` | `TypeOK`, `AssignedFromShownFrames`, `StaleResultsDiscarded` |
| `ActorCatalogProofs!TypeCorrect`, `ImagesExist`, `AdminsKept`, `LeavesNothing` | `TypeOK`, `ProfileExists`, `AdminImageKept`, `NothingLeftBehind` |
| `VideoCatalogProofs!TypeCorrect`, `TorrentExists`, `OrphansGo`, `LinksAreSound`, `SelectionStands`, `UsersIsolated` | `TypeOK`, `VideoHasTorrent`, `NoOrphanTorrent`, `LinksResolve`, `TagsAreTheSelection`, `OnlyOwnersLink` |
| `VideoCatalogProofs!Inductive` | the conjunction `IInv` |
| `TorrentCacheProofs!TypeCorrect`, `ReleasesAll`, `DownloadsLive`, `SparesActive` | `TypeOK`, `ReleasedWithSlot`, `HandleIsLive`, `ActiveEntryKept` |
| `TorrentCacheProofs!Inductive` | the conjunction `IInv` |
| `TorrentCacheProofs!PrunesLru` | `PrunesLeastRecent` |
| `PreviewSessionProofs!TypeCorrect`, `OutcomeEarned`, `DownloadsSuffice`, `WaitsAreFruitless` | `TypeOK`, `OutcomeIsEarned`, `PlanCovers`, `WaitingHasNoNews` |
| `PreviewSessionProofs!Invariant` | the conjunction `IInv` |
| `ActorIdentityProofs!TypeCorrect`, `CapsHold`, `EvidenceKept`, `EvaluationAgrees` | `TypeOK`, `ExemplarsCapped`, `EvidenceImproves`, `EvaluationIsPartition` |
| `ActorIdentityProofs!Invariant` | the conjunction `Inv` |

**The scheduler's invariant** comes in three layers, each inductive given those
before it. `TypeInv`: types, a slot is idle exactly when it has no torrent, no
session was claimed with a spent budget, `FailureBudget`. The typing of
`failures` is not free: it needs that a claim never starts at the limit, hence
the second layer of the budget. `OwnerInv`: an uncontested torrent has one
session, its document runs, and the session's failure count is the stored one;
the step that matters is `Claim`, which needs that nobody else holds a queued
torrent uncontested. `FullInv`: between `complete()` and `_finish` a successful
session has just stored a full artifact (`SuccessIsStored`), which nobody else
can take away while it is uncontested. The action properties and the refinement
follow from `TypeInv` step by step, one lemma per kind of step.

**The artifacts' invariant** adds to the property: without an overlap the record
has at most one session, its own, and no deletion is past the record
(`SoleWriter`); what that session is about to refer to exists and what it is
about to delete is no longer referred to (`WriterIsSafe`). `ImagesInv` adds
whose images they are: the frames an attempt has put are still its own when it
stores them, since nobody else puts or deletes under those keys.

**The analysis queue's invariant** is about the claim in hand (`ClaimStands`): as
long as `processingUpdatedAt` is the one that was claimed, the torrent is
complete and the analysed images are the ones it shows, because every processing
write moves that stamp; and if it is also still `processing`, nobody has written
to it at all, because everything else (a repair, a reset) leaves `pending`. The
two filters of the last update are exactly the two hypotheses.

**The catalogue's invariant** sorts image numbers. One that was uploaded is
pending with its owner until a record refers to it or the owner deletes it; what
a record refers to or anyone has read is settled, that is, pending with nobody;
what is about to be deleted is settled and not what the record refers to. A
record only ever comes to refer to a pending image, so it never comes to refer
to a doomed one: `ProfileExists` follows without a word on the order in which
requests and worker interleave. `CreatedOnce` (an id that is being inserted is
live for nobody) is what `AdminImageKept` needs besides the filter of
`_improve_system_profile`. `NothingLeftBehind` takes four more conjuncts, all
about actors on which nothing overlapped: one operation at a time has such an
actor (`HeldOnce`), so what it read still stands (`ReadStands`); a deleted one is
attributed only where `deleteActor` has yet to pull (`PullsAll`); and an image no
record refers to is in the hand of who will store or delete it (`NoImageLost`).

**The video catalogue's invariant** says what each request knows between two of
its commands and nobody can have undone. A request that will store a video or
delete one has a torrent id that was given (`SpentInv`, `CreateInv`), and an id
is given once, so what was deleted does not come back under the same name. Past
its check, an edit has one video, of its own user (`EditInv`), from which
`OnlyOwnersLink` follows although the owner was asked several commands earlier.
A deletion has only videos of its torrent, and none of those live once it is
done with them (`DropInv`); while it has yet to delete the torrent, every live
video of that torrent is on its list or was stored after the decision
(`DecidedInv`), which gives `VideoHasTorrent`. Those two and `NoOrphanTorrent`
are part of the conjunction. `LinksResolve` needs that a request that has
deleted a video's links left none but those stored late (`UnlinkedInv`).
`SelectInv` states the selection while it is being written: one request links
at a time, with the tags last selected, the links there are plus those it has
yet to write are these, and of those it has yet to write none is there.

**The torrent client's invariant** is ownership. A torrent that never had two
sessions has one at most (`SoleInv`), so a step of another session touches
neither its handle nor its place in the tables. What the one session's place
says of the handle (`OwnInv`) then carries from step to step: between attempts
libtorrent's handle is the retained one, in an attempt it is the session's, and
what `release()` took from the table is in the session's hand until it is
removed. `ReleasedWithSlot` is the same statement for nobody, and is what the
next session starts from. Separately, an entry that was not already doomed when
it became active is on disk and on no prune's list (`EntryInv`): a list is made
without the active ones, and to become active while listed is to be `caught`.

`PrunesLru` rests on a third invariant (`Recency`): on disk are finitely many
entries, only what is there has a size, and the times of use order the entries.
`Victims` asks of each entry by itself whether the newer ones still exceed the
budget. `CutIsRight` shows that those for which they do are the older part of
the order, that the rest then fits, and that it would not if the last of them
had been spared. That needs that the sum of sizes shrinks with the set, for
which the recursion of the fold that adds them up is derived from its definition.

**The session's invariant** is about what is true at each step. `Sources`: before
a source has sent a torrent there is no handle, no plan and no result.
`Readable`: whatever is downloaded, decoded or selected belongs to a torrent the
engine can read, and the ranges asked for lie in its file. `Counted`: the
counts of the checkpoint are of one moment, and a torrent past its download is
one libtorrent has. `Planned`: the ranges of a download are the layout's, or the
whole file's after a checkpoint; those of a retry are the layout of its rung.
From `Planned`, `PlanCovers` is a fact about the algorithms, and half the module
is about these. Merging (`MergedCovers`) leaves ranges apart that cover all it
was given, because what is merged joins the last one and the order is by start.
So the bytes of an anchor's window, and the pieces they are in, are asked for
(`PlanSound`). The groups deal these pieces out, each to one range (`GroupsDeal`),
and so the deadlines list them, each once (`DeadlinesArrange`), although the first
pieces of the first and the last group are taken out and put before the others.
A retry asks for at least what was asked for, since a window grows with its
length on both sides although it is moved to stay in the file. `OutcomeIsEarned`
needs that the local selection, which takes one eligible candidate of each
anchor in order, and the validation of a model's answer both yield frames of the
pool, one of an anchor, and that a full choice is of all anchors.
`WaitingHasNoNews` follows from `Counted`: a plan has no more complete pieces
than the file, so what equals the checkpoint's count has no piece that is new.

**The index's invariant** puts the caps into the type of the exemplars, so each
loop is shown to keep them. Retention (`KeepIn`) adds while both caps allow it
(`AppendKeeps`) and otherwise replaces the worst by a better one, while the torrent
has not had its share (`ReplaceKeeps`): no quality has fewer than before, and the
share is kept also where the worst is of the same torrent.
An analysis gives no actor twice (`AssignIn`), because a matched one is listed
only if it is not yet and a new one has a new number. `EvaluationAgrees` relates counts to the
partition: a person whose torrents have more than one first actor, or an actor
of more than one person, is a pair of torrents on which the two disagree.

**Loops** are folds, and a function defined by recursion is a `CHOOSE`: nothing
is known of it until some function is shown to satisfy its equation. The
library's induction theorems take an operator as a parameter and cannot be
instantiated here, so induction is done with sets: `Induction` takes the set of
the numbers for which a fact holds and looks at the least one outside it, which
exists since `<` is well-founded on the naturals. `FoldExists` grows the
function by one (`OneMore`), and every loop is then an invariant kept from one
element to the next. Sorting is by rank: `Ranks` shows that in a finite set with a
strict total order every rank belongs to exactly one element, so the `CHOOSE` in
`Sorted` has its witness, and `RankedSequence` that the result is in order. `Folded`,
`Sorted` and `Passing` (module `Sequencing`) are written for that: the prover has
no definition of the library's `SortSeq`, `SelectSeq` and sequence folds. These
lemmas stand in each module that uses them, about the constants of that module;
the components share no constants, so neither extends the other.

Every inductive invariant was also checked with TLC, on the instances of section 4.

## 7. What is only model-checked

Liveness: `EveryTorrentIsServed`, `OrphansAreRepaired` and `EveryPreviewIsAnalysed`.
TLAPS has no rule here for `ENABLED`, hence none for fairness. And the three
violations, which are counterexamples. What the proofs take from TLC is
only where to look: every property that is proved is still checked, with its seeded
fault, on a small instance.

## 8. What is not modelled, and why

* Decoding, face vision, quality scoring, the contact sheet's layout: numeric
  image work in external libraries, no state.
* Authentication and pages: an adapter over a library, and rendering; the state
  changes they call are in `packages/core`.
* Migrations, infrastructure, logging, evaluation harness.
* libtorrent, MongoDB, the blob store, ffmpeg and the language models are
  external: the models use what the code does with their answers, every answer
  being possible.
* Within modelled parts: renaming and listing tags (links refer to ids);
  libtorrent's trackers, listen interfaces and diagnostics (they decide which
  data arrives, and any may); rendering the sheet, except that it can fail.
