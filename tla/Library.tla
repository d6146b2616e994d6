------------------------------- MODULE Library -------------------------------
(* The media library of the control plane (src/src/flowxer/library): uploads *)
(* in chunks, the import directory and the legacy storage make items; a      *)
(* queue of conversion jobs and its workers make the files a format plays;   *)
(* jobs are cancelled, items converted again, deleted and bound to players,  *)
(* the format changes, FFmpeg fails, and the process stops or is killed and  *)
(* resumes.  What the store does under its lock is one step.                 *)
EXTENDS Naturals, Sequences, FiniteSets, SequencesExt

CONSTANTS
  Items,      \* item ids; each is used once
  Formats,    \* the video formats
  Options,    \* conversion options
  Chunks,     \* the chunks of an upload
  Workers,    \* conversion workers
  Clients,    \* API calls that can be in flight
  None,       \* a model value
  MaxEvents   \* bound on format changes, reconversions, stops, kills and errors

ASSUME LibraryAssumption ==
  /\ Formats # {} /\ Options # {} /\ Chunks # {} /\ IsFiniteSet(Items)
  /\ None \notin Items \cup Formats \cup Options
  /\ MaxEvents \in Nat

VARIABLES
  stored,     \* of each id: "none", "stored" (it has an item.json) or "gone"
  source,     \* what made it
  options,    \* its conversion options
  conv,       \* its conversions: status, and the options a ready one was made with
  files,      \* the derived files of each format: the options they were made with
  queue, low, \* the queued jobs <<item, format>>, by priority
  worker,     \* of each worker: where it is, its job, options, cancel event
  doomed,     \* the jobs each deletion has still to cancel
  format,     \* _format_id
  kept,       \* the format in the mixer's state file
  changing,   \* the items a format change still has to look at
  client,     \* the API calls
  bound,      \* the item a clip player uses
  session,    \* the upload session
  content,    \* the chunks whose bytes are in its data file
  writing,    \* the chunks a request is writing
  file,       \* where the file of the import directory is; "lost": deleted
  skipped,    \* the legacy path is remembered as deleted
  intake,     \* the threads that make items
  stop,       \* _stop
  up,         \* the process runs
  maker,      \* (bound) the thread that makes items in this behaviour
  killed,     \* (history) what a stop, a kill or an error left in the middle: threads,
              \* "format", "removal"; "change": a format change that a deletion ended;
              \* "record": the end of a job that could not be written
  events      \* (bound)

item == <<stored, source, options, conv, files>>
waits == <<queue, low, doomed>>
jobs == <<waits, worker>>
upload == <<session, content, writing>>
process == <<stop, up, maker, killed, events>>
rest == <<format, kept, changing, client, bound, file, skipped, intake>>
vars == <<item, jobs, upload, process, rest>>

Jobs == Items \X Formats
Missing == [status |-> "missing", made |-> None, silent |-> FALSE]

\* (Bound: an upload is a stinger, an import a still and a legacy file a clip.)
Kind(i) ==
  CASE source[i] = "upload" -> "stinger" [] source[i] = "import" -> "still" [] OTHER -> "clip"

-----------------------------------------------------------------------------
(* Jobs *)

Running == {"taken", "convert", "sound", "picture", "extra", "finish", "done"}

Queued(j) == Contains(queue, j) \/ Contains(low, j)
IsRunning(j) == \E w \in Workers : worker[w].job = j /\ worker[w].at \in Running
Active(j) == Queued(j) \/ IsRunning(j)

\* ready_on_disk(): a clip has its picture and its sound, a still no sound, and
\* a stinger its sound when the conversion says so.
OnDisk(j) ==
  LET ready == conv[j[1]][j[2]]
      there == files[j[1]][j[2]]
  IN /\ ready.status = "ready"
     /\ there.picture # None
     /\ Kind(j[1]) = "still" \/ ready.silent \/ there.sound # None

\* store.update(): writes nothing when the item is gone.
SetConv(j, to) ==
  conv' = IF stored[j[1]] = "stored" THEN [conv EXCEPT ![j[1]][j[2]] = to] ELSE conv

\* (Bug: an active job of the item stands for one of any format.)
QueuesPerItem(high, slow) ==
  LET new == {j \in high \cup slow : ~\E f \in Formats : Active(<<j[1], f>>)}
  IN /\ queue' = queue \o SetToSeq(new \cap high)
     /\ low' = low \o SetToSeq(new \cap slow)
     /\ conv' = [i \in Items |-> [f \in Formats |->
                   IF <<i, f>> \in new /\ stored[i] = "stored" /\ ~OnDisk(<<i, f>>)
                   THEN [Missing EXCEPT !.status = "queued"] ELSE conv[i][f]]]
     /\ doomed' = [c \in Clients |-> doomed[c] \ new]

\* enqueue(), under the queue's lock: an active job stands for a new one, and a
\* ready conversion stays playable.  The jobs `slow' have the low priority.  A new
\* job has a new id: a deletion that read the one before does not cancel it.
Queues(high, slow) ==
  LET new == {j \in high \cup slow : ~Active(j)}
  IN /\ queue' = queue \o SetToSeq(new \cap high)
     /\ low' = low \o SetToSeq(new \cap slow)
     /\ conv' = [i \in Items |-> [f \in Formats |->
                   IF <<i, f>> \in new /\ stored[i] = "stored" /\ ~OnDisk(<<i, f>>)
                   THEN [Missing EXCEPT !.status = "queued"] ELSE conv[i][f]]]
     /\ doomed' = [c \in Clients |-> doomed[c] \ new]

\* (Bug: the end of a failed job counts for a ready conversion, too.)
SettledAlways(j) == [Missing EXCEPT !.status = "failed"]

\* _settle_item(): a ready conversion is kept.
Settled(j) ==
  IF OnDisk(j) THEN conv[j[1]][j[2]] ELSE [Missing EXCEPT !.status = "failed"]

\* What is left of a queue without j, which is in it once at most.
Without(s, j) ==
  IF Contains(s, j) THEN RemoveAt(s, CHOOSE k \in DOMAIN s : s[k] = j) ELSE s

\* cancel() of an active job: one that is queued ends here, the worker of a running
\* one is told to.
Cancels(j) ==
  /\ IF IsRunning(j) THEN UNCHANGED <<queue, low, conv>>
     ELSE /\ queue' = Without(queue, j) /\ low' = Without(low, j)
          /\ SetConv(j, Settled(j))
  /\ worker' = [w \in Workers |->
                  IF worker[w].job = j /\ worker[w].at \in Running
                  THEN [worker[w] EXCEPT !.cancel = TRUE] ELSE worker[w]]

-----------------------------------------------------------------------------
(* The workers *)

Free == [at |-> "idle", job |-> None, options |-> None, cancel |-> FALSE, silent |-> FALSE]

Moves(w, to) == worker' = [worker EXCEPT ![w].at = to]

\* _next_job(): what an operator queued goes first.
Take(w) ==
  /\ up /\ ~stop /\ worker[w].at = "idle" /\ queue \o low # << >>
  /\ \E j \in Jobs :
       /\ j = Head(queue \o low)
       /\ worker' = [worker EXCEPT ![w] = [Free EXCEPT !.at = "taken", !.job = j]]
  /\ IF queue # << >> THEN queue' = Tail(queue) /\ low' = low
     ELSE low' = Tail(low) /\ queue' = queue
  /\ UNCHANGED <<item, doomed, upload, process, rest>>

\* The item as it is now, marked as converting unless it stays playable; a job of
\* an item that is gone, or whose mark cannot be written, ends.
Begin(w) ==
  LET j == worker[w].job
  IN /\ worker[w].at = "taken"
     /\ \/ /\ stored[j[1]] = "stored"
           /\ worker' = [worker EXCEPT ![w].at = "convert", ![w].options = options[j[1]]]
           /\ SetConv(j, IF OnDisk(j) THEN conv[j[1]][j[2]]
                         ELSE [conv[j[1]][j[2]] EXCEPT !.status = "converting"])
        \/ Moves(w, "settle") /\ UNCHANGED conv
     /\ UNCHANGED <<stored, source, options, files, waits, upload, process, rest>>

\* FFmpeg writes temporary files: it ends, fails or runs out of time; when the job
\* is cancelled or the library stops it is killed.
Converts(w) == ~worker[w].cancel /\ ~stop

Convert(w, kind, to) ==
  /\ worker[w].at = "convert" /\ Kind(worker[w].job[1]) = kind
  /\ \/ Converts(w) /\ Moves(w, to)
     \/ Moves(w, "settle")
  /\ UNCHANGED <<item, waits, upload, process, rest>>

\* Sound that cannot be read becomes silence.
ConvertClip(w) == Convert(w, "clip", "sound")
ConvertStill(w) == Convert(w, "still", "picture")
ConvertStinger(w) == Convert(w, "stinger", "picture")

\* _publish(): a rename; the temporary files went with the item's directory.
Publishes(w, which, value) ==
  LET j == worker[w].job
  IN files' = IF stored[j[1]] = "stored"
              THEN [files EXCEPT ![j[1]][j[2]][which] = value] ELSE files

Published == UNCHANGED <<stored, source, options, conv, waits, upload, process, rest>>

\* (Bug: the sound is published before the picture is made, which may fail.)
PublishSoundEarly(w) ==
  /\ worker[w].at = "sound" /\ Publishes(w, "sound", worker[w].options)
  /\ Moves(w, "picture") \/ Moves(w, "settle")
  /\ Published

\* A clip's sound goes before its picture, or cannot be put in place.
PublishSound(w) ==
  /\ worker[w].at = "sound"
  /\ \/ Publishes(w, "sound", worker[w].options) /\ Moves(w, "picture")
     \/ Moves(w, "settle") /\ UNCHANGED files
  /\ Published

\* A stinger's goes after it, and there may be none.
PublishPicture(w) ==
  /\ worker[w].at = "picture" /\ Publishes(w, "picture", worker[w].options)
  /\ Moves(w, IF Kind(worker[w].job[1]) = "stinger" THEN "extra" ELSE "finish")
  /\ Published

PublishStinger(w) ==
  /\ worker[w].at = "extra"
  /\ \E silent \in BOOLEAN :
       /\ Publishes(w, "sound", IF silent THEN None ELSE worker[w].options)
       /\ worker' = [worker EXCEPT ![w].at = "finish", ![w].silent = silent]
  /\ Published

\* (Bug: the item as it was read is saved, which makes it again.)
FinishSaves(w) ==
  LET j == worker[w].job
  IN /\ worker[w].at = "finish"
     /\ stored' = [stored EXCEPT ![j[1]] = "stored"]
     /\ conv' = [conv EXCEPT ![j[1]][j[2]].status = "ready"]
     /\ Moves(w, "done")
     /\ UNCHANGED <<source, options, files, waits, upload, process, rest>>

\* The conversion is ready, unless the item was deleted meanwhile.
Finish(w) ==
  LET j == worker[w].job
  IN /\ worker[w].at = "finish"
     /\ SetConv(j, [status |-> "ready", made |-> worker[w].options, silent |-> worker[w].silent])
     /\ Moves(w, IF stored[j[1]] = "stored" THEN "done" ELSE "settle")
     /\ UNCHANGED <<stored, source, options, files, waits, upload, process, rest>>

\* The state `done' is set after that, without a lock.
Done(w) ==
  /\ worker[w].at = "done"
  /\ worker' = [worker EXCEPT ![w] = Free]
  /\ UNCHANGED <<item, waits, upload, process, rest>>

\* (Bug: an error ends the worker's thread.)
SettleDies(w) ==
  /\ worker[w].at = "settle"
  /\ IF stop THEN UNCHANGED conv
     ELSE SetConv(worker[w].job, Settled(worker[w].job))
  /\ UNCHANGED <<stored, source, options, files, worker, waits, upload, process, rest>>

\* The end of a failed or cancelled job: a stop leaves it for the next start.
Settle(w) ==
  /\ worker[w].at = "settle"
  /\ IF stop THEN UNCHANGED conv
     ELSE SetConv(worker[w].job, Settled(worker[w].job))
  /\ worker' = [worker EXCEPT ![w] = Free]
  /\ UNCHANGED <<stored, source, options, files, waits, upload, process, rest>>

\* An error of the disk, which leaves `what' in the middle.  (Bound: nothing else
\* of what MaxEvents counts comes after it.)
Errs(what) ==
  /\ events < MaxEvents /\ events' = MaxEvents
  /\ killed' = killed \cup what

\* The end of the job cannot be written: that is only logged.
SettleFails(w) ==
  /\ worker[w].at = "settle" /\ ~stop
  /\ worker' = [worker EXCEPT ![w] = Free] /\ Errs({"record"})
  /\ UNCHANGED <<item, waits, upload, stop, up, maker, rest>>

\* Files are being put in place, or are and item.json does not say so yet.
Between(w) == worker[w].at \in {"picture", "extra", "finish"}

\* An error ends the job there: what is in place by then stays.
WorkFails(w) ==
  /\ Between(w) /\ Moves(w, "settle") /\ Errs({"worker"})
  /\ UNCHANGED <<item, waits, upload, stop, up, maker, rest>>

Work(w) ==
  \/ Take(w) \/ Begin(w) \/ ConvertClip(w) \/ ConvertStill(w) \/ ConvertStinger(w)
  \/ PublishSound(w) \/ PublishPicture(w) \/ PublishStinger(w)
  \/ Finish(w) \/ Done(w) \/ Settle(w) \/ SettleFails(w) \/ WorkFails(w)

-----------------------------------------------------------------------------
(* Calls of the API and the mixer *)

Idle == [at |-> "idle", item |-> None]

Call(c, at, i) ==
  /\ up
  /\ client' = [client EXCEPT ![c] = IF at = "idle" THEN Idle ELSE [at |-> at, item |-> i]]

\* reconvert(): the options are stored, then a job is queued or stands for it.
Reconvert(c, i, o) ==
  /\ client[c] = Idle /\ stored[i] = "stored" /\ events < MaxEvents
  /\ options' = [options EXCEPT ![i] = o] /\ events' = events + 1
  /\ Call(c, "reconvert", i)
  /\ UNCHANGED <<stored, source, conv, files, jobs, upload, stop, up, maker, killed, format, kept,
                 changing, bound, file, skipped, intake>>

ReconvertQueues(c) ==
  /\ client[c].at = "reconvert"
  /\ Queues({<<client[c].item, format>>}, {})
  /\ Call(c, "idle", None)
  /\ UNCHANGED <<stored, source, options, files, worker, upload, process, format, kept, changing,
                 bound, file, skipped, intake>>

\* The cancel route.
CancelJob(c, j) ==
  /\ client[c] = Idle /\ Active(j)
  /\ Cancels(j)
  /\ Call(c, "idle", None)
  /\ UNCHANGED <<doomed, stored, source, options, files, upload, process, format, kept, changing,
                 bound, file, skipped, intake>>

\* delete(): refused while it is used; the jobs it has then are cancelled one by
\* one and waited for, at most for a while, then it is removed.
Delete(c, i) ==
  /\ client[c] = Idle /\ stored[i] = "stored" /\ bound # i
  /\ Call(c, "delete", i)
  /\ UNCHANGED <<item, jobs, upload, process, format, kept, changing, bound, file, skipped, intake>>

DeleteReads(c) ==
  /\ client[c].at = "delete"
  /\ doomed' = [doomed EXCEPT ![c] = {j \in Jobs : j[1] = client[c].item /\ Active(j)}]
  /\ Call(c, "cancel", client[c].item)
  /\ UNCHANGED <<item, queue, low, worker, upload, process, format, kept, changing, bound, file,
                 skipped, intake>>

DeleteCancels(c, j) ==
  /\ up /\ client[c].at = "cancel" /\ j \in doomed[c]
  /\ doomed' = [doomed EXCEPT ![c] = @ \ {j}]
  /\ IF Active(j) THEN Cancels(j) ELSE UNCHANGED <<queue, low, worker, conv>>
  /\ UNCHANGED <<stored, source, options, files, upload, process, rest>>

DeleteRemembers(c) ==
  /\ client[c].at = "cancel" /\ doomed[c] = {}
  /\ skipped' = (skipped \/ source[client[c].item] = "legacy")
  /\ Call(c, "remove", client[c].item)
  /\ UNCHANGED <<item, jobs, upload, process, format, kept, changing, bound, file, intake>>

NoFiles == [f \in Formats |-> [sound |-> None, picture |-> None]]

DeleteRemoves(c) ==
  LET i == client[c].item
  IN /\ client[c].at = "remove"
     /\ stored' = [stored EXCEPT ![i] = "gone"]
     /\ conv' = [conv EXCEPT ![i] = [f \in Formats |-> Missing]]
     /\ files' = [files EXCEPT ![i] = NoFiles]
     /\ Call(c, "idle", None)
     /\ UNCHANGED <<source, options, jobs, upload, process, format, kept, changing, bound, file,
                    skipped, intake>>

\* The items `gone' are no more; of those that are being removed, `half', the
\* files of any format are left (one that lost a file of two plays as little as
\* one without files), and the item as long as its item.json is.
Remain(gone, half) ==
  \E out \in SUBSET half, lost \in SUBSET (half \X Formats) :
    /\ stored' = [i \in Items |-> IF i \in gone \cup out THEN "gone" ELSE stored[i]]
    /\ conv' = [i \in Items |-> IF i \in out THEN [f \in Formats |-> Missing] ELSE conv[i]]
    /\ files' = [i \in Items |->
         IF i \in out THEN NoFiles
         ELSE [f \in Formats |-> IF <<i, f>> \in lost THEN NoFiles[f] ELSE files[i][f]]]

\* The removal of the directory breaks off.
DeleteFails(c) ==
  /\ client[c].at = "remove"
  /\ Remain({}, {client[c].item}) /\ Errs({"removal"})
  /\ Call(c, "idle", None)
  /\ UNCHANGED <<source, options, jobs, upload, stop, up, maker, format, kept, changing, bound,
                 file, skipped, intake>>

\* A clip player gets an item that is there.  (Bound: it keeps that.)
Bind(c, i) ==
  /\ client[c] = Idle /\ stored[i] = "stored" /\ bound = None
  /\ Call(c, "bind", i)
  /\ UNCHANGED <<item, jobs, upload, process, format, kept, changing, bound, file, skipped, intake>>

Binds(c) ==
  /\ client[c].at = "bind"
  /\ bound' = client[c].item
  /\ Call(c, "idle", None)
  /\ UNCHANGED <<item, jobs, upload, process, format, kept, changing, file, skipped, intake>>

\* set_format(), off air: every item that is not ready in it is queued.  One
\* that is deleted meanwhile ends the call.
SetFormat(f) ==
  /\ up /\ events < MaxEvents /\ changing = {} /\ f # format
  /\ format' = f /\ events' = events + 1
  /\ changing' = {i \in Items : stored[i] = "stored"}
  /\ UNCHANGED <<item, jobs, upload, stop, up, maker, killed, kept, client, bound, file, skipped,
                 intake>>

\* Every successful call saves the mixer's state.
KeepFormat ==
  /\ up /\ kept' = format
  /\ UNCHANGED <<item, jobs, upload, process, format, changing, client, bound, file, skipped,
                 intake>>

ConvertAgain(i) ==
  /\ up /\ i \in changing
  /\ IF stored[i] = "stored"
     THEN /\ changing' = changing \ {i}
          /\ Queues(IF OnDisk(<<i, format>>) THEN {} ELSE {<<i, format>>}, {})
          /\ UNCHANGED killed
     ELSE changing' = {} /\ killed' = killed \cup {"change"} /\ UNCHANGED <<waits, conv>>
  /\ UNCHANGED <<stored, source, options, files, worker, upload, stop, up, maker, events, format,
                 kept, client, bound, file, skipped, intake>>

-----------------------------------------------------------------------------
(* Uploads *)

Threads == {"upload", "import", "legacy"}
Resting == [at |-> "idle", item |-> None, format |-> None]

Unused == {i \in Items : stored[i] = "none" /\ \A t \in Threads : intake[t].item # i}

NoSession == [at |-> "none", got |-> {}, item |-> None]

Uploads == UNCHANGED <<item, jobs, process, rest>>

\* (Bound: while there is an id for its item.)
CreateUpload ==
  /\ up /\ maker = "upload" /\ session.at = "none" /\ writing = {} /\ Unused # {}
  /\ session' = [NoSession EXCEPT !.at = "receiving"]
  /\ content' = {} /\ UNCHANGED writing /\ Uploads

\* (Bug: a chunk counts when its bytes begin to arrive.)
ChunkBeginsCounted(k) ==
  /\ up /\ session.at = "receiving" /\ k \notin writing
  /\ writing' = writing \cup {k}
  /\ session' = [session EXCEPT !.got = @ \cup {k}]
  /\ UNCHANGED content /\ Uploads

\* receive_chunk(): the session is looked up, the bytes are streamed into their
\* place, then the chunk counts as received.
ChunkBegins(k) ==
  /\ up /\ session.at = "receiving" /\ k \notin writing
  /\ writing' = writing \cup {k}
  /\ UNCHANGED <<session, content>> /\ Uploads

ChunkEnds(k) ==
  /\ up /\ k \in writing
  /\ writing' = writing \ {k}
  /\ content' = content \cup {k}
  /\ session' = IF session.at = "none" THEN session ELSE [session EXCEPT !.got = @ \cup {k}]
  /\ Uploads

\* The body ends early or is too long.
ChunkFails(k) ==
  /\ up /\ k \in writing
  /\ writing' = writing \ {k}
  /\ UNCHANGED <<session, content>> /\ Uploads

\* An upload nobody touched for long is dropped, unless it is being completed.
Prune ==
  /\ up /\ session.at \in {"receiving", "done"}
  /\ session' = NoSession /\ content' = {}
  /\ UNCHANGED writing /\ Uploads

-----------------------------------------------------------------------------
(* The threads that make items *)

Goes(t, to) == intake' = [intake EXCEPT ![t].at = to]

\* begin_complete(): one request claims the upload; a repeated one is refused or
\* gets the item.
Complete ==
  /\ up /\ session.at = "receiving" /\ session.got = Chunks /\ intake["upload"] = Resting
  /\ session' = [session EXCEPT !.at = "completing"]
  /\ Goes("upload", "claimed")
  /\ UNCHANGED <<content, writing, item, jobs, process, format, kept, changing, client, bound,
                 file, skipped>>

\* A file appears in the import directory, holds still, and is claimed.
Appears ==
  /\ maker = "import" /\ file = "none" /\ file' = "dir"
  /\ UNCHANGED <<item, jobs, upload, process, format, kept, changing, client, bound, skipped,
                 intake>>

Claim ==
  /\ up /\ ~stop /\ file = "dir" /\ intake["import"] = Resting
  /\ file' = "processing"
  /\ Goes("import", "claimed")
  /\ UNCHANGED <<item, jobs, upload, process, format, kept, changing, client, bound, skipped>>

\* import_legacy(): what has an item or was deleted is left alone.  The format
\* is read once, when the import begins.
BeginLegacy ==
  /\ up /\ ~stop /\ maker = "legacy" /\ ~skipped /\ intake["legacy"] = Resting
  /\ \A i \in Items : stored[i] = "stored" => source[i] # "legacy"
  /\ intake' = [intake EXCEPT !["legacy"] = [@ EXCEPT !.at = "claimed", !.format = format]]
  /\ UNCHANGED <<item, jobs, upload, process, format, kept, changing, client, bound, file, skipped>>

\* ingest_path(): the original is moved into the item's directory.
Place(t, i) ==
  /\ up /\ intake[t].at = "claimed" /\ i \in Unused
  /\ intake' = [intake EXCEPT ![t].at = "placed", ![t].item = i]
  /\ file' = IF t = "import" THEN "moved" ELSE file
  /\ UNCHANGED <<item, jobs, upload, process, format, kept, changing, client, bound, skipped>>

\* It is refused: the upload is dropped, the file goes to .failed.
Refuse(t) ==
  /\ up /\ intake[t].at = "claimed" /\ t # "legacy"
  /\ intake' = [intake EXCEPT ![t] = Resting]
  /\ file' = IF t = "import" THEN "failed" ELSE file
  /\ session' = IF t = "upload" THEN NoSession ELSE session
  /\ content' = IF t = "upload" THEN {} ELSE content
  /\ UNCHANGED <<writing, item, jobs, process, format, kept, changing, client, bound, skipped>>

\* An error between the move and item.json: the item's directory is removed, and
\* what was moved there with it.  (Its id is not used again.)
Breaks(t) ==
  /\ up /\ intake[t].at = "placed"
  /\ stored' = [stored EXCEPT ![intake[t].item] = "gone"]
  /\ intake' = [intake EXCEPT ![t] =
       IF t = "legacy" THEN [Resting EXCEPT !.at = "over"] ELSE Resting]
  /\ file' = IF t = "import" THEN "lost" ELSE file
  /\ session' = IF t = "upload" THEN NoSession ELSE session
  /\ content' = IF t = "upload" THEN {} ELSE content
  /\ UNCHANGED <<writing, source, options, conv, files, jobs, process, format, kept, changing,
                 client, bound, skipped>>

\* item.json is written.  (Bound: new items have the same options.)
Save(t) ==
  LET i == intake[t].item
  IN /\ up /\ intake[t].at = "placed"
     /\ stored' = [stored EXCEPT ![i] = "stored"]
     /\ source' = [source EXCEPT ![i] = t]
     /\ options' = [options EXCEPT ![i] = CHOOSE o \in Options : TRUE]
     /\ file' = IF t = "import" THEN "item" ELSE file
     /\ Goes(t, "saved")
     /\ UNCHANGED <<conv, files, jobs, upload, process, format, kept, changing, client, bound,
                    skipped>>

\* Its conversion is queued: for the format there is now, or the one the legacy
\* import began with.  When the item is deleted already, the upload is dropped.
QueueNew(t) ==
  LET i == intake[t].item
      there == stored[i] = "stored"
  IN /\ up /\ intake[t].at = "saved"
     /\ Queues(IF there /\ t # "legacy" THEN {<<i, format>>} ELSE {},
               IF there /\ t = "legacy" THEN {<<i, intake[t].format>>} ELSE {})
     /\ intake' = [intake EXCEPT ![t] =
          CASE t = "upload" /\ there -> [@ EXCEPT !.at = "queued"]
            [] t = "legacy" -> [Resting EXCEPT !.at = "over"]
            [] OTHER -> Resting]
     /\ session' = IF t = "upload" /\ ~there THEN NoSession ELSE session
     /\ UNCHANGED <<stored, source, options, files, worker, content, writing, process, format, kept,
                    changing, client, bound, file, skipped>>

\* finish_complete(): a record stays, so that a retry gets the same item.
FinishUpload ==
  /\ up /\ intake["upload"].at = "queued"
  /\ session' = [session EXCEPT !.at = "done", !.item = intake["upload"].item]
  /\ intake' = [intake EXCEPT !["upload"] = Resting]
  /\ UNCHANGED <<content, writing, item, jobs, process, format, kept, changing, client, bound,
                 file, skipped>>

-----------------------------------------------------------------------------
(* Stop, kill and start *)

\* stop(): the running conversions are killed.
Stop ==
  /\ up /\ ~stop /\ events < MaxEvents
  /\ stop' = TRUE /\ events' = events + 1
  /\ worker' = [w \in Workers |-> [worker[w] EXCEPT !.cancel = worker[w].at \in Running]]
  /\ UNCHANGED <<item, waits, upload, up, maker, killed, rest>>

\* The process ends, stopped or killed, wherever its threads are.
Exit ==
  /\ up /\ (stop \/ events < MaxEvents)
  /\ up' = FALSE /\ stop' = FALSE
  /\ events' = IF stop THEN events ELSE events + 1
  /\ killed' = killed \cup {t \in Threads : intake[t].at \in {"placed", "saved"}}
                  \cup (IF \E w \in Workers : Between(w) THEN {"worker"} ELSE {})
                  \cup (IF \E c \in Clients : client[c].at = "remove" THEN {"removal"} ELSE {})
                  \cup (IF changing # {} \/ kept # format THEN {"format"} ELSE {})
  /\ format' = kept
  /\ queue' = << >> /\ low' = << >> /\ worker' = [w \in Workers |-> Free]
  /\ doomed' = [c \in Clients |-> {}]
  /\ client' = [c \in Clients |-> Idle] /\ changing' = {}
  /\ session' = NoSession /\ content' = {} /\ writing' = {}
  /\ Remain({i \in Items : stored[i] = "none" /\ \E t \in Threads : intake[t].item = i},
            {i \in Items : \E c \in Clients : client[c] = [at |-> "remove", item |-> i]})
  /\ intake' = [t \in Threads |-> Resting]
  /\ UNCHANGED <<source, options, maker, kept, bound, file, skipped>>

\* _resume_pending(): what was cut short or lost its files.
Pending ==
  {i \in Items : /\ stored[i] = "stored"
                 /\ conv[i][format].status \in {"queued", "converting", "ready"}
                 /\ ~OnDisk(<<i, format>>)}

\* start(): what is pending is queued, and what the import directory's file was
\* at is tried again.
Start ==
  LET urgent == {i \in Pending : source[i] # "legacy" /\ conv[i][format].status # "ready"}
  IN /\ ~up /\ up' = TRUE
     /\ Queues({<<i, format>> : i \in urgent}, {<<i, format>> : i \in Pending \ urgent})
     /\ file' = IF file = "processing" THEN "dir" ELSE file
     /\ UNCHANGED <<stored, source, options, files, worker, upload, stop, maker, killed, events,
                    format, kept, changing, client, bound, skipped, intake>>

-----------------------------------------------------------------------------
Init ==
  /\ stored = [i \in Items |-> "none"] /\ source = [i \in Items |-> "none"]
  /\ options = [i \in Items |-> None]
  /\ conv = [i \in Items |-> [f \in Formats |-> Missing]]
  /\ files = [i \in Items |-> NoFiles]
  /\ queue = << >> /\ low = << >> /\ worker = [w \in Workers |-> Free]
  /\ doomed = [c \in Clients |-> {}]
  /\ format = (CHOOSE f \in Formats : TRUE) /\ kept = format
  /\ changing = {} /\ client = [c \in Clients |-> Idle] /\ bound = None
  /\ session = NoSession /\ content = {} /\ writing = {}
  /\ file = "none" /\ skipped = FALSE /\ intake = [t \in Threads |-> Resting]
  /\ stop = FALSE /\ up = TRUE /\ maker \in Threads /\ killed = {} /\ events = 0

Api(c) ==
  \/ ReconvertQueues(c) \/ Binds(c)
  \/ DeleteReads(c) \/ DeleteRemembers(c) \/ DeleteRemoves(c) \/ DeleteFails(c)
  \/ \E i \in Items : Delete(c, i) \/ \E o \in Options : Reconvert(c, i, o)
  \/ \E j \in Jobs : CancelJob(c, j) \/ DeleteCancels(c, j)
  \/ \E i \in Items : Bind(c, i)

Upload ==
  \/ CreateUpload \/ Prune \/ Complete \/ FinishUpload
  \/ \E k \in Chunks : ChunkBegins(k) \/ ChunkEnds(k) \/ ChunkFails(k)

Intake ==
  \/ Appears \/ Claim \/ BeginLegacy
  \/ \E t \in Threads :
       \/ Refuse(t) \/ Breaks(t) \/ Save(t) \/ QueueNew(t)
       \/ \E i \in Items : Place(t, i)

Next ==
  \/ \E w \in Workers : Work(w)
  \/ \E c \in Clients : Api(c)
  \/ \E f \in Formats : SetFormat(f)
  \/ \E i \in Items : ConvertAgain(i)
  \/ KeepFormat
  \/ Upload \/ Intake \/ Stop \/ Exit \/ Start

\* The workers go on, FFmpeg ends (it has a timeout), and a process that ended
\* is started again.
Fairness == (\A w \in Workers : WF_vars(Work(w))) /\ WF_vars(Start) /\ WF_vars(stop /\ Exit)

Spec == Init /\ [][Next]_vars /\ Fairness
-----------------------------------------------------------------------------
(* Properties *)

Statuses == {"missing", "queued", "converting", "ready", "failed"}

\* Every variable keeps its type.
TypeOK ==
  /\ stored \in [Items -> {"none", "stored", "gone"}]
  /\ source \in [Items -> Threads \cup {"none"}]
  /\ options \in [Items -> Options \cup {None}]
  /\ conv \in [Items -> [Formats -> [status : Statuses, made : Options \cup {None},
                                silent : BOOLEAN]]]
  /\ files \in [Items -> [Formats -> [sound : Options \cup {None}, picture : Options \cup {None}]]]
  /\ \A j \in Range(queue \o low) : j \in Jobs
  /\ \A w \in Workers : worker[w].at \in Running \cup {"idle", "settle"}
  /\ doomed \in [Clients -> SUBSET Jobs]
  /\ maker \in Threads /\ {format, kept} \subseteq Formats
  /\ changing \subseteq Items /\ bound \in Items \cup {None}
  /\ session.at \in {"none", "receiving", "completing", "done"} /\ session.got \subseteq Chunks
  /\ content \subseteq Chunks /\ writing \subseteq Chunks
  /\ file \in {"none", "dir", "processing", "moved", "item", "failed", "lost"}
  /\ \A t \in Threads : intake[t].at \in {"idle", "claimed", "placed", "saved", "queued", "over"}

\* The conversion of i for the format of the mixer.
Now(i) == conv[i][format].status

\* No conversion is forgotten: what an item calls queued or converting has a job,
\* whatever was cancelled, failed, stopped or killed, unless a deletion ended a
\* change of format before it came to the item, or a full disk took no record.
ConversionsGoOn ==
  up /\ ~stop /\ {"change", "record"} \cap killed = {} => \A i \in Items \ changing :
    stored[i] = "stored" /\ Now(i) \in {"queued", "converting"}
      => \/ Active(<<i, format>>)
         \/ \E w \in Workers : worker[w].job = <<i, format>> /\ worker[w].at = "settle"

\* Files were left in the middle of being put in place or removed.
TornApart == {"worker", "removal"} \cap killed # {}

\* "A ready conversion stays playable until the new one replaces it": its files
\* are there and of one conversion, whatever became of later jobs, except while
\* one is publishing its files, was killed or failed there, or while the item is
\* half removed.
ReadyPlays ==
  \A i \in Items, f \in Formats :
    LET ready == conv[i][f]
    IN ready.status = "ready" =>
         \/ /\ files[i][f].picture = ready.made
            /\ Kind(i) = "still" \/ files[i][f].sound = IF ready.silent THEN None ELSE ready.made
         \/ TornApart
         \/ \E w \in Workers :
              worker[w].job = <<i, f>> /\ worker[w].at \in {"picture", "extra", "finish"}

\* A worker never brings a deleted item back, nor files of it.
DeletedStays ==
  [][\A i \in Items : stored[i] = "gone" => stored'[i] = "gone" /\ files'[i] = NoFiles]_vars

\* An item that was imported from the legacy storage and deleted is not imported
\* again, also when the process was killed in the middle of the deletion.
LegacyStaysDeleted ==
  (\E i \in Items : source[i] = "legacy" /\ stored[i] = "gone")
    => /\ intake["legacy"].at \notin {"claimed", "placed"}
       /\ \A i \in Items : source[i] = "legacy" => stored[i] # "stored"

\* An upload that is being completed, or is, has the bytes of every chunk,
\* however chunks were retried, cut off or raced with the completion.
UploadsAreWhole == session.at \in {"completing", "done"} => content = Chunks

\* An upload becomes one item: while it is made nobody completes or drops it.
OneItemPerUpload ==
  intake["upload"].at # "idle" => session.at = "completing" /\ session.item = None

\* A file of the import directory is there, being imported, in .failed or an item,
\* unless the process was killed between its move and item.json; an error there
\* deletes it (then it is "lost", see FailedFilesAreKept).
FilesAreKept ==
  /\ up /\ file = "processing" => intake["import"].at = "claimed"
  /\ file = "moved" => "import" \in killed \/ intake["import"].at = "placed"

\* README.md:425: "a file that cannot be imported moves to .failed/".
FailedFilesAreKept == file # "lost"

\* Every new item gets its conversion for the mixer's format, also when that
\* changes meanwhile, unless its thread or a format change was killed before
\* that, a deletion ended a format change, or a legacy import began with another
\* format.
NewItemsConvert ==
  \A i \in Items \ changing :
    /\ stored[i] = "stored" /\ source[i] \notin killed \cup {"legacy"}
    /\ killed \cap {"format", "change"} = {}
    /\ intake[source[i]].item # i
    => Now(i) # "missing"

\* The same without the provisos: "an interrupted run leaves nothing half done".
NothingHalfDone ==
  up => \A i \in Items \ changing :
    stored[i] = "stored" /\ intake[source[i]].item # i => Now(i) # "missing"

\* "409 if in use": what a player uses is in the library.
UsedItemsExist == bound # None => stored[bound] = "stored"

\* When nobody asks for more, every job ends and no item keeps waiting, unless a
\* deletion ended a change of format or a full disk took no record.
JobsEnd ==
  <>[](up /\ ~stop /\ changing = {} /\ \A c \in Clients : client[c] = Idle)
    => <>[](\/ {"change", "record"} \cap killed # {}
            \/ \A i \in Items : stored[i] = "stored" => Now(i) \notin {"queued", "converting"})

\* What the library promises to its players: Playable, with what is ready.
Promised == INSTANCE Playable WITH
  life <- stored,
  plays <- [i \in Items |-> [f \in Formats |->
              IF conv[i][f].status = "ready" THEN conv[i][f].made ELSE None]],
  torn <- TornApart

\* The library keeps that promise: the jobs, the store and the files implement it.
KeepsPromise == Promised!Spec

\* No conversion is forgotten, neither of a new item nor one that was queued.
QueueInv == TypeOK /\ ConversionsGoOn /\ NewItemsConvert

\* What comes in becomes one whole item or, but for a kill or an error after the
\* move, stays where it was or goes to .failed; what was deleted does not come in
\* again.
IntakeInv == LegacyStaysDeleted /\ UploadsAreWhole /\ OneItemPerUpload /\ FilesAreKept
=============================================================================
