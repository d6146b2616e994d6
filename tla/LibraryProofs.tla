---------------------------- MODULE LibraryProofs ----------------------------
(* Theorems about the media library (Library), for any number of items,      *)
(* workers, clients, formats and events.                                     *)
(*                                                                           *)
(* A deleted item stays deleted: what is not stored has no files (Bare), and *)
(* the only step that stores an item, Save, stores one that never was, since *)
(* a placed original is its thread's alone (Placed) and a call deletes only  *)
(* what was stored once (Deleting).                                          *)
(*                                                                           *)
(* IntakeHolds and QueueHolds follow: each has an inductive invariant of its *)
(* own, the queue's over one update of jobs at a time.                       *)
EXTENDS Library, TLAPS, FiniteSetTheorems

\* The steps of a call that deletes.
Deletes == {"delete", "cancel", "remove"}

StoredTyped == stored \in [Items -> {"none", "stored", "gone"}]
FilesTyped == files = [i \in Items |-> files[i]]
FormatTyped == format \in Formats /\ kept \in Formats
ClientTyped ==
  client \in [Clients -> [at : {"idle", "reconvert", "bind"} \cup Deletes,
                         item : Items \cup {None}]]
IntakeTyped ==
  intake \in [Threads -> [at : {"idle", "claimed", "placed", "saved", "queued", "over"},
                          item : Items \cup {None}, format : Formats \cup {None}]]

\* What is not stored has no files.
Bare == \A i \in Items : stored[i] # "stored" => files[i] = NoFiles

\* A placed original has an id that was never used and that no other thread has.
Placed ==
  \A t \in Threads : intake[t].at = "placed" =>
    /\ intake[t].item \in Items /\ stored[intake[t].item] = "none"
    /\ \A u \in Threads \ {t} : intake[u].item # intake[t].item

\* What a call deletes was stored once.
Deleting ==
  \A c \in Clients : client[c].at \in Deletes =>
    client[c].item \in Items /\ stored[client[c].item] # "none"

IInv ==
  /\ StoredTyped /\ FilesTyped /\ FormatTyped /\ ClientTyped /\ IntakeTyped
  /\ Bare /\ Placed /\ Deleting

-----------------------------------------------------------------------------
\* It holds at first.
LEMMA InitInv == Init => IInv
<1> SUFFICES ASSUME Init PROVE IInv
  OBVIOUS
<1>1. StoredTyped /\ FilesTyped /\ Bare
  BY DEF Init, StoredTyped, FilesTyped, Bare
<1>2. FormatTyped
  BY LibraryAssumption DEF Init, FormatTyped
<1>3. ClientTyped /\ Deleting
  BY DEF Init, ClientTyped, Deleting, Deletes, Idle
<1>4. IntakeTyped /\ Placed
  BY DEF Init, IntakeTyped, Placed, Resting
<1> QED BY <1>1, <1>2, <1>3, <1>4 DEF IInv

\* The parts that a step leaves alone.
LEMMA StoreKept ==
  ASSUME IInv, UNCHANGED <<stored, files>>
  PROVE  StoredTyped' /\ FilesTyped' /\ Bare'
BY DEF IInv, StoredTyped, FilesTyped, Bare

LEMMA FormatKept ==
  ASSUME IInv, UNCHANGED <<format, kept>>
  PROVE  FormatTyped'
BY DEF IInv, FormatTyped

LEMMA ClientKept ==
  ASSUME IInv, UNCHANGED <<stored, client>>
  PROVE  ClientTyped' /\ Deleting'
BY DEF IInv, ClientTyped, Deleting

LEMMA IntakeKept ==
  ASSUME IInv, UNCHANGED <<stored, intake>>
  PROVE  IntakeTyped' /\ Placed'
BY DEF IInv, IntakeTyped, Placed

\* A call goes on, ends, or begins to delete what is stored.
LEMMA ClientMoves ==
  ASSUME IInv, stored' = stored, NEW c \in Clients, NEW at, NEW i, Call(c, at, i),
         \/ at = "idle"
         \/ at \in {"reconvert", "bind"} /\ i \in Items
         \/ at \in Deletes /\ i \in Items /\ stored[i] # "none"
  PROVE  ClientTyped' /\ Deleting'
<1> DEFINE new == IF at = "idle" THEN Idle ELSE [at |-> at, item |-> i]
<1>1. client' = [client EXCEPT ![c] = new]
  BY DEF Call
<1>2. /\ new \in [at : {"idle", "reconvert", "bind"} \cup Deletes, item : Items \cup {None}]
      /\ new.at \in Deletes => new.item \in Items /\ stored[new.item] # "none"
  BY DEF Idle, Deletes
<1> HIDE DEF new
<1>3. client \in [Clients -> [at : {"idle", "reconvert", "bind"} \cup Deletes,
                              item : Items \cup {None}]]
  BY DEF IInv, ClientTyped
<1>4. ClientTyped'
  BY <1>1, <1>2, <1>3 DEF ClientTyped
<1>5. \A d \in Clients : client'[d] = IF d = c THEN new ELSE client[d]
  BY <1>1, <1>3
<1>6. Deleting'
  BY <1>2, <1>5 DEF IInv, Deleting
<1> QED BY <1>4, <1>6

\* A thread that makes items goes on without a new item.
LEMMA IntakeMoves ==
  ASSUME IInv, stored' = stored, NEW t \in Threads,
         NEW at \in {"idle", "claimed", "saved", "queued", "over"},
         NEW i \in {intake[t].item, None}, NEW f \in Formats \cup {None},
         intake' = [intake EXCEPT ![t] = [at |-> at, item |-> i, format |-> f]]
  PROVE  IntakeTyped' /\ Placed'
<1> DEFINE Kind1 == [at : {"idle", "claimed", "placed", "saved", "queued", "over"},
                     item : Items \cup {None}, format : Formats \cup {None}]
<1>1. intake \in [Threads -> Kind1]
  BY DEF IInv, IntakeTyped
<1>2. [at |-> at, item |-> i, format |-> f] \in Kind1
  BY <1>1
<1>3. IntakeTyped'
  BY <1>1, <1>2 DEF IntakeTyped
<1>4. \A u \in Threads : intake'[u] = IF u = t THEN [at |-> at, item |-> i, format |-> f]
                                               ELSE intake[u]
  BY <1>1
<1>5. ASSUME NEW u \in Threads, intake'[u].at = "placed"
      PROVE  /\ intake'[u].item \in Items /\ stored'[intake'[u].item] = "none"
             /\ \A v \in Threads \ {u} : intake'[v].item # intake'[u].item
  <2>1. u # t /\ intake'[u] = intake[u]
    BY <1>4, <1>5
  <2>2. /\ intake[u].item \in Items /\ stored[intake[u].item] = "none"
        /\ \A v \in Threads \ {u} : intake[v].item # intake[u].item
    BY <1>5, <2>1 DEF IInv, Placed
  <2>3. ASSUME NEW v \in Threads \ {u} PROVE intake'[v].item # intake'[u].item
    BY <1>4, <2>1, <2>2, LibraryAssumption
  <2> QED BY <2>1, <2>2, <2>3
<1>6. Placed'
  BY <1>5 DEF Placed
<1> QED BY <1>3, <1>6

\* One that only goes to another step.
LEMMA IntakeGoes ==
  ASSUME IInv, stored' = stored, NEW t \in Threads,
         NEW at \in {"idle", "claimed", "saved", "queued", "over"}, Goes(t, at)
  PROVE  IntakeTyped' /\ Placed'
<1>1. /\ intake[t].item \in {intake[t].item, None} /\ intake[t].format \in Formats \cup {None}
      /\ intake' = [intake EXCEPT ![t] = [at |-> at, item |-> intake[t].item,
                                          format |-> intake[t].format]]
  <2>1. intake[t] \in [at : {"idle", "claimed", "placed", "saved", "queued", "over"},
                       item : Items \cup {None}, format : Formats \cup {None}]
    BY DEF IInv, IntakeTyped
  <2>2. [intake[t] EXCEPT !.at = at]
          = [at |-> at, item |-> intake[t].item, format |-> intake[t].format]
    BY <2>1
  <2>3. intake' = [intake EXCEPT ![t] = [intake[t] EXCEPT !.at = at]]
    BY DEF Goes
  <2> QED BY <2>1, <2>2, <2>3
<1> QED BY <1>1, IntakeMoves

-----------------------------------------------------------------------------
\* What a step has to keep.
GoneStays == \A i \in Items : stored[i] = "gone" => stored'[i] = "gone"

\* A step that leaves the store, the calls and the threads that make items alone.
LEMMA Quiet ==
  ASSUME IInv, UNCHANGED <<stored, files, format, kept, client, intake>>
  PROVE  IInv' /\ GoneStays
<1>1. StoredTyped' /\ FilesTyped' /\ Bare' /\ GoneStays
  BY StoreKept DEF GoneStays
<1>2. FormatTyped' /\ ClientTyped' /\ Deleting' /\ IntakeTyped' /\ Placed'
  BY FormatKept, ClientKept, IntakeKept
<1> QED BY <1>1, <1>2 DEF IInv

\* The steps of a worker: files are published for what is stored only.
LEMMA WorkStep ==
  ASSUME IInv, NEW w \in Workers, Work(w)
  PROVE  IInv' /\ GoneStays
<1>1. CASE UNCHANGED <<stored, files, format, kept, client, intake>>
  BY <1>1, Quiet
<1>2. ASSUME NEW which, NEW value, Publishes(w, which, value),
             UNCHANGED <<stored, format, kept, client, intake>>
      PROVE  IInv' /\ GoneStays
  <2>1. FilesTyped'
    BY <1>2 DEF IInv, FilesTyped, Publishes
  <2>2. \A i \in Items : stored[i] # "stored" => files'[i] = files[i]
    BY <1>2 DEF IInv, FilesTyped, Publishes
  <2>3. StoredTyped' /\ Bare' /\ GoneStays
    BY <1>2, <2>2 DEF IInv, StoredTyped, Bare, GoneStays
  <2>4. FormatTyped' /\ ClientTyped' /\ Deleting' /\ IntakeTyped' /\ Placed'
    BY <1>2, FormatKept, ClientKept, IntakeKept
  <2> QED BY <2>1, <2>3, <2>4 DEF IInv
<1>3. CASE Take(w) \/ Begin(w) \/ Finish(w) \/ Done(w) \/ Settle(w) \/ SettleFails(w) \/ WorkFails(w)
  BY <1>1, <1>3 DEF Take, Begin, Finish, Done, Settle, SettleFails, WorkFails, item, upload, process,
                    rest
<1>4. CASE ConvertClip(w) \/ ConvertStill(w) \/ ConvertStinger(w)
  BY <1>1, <1>4 DEF ConvertClip, ConvertStill, ConvertStinger, Convert, item, upload, process, rest
<1>5. CASE PublishSound(w)
  <2>1. UNCHANGED <<stored, format, kept, client, intake>>
    BY <1>5 DEF PublishSound, Published, rest
  <2>2. Publishes(w, "sound", worker[w].options) \/ files' = files
    BY <1>5 DEF PublishSound
  <2> QED BY <1>1, <1>2, <2>1, <2>2
<1>6. CASE PublishPicture(w)
  BY <1>2, <1>6 DEF PublishPicture, Published, rest
<1>7. CASE PublishStinger(w)
  BY <1>2, <1>7 DEF PublishStinger, Published, rest
<1> QED BY <1>3, <1>4, <1>5, <1>6, <1>7 DEF Work

-----------------------------------------------------------------------------
\* A call that leaves the store alone.
LEMMA CallMoves ==
  ASSUME IInv, UNCHANGED <<stored, files, format, kept, intake>>, ClientTyped' /\ Deleting'
  PROVE  IInv' /\ GoneStays
<1>1. StoredTyped' /\ FilesTyped' /\ Bare' /\ GoneStays
  BY StoreKept DEF GoneStays
<1>2. FormatTyped' /\ IntakeTyped' /\ Placed'
  BY FormatKept, IntakeKept
<1> QED BY <1>1, <1>2 DEF IInv

\* What breaks off between steps of the store leaves what is gone without files.
LEMMA RemainKeeps ==
  ASSUME IInv, NEW gone \in SUBSET Items, NEW half \in SUBSET Items, Remain(gone, half),
         \A i \in gone : stored[i] # "stored"
  PROVE  /\ StoredTyped' /\ FilesTyped' /\ Bare' /\ GoneStays
         /\ \A i \in Items : stored'[i] # stored[i] => stored'[i] = "gone" /\ i \in gone \cup half
<1>1. PICK out \in SUBSET half, lost \in SUBSET (half \X Formats) :
        /\ stored' = [i \in Items |-> IF i \in gone \cup out THEN "gone" ELSE stored[i]]
        /\ files' = [i \in Items |->
             IF i \in out THEN NoFiles
             ELSE [f \in Formats |-> IF <<i, f>> \in lost THEN NoFiles[f] ELSE files[i][f]]]
  BY DEF Remain
<1>2. \A i \in Items : stored'[i] = IF i \in gone \cup out THEN "gone" ELSE stored[i]
  BY <1>1
<1>3. StoredTyped' /\ FilesTyped'
  BY <1>1 DEF IInv, StoredTyped, FilesTyped
<1>4. NoFiles' = NoFiles /\ NoFiles = [f \in Formats |-> NoFiles[f]]
  BY DEF NoFiles
<1>5. ASSUME NEW i \in Items, stored'[i] # "stored" PROVE files'[i] = NoFiles'
  <2>1. CASE i \in out
    BY <1>1, <1>4, <2>1
  <2>2. CASE i \notin out
    <3>1. files[i] = NoFiles
      BY <1>2, <1>5, <2>2 DEF IInv, Bare
    <3>2. files'[i] = [f \in Formats |-> NoFiles[f]]
      BY <1>1, <2>2, <3>1
    <3> QED BY <1>4, <3>2
  <2> QED BY <2>1, <2>2
<1> QED BY <1>2, <1>3, <1>5 DEF Bare, GoneStays

\* A removal that breaks off: the item is stored still, or it is gone.
LEMMA FailStep ==
  ASSUME IInv, NEW c \in Clients, DeleteFails(c)
  PROVE  IInv' /\ GoneStays
<1> DEFINE i == client[c].item
<1>1. i \in Items /\ stored[i] # "none"
  BY DEF IInv, Deleting, DeleteFails, Deletes
<1>2. Remain({}, {i}) /\ Call(c, "idle", None) /\ UNCHANGED <<format, kept, intake>>
  BY DEF DeleteFails
<1> HIDE DEF i
<1>3. /\ StoredTyped' /\ FilesTyped' /\ Bare' /\ GoneStays
      /\ \A k \in Items : stored'[k] # stored[k] => stored'[k] = "gone" /\ k = i
  BY <1>1, <1>2, RemainKeeps
<1>4. FormatTyped' /\ IntakeTyped'
  BY <1>2 DEF IInv, FormatTyped, IntakeTyped
<1>5. Placed'
  BY <1>1, <1>2, <1>3 DEF IInv, Placed
<1>6. client' = [client EXCEPT ![c] = Idle]
  BY <1>2 DEF Call
<1>7. ClientTyped'
  BY <1>6 DEF IInv, ClientTyped, Idle
<1>8. Deleting'
  <2>1. \A d \in Clients : client'[d] = IF d = c THEN Idle ELSE client[d]
    BY <1>6 DEF IInv, ClientTyped
  <2>2. Idle.at \notin Deletes
    BY DEF Idle, Deletes
  <2> QED BY <1>3, <2>1, <2>2 DEF IInv, Deleting
<1> QED BY <1>3, <1>4, <1>5, <1>7, <1>8 DEF IInv

\* The removal: what was stored is gone, with its files.
LEMMA RemoveStep ==
  ASSUME IInv, NEW c \in Clients, DeleteRemoves(c)
  PROVE  IInv' /\ GoneStays
<1> DEFINE i == client[c].item
<1>1. i \in Items /\ stored[i] # "none"
  BY DEF IInv, Deleting, DeleteRemoves, Deletes
<1>2. /\ stored' = [stored EXCEPT ![i] = "gone"] /\ files' = [files EXCEPT ![i] = NoFiles]
      /\ Call(c, "idle", None) /\ UNCHANGED <<format, kept, intake>>
  BY DEF DeleteRemoves
<1> HIDE DEF i
<1>3. StoredTyped' /\ FilesTyped'
  BY <1>1, <1>2 DEF IInv, StoredTyped, FilesTyped
<1>4. /\ \A k \in Items : stored'[k] = IF k = i THEN "gone" ELSE stored[k]
      /\ \A k \in Items : files'[k] = IF k = i THEN NoFiles ELSE files[k]
  BY <1>2 DEF IInv, StoredTyped, FilesTyped
<1>5. NoFiles' = NoFiles
  BY DEF NoFiles
<1>6. Bare' /\ GoneStays
  BY <1>4, <1>5 DEF IInv, Bare, GoneStays
<1>7. FormatTyped' /\ IntakeTyped'
  BY <1>2 DEF IInv, FormatTyped, IntakeTyped
<1>8. Placed'
  BY <1>1, <1>2, <1>4 DEF IInv, Placed
<1>9. client' = [client EXCEPT ![c] = Idle]
  BY <1>2 DEF Call
<1>10. ClientTyped'
  BY <1>9 DEF IInv, ClientTyped, Idle
<1>11. Deleting'
  <2>1. \A d \in Clients : client'[d] = IF d = c THEN Idle ELSE client[d]
    BY <1>9 DEF IInv, ClientTyped
  <2>2. Idle.at \notin Deletes
    BY DEF Idle, Deletes
  <2> QED BY <1>4, <2>1, <2>2 DEF IInv, Deleting
<1> QED BY <1>3, <1>6, <1>7, <1>8, <1>10, <1>11 DEF IInv

\* The steps of a call.
LEMMA ApiStep ==
  ASSUME IInv, NEW c \in Clients, Api(c)
  PROVE  IInv' /\ GoneStays
<1>1. CASE ReconvertQueues(c) \/ Binds(c) \/ \E j \in Jobs : CancelJob(c, j)
  <2>1. /\ UNCHANGED <<stored, files, format, kept, intake>>
        /\ Call(c, "idle", None)
    BY <1>1 DEF ReconvertQueues, Binds, CancelJob, item
  <2> QED BY <2>1, ClientMoves, CallMoves
<1>2. CASE \E i \in Items : Bind(c, i) \/ \E o \in Options : Reconvert(c, i, o)
  <2>1. /\ UNCHANGED <<stored, files, format, kept, intake>>
        /\ \E i \in Items, at \in {"reconvert", "bind"} : Call(c, at, i)
    BY <1>2 DEF Bind, Reconvert, item
  <2> QED BY <2>1, ClientMoves, CallMoves
<1>3. ASSUME NEW i \in Items, Delete(c, i) PROVE IInv' /\ GoneStays
  <2>1. /\ UNCHANGED <<stored, files, format, kept, intake>>
        /\ stored[i] # "none" /\ Call(c, "delete", i) /\ "delete" \in Deletes
    BY <1>3 DEF Delete, item, Deletes
  <2> QED BY <2>1, ClientMoves, CallMoves
<1>4. CASE DeleteReads(c) \/ DeleteRemembers(c)
  <2>1. client[c].item \in Items /\ stored[client[c].item] # "none"
    BY <1>4 DEF IInv, Deleting, Deletes, DeleteReads, DeleteRemembers
  <2>2. /\ UNCHANGED <<stored, files, format, kept, intake>>
        /\ \E at \in Deletes : Call(c, at, client[c].item)
    BY <1>4 DEF DeleteReads, DeleteRemembers, item, Deletes
  <2> QED BY <2>1, <2>2, ClientMoves, CallMoves
<1>5. CASE DeleteRemoves(c)
  BY <1>5, RemoveStep
<1>6. CASE \E j \in Jobs : DeleteCancels(c, j)
  BY <1>6, Quiet DEF DeleteCancels, rest
<1>7. CASE DeleteFails(c)
  BY <1>7, FailStep
<1> QED BY <1>1, <1>2, <1>3, <1>4, <1>5, <1>6, <1>7 DEF Api

\* The format changes, or the mixer saves it.
LEMMA FormatStep ==
  ASSUME IInv, KeepFormat \/ \E f \in Formats : SetFormat(f)
  PROVE  IInv' /\ GoneStays
<1>1. UNCHANGED <<stored, files, client, intake>> /\ format' \in Formats /\ kept' \in Formats
  BY DEF IInv, FormatTyped, KeepFormat, SetFormat, item
<1>2. StoredTyped' /\ FilesTyped' /\ Bare' /\ GoneStays
  BY <1>1, StoreKept DEF GoneStays
<1>3. ClientTyped' /\ Deleting' /\ IntakeTyped' /\ Placed'
  BY <1>1, ClientKept, IntakeKept
<1> QED BY <1>1, <1>2, <1>3 DEF IInv, FormatTyped

-----------------------------------------------------------------------------
\* An original gets an id that was never used.
LEMMA PlaceStep ==
  ASSUME IInv, NEW t \in Threads, NEW i \in Items, Place(t, i)
  PROVE  IntakeTyped' /\ Placed'
<1>1. /\ stored' = stored /\ stored[i] = "none" /\ \A u \in Threads : intake[u].item # i
      /\ intake' = [intake EXCEPT ![t].at = "placed", ![t].item = i]
  BY DEF Place, item, Unused
<1>2. intake \in [Threads -> [at : {"idle", "claimed", "placed", "saved", "queued", "over"},
                              item : Items \cup {None}, format : Formats \cup {None}]]
  BY DEF IInv, IntakeTyped
<1>3. /\ \A u \in Threads : u # t => intake'[u] = intake[u]
      /\ intake'[t].item = i
  BY <1>1, <1>2
<1>4. IntakeTyped'
  BY <1>1, <1>2 DEF IntakeTyped
<1>5. Placed'
  <2> SUFFICES ASSUME NEW u \in Threads, intake'[u].at = "placed"
               PROVE  /\ intake'[u].item \in Items /\ stored'[intake'[u].item] = "none"
                      /\ \A v \in Threads \ {u} : intake'[v].item # intake'[u].item
    BY DEF Placed
  <2>1. CASE u = t
    BY <1>1, <1>3, <2>1
  <2>2. CASE u # t
    <3>1. /\ intake[u].item \in Items /\ stored[intake[u].item] = "none"
          /\ \A v \in Threads \ {u} : intake[v].item # intake[u].item
      BY <1>3, <2>2 DEF IInv, Placed
    <3> QED BY <1>1, <1>3, <2>2, <3>1
  <2> QED BY <2>1, <2>2
<1> QED BY <1>4, <1>5

\* item.json is written for an item that never was.
LEMMA SaveStep ==
  ASSUME IInv, NEW t \in Threads, Save(t)
  PROVE  IInv' /\ GoneStays
<1> DEFINE i == intake[t].item
<1>1. /\ i \in Items /\ stored[i] = "none"
      /\ \A u \in Threads \ {t} : intake[u].item # i
  BY DEF IInv, Placed, Save
<1>2. /\ stored' = [stored EXCEPT ![i] = "stored"] /\ Goes(t, "saved")
      /\ UNCHANGED <<files, format, kept, client>>
  BY DEF Save
<1> HIDE DEF i
<1>3. \A k \in Items : stored'[k] = IF k = i THEN "stored" ELSE stored[k]
  BY <1>2 DEF IInv, StoredTyped
<1>4. StoredTyped' /\ FilesTyped' /\ FormatTyped' /\ ClientTyped'
  BY <1>1, <1>2 DEF IInv, StoredTyped, FilesTyped, FormatTyped, ClientTyped
<1>5. NoFiles' = NoFiles
  BY DEF NoFiles
<1>6. Bare' /\ GoneStays /\ Deleting'
  BY <1>1, <1>2, <1>3, <1>5 DEF IInv, Bare, GoneStays, Deleting
<1>7. IntakeTyped'
  BY <1>2 DEF IInv, IntakeTyped, Goes
<1>8. \A u \in Threads : /\ intake'[u].item = intake[u].item
                         /\ u # t => intake'[u] = intake[u]
                         /\ u = t => intake'[u].at = "saved"
  BY <1>2 DEF IInv, IntakeTyped, Goes
<1>9. Placed'
  <2> SUFFICES ASSUME NEW u \in Threads, intake'[u].at = "placed"
               PROVE  /\ intake'[u].item \in Items /\ stored'[intake'[u].item] = "none"
                      /\ \A v \in Threads \ {u} : intake'[v].item # intake'[u].item
    BY DEF Placed
  <2>1. u # t /\ intake[u].at = "placed"
    BY <1>8
  <2>2. /\ intake[u].item \in Items /\ stored[intake[u].item] = "none"
        /\ \A v \in Threads \ {u} : intake[v].item # intake[u].item
    BY <2>1 DEF IInv, Placed
  <2>3. intake[u].item # i
    BY <1>1, <2>1
  <2> QED BY <1>3, <1>8, <2>2, <2>3
<1> QED BY <1>4, <1>6, <1>7, <1>9 DEF IInv

\* An error after the move: what was placed is gone.
LEMMA BreakStep ==
  ASSUME IInv, NEW t \in Threads, Breaks(t)
  PROVE  IInv' /\ GoneStays
<1> DEFINE i == intake[t].item
<1> DEFINE at == IF t = "legacy" THEN "over" ELSE "idle"
<1>1. /\ i \in Items /\ stored[i] = "none"
      /\ \A u \in Threads \ {t} : intake[u].item # i
  BY DEF IInv, Placed, Breaks
<1>2. /\ stored' = [stored EXCEPT ![i] = "gone"]
      /\ UNCHANGED <<files, format, kept, client>>
      /\ intake' = [intake EXCEPT ![t] = IF t = "legacy" THEN [Resting EXCEPT !.at = "over"]
                                        ELSE Resting]
  BY DEF Breaks
<1>3. intake' = [intake EXCEPT ![t] = [at |-> at, item |-> None, format |-> None]]
  <2>1. CASE t = "legacy"
    <3>1. [Resting EXCEPT !.at = "over"] = [at |-> at, item |-> None, format |-> None]
      BY <2>1 DEF Resting
    <3> QED BY <1>2, <2>1, <3>1
  <2>2. CASE t # "legacy"
    <3>1. Resting = [at |-> at, item |-> None, format |-> None]
      BY <2>2 DEF Resting
    <3> QED BY <1>2, <2>2, <3>1
  <2> QED BY <2>1, <2>2
<1>4. at \in {"idle", "over"}
  OBVIOUS
<1> HIDE DEF i, at
<1>5. \A k \in Items : stored'[k] = IF k = i THEN "gone" ELSE stored[k]
  BY <1>2 DEF IInv, StoredTyped
<1>6. StoredTyped' /\ FilesTyped' /\ FormatTyped' /\ ClientTyped'
  BY <1>1, <1>2 DEF IInv, StoredTyped, FilesTyped, FormatTyped, ClientTyped
<1>7. NoFiles' = NoFiles
  BY DEF NoFiles
<1>8. Bare' /\ GoneStays /\ Deleting'
  BY <1>1, <1>2, <1>5, <1>7 DEF IInv, Bare, GoneStays, Deleting
<1>9. IntakeTyped'
  BY <1>3, <1>4 DEF IInv, IntakeTyped
<1>10. \A u \in Threads :
         intake'[u] = IF u = t THEN [at |-> at, item |-> None, format |-> None] ELSE intake[u]
  BY <1>3 DEF IInv, IntakeTyped
<1>11. Placed'
  <2> SUFFICES ASSUME NEW u \in Threads, intake'[u].at = "placed"
               PROVE  /\ intake'[u].item \in Items /\ stored'[intake'[u].item] = "none"
                      /\ \A v \in Threads \ {u} : intake'[v].item # intake'[u].item
    BY DEF Placed
  <2>1. u # t /\ intake'[u] = intake[u]
    BY <1>4, <1>10
  <2>2. /\ intake[u].item \in Items /\ stored[intake[u].item] = "none"
        /\ \A v \in Threads \ {u} : intake[v].item # intake[u].item
    BY <2>1 DEF IInv, Placed
  <2>3. intake[u].item # i
    BY <1>1, <2>1
  <2>4. ASSUME NEW v \in Threads \ {u} PROVE intake'[v].item # intake'[u].item
    BY <1>10, <2>1, <2>2, LibraryAssumption
  <2> QED BY <1>5, <2>1, <2>2, <2>3, <2>4
<1> QED BY <1>6, <1>8, <1>9, <1>11 DEF IInv

\* The other steps of a thread that makes items.
LEMMA IntakeStep ==
  ASSUME IInv, Intake
  PROVE  IInv' /\ GoneStays
<1>1. ASSUME UNCHANGED <<stored, files, format, kept, client>>, IntakeTyped' /\ Placed'
      PROVE  IInv' /\ GoneStays
  <2>1. StoredTyped' /\ FilesTyped' /\ Bare' /\ GoneStays
    BY <1>1, StoreKept DEF GoneStays
  <2>2. FormatTyped' /\ ClientTyped' /\ Deleting'
    BY <1>1, FormatKept, ClientKept
  <2> QED BY <1>1, <2>1, <2>2 DEF IInv
<1>2. CASE Appears
  BY <1>2, Quiet DEF Appears, item
<1>3. CASE Claim
  <2>1. Goes("import", "claimed") /\ "import" \in Threads
        /\ UNCHANGED <<stored, files, format, kept, client>>
    BY <1>3 DEF Claim, item, Threads
  <2> QED BY <1>1, <2>1, IntakeGoes
<1>4. CASE BeginLegacy
  <2>1. /\ "legacy" \in Threads /\ intake["legacy"] = Resting
        /\ intake' = [intake EXCEPT !["legacy"] = [@ EXCEPT !.at = "claimed", !.format = format]]
        /\ UNCHANGED <<stored, files, format, kept, client>>
    BY <1>4 DEF BeginLegacy, item, Threads
  <2>2. intake' = [intake EXCEPT !["legacy"] = [at |-> "claimed", item |-> None, format |-> format]]
    <3> DEFINE new == [Resting EXCEPT !.at = "claimed", !.format = format]
    <3>1. Resting \in [at : {"idle"}, item : {None}, format : Formats \cup {None}]
      BY DEF Resting
    <3>2. new \in [at : {"claimed"}, item : {None}, format : Formats] /\ new.format = format
      BY <3>1 DEF IInv, FormatTyped
    <3> HIDE DEF new
    <3>3. new = [at |-> "claimed", item |-> None, format |-> format]
      BY <3>2
    <3> QED BY <2>1, <3>3 DEF new
  <2>3. format \in Formats \cup {None}
    BY DEF IInv, FormatTyped
  <2>4. IntakeTyped' /\ Placed'
    BY <2>1, <2>2, <2>3, IntakeMoves
  <2> QED BY <1>1, <2>1, <2>4
<1>5. ASSUME NEW t \in Threads, NEW i \in Items, Place(t, i) PROVE IInv' /\ GoneStays
  <2>1. UNCHANGED <<stored, files, format, kept, client>>
    BY <1>5 DEF Place, item
  <2> QED BY <1>1, <1>5, <2>1, PlaceStep
<1>6. ASSUME NEW t \in Threads, Refuse(t) PROVE IInv' /\ GoneStays
  <2>1. /\ UNCHANGED <<stored, files, format, kept, client>>
        /\ intake' = [intake EXCEPT ![t] = [at |-> "idle", item |-> None, format |-> None]]
    BY <1>6 DEF Refuse, item, Resting
  <2>2. IntakeTyped' /\ Placed'
    BY <2>1, IntakeMoves
  <2> QED BY <1>1, <2>1, <2>2
<1>7. ASSUME NEW t \in Threads, Save(t) PROVE IInv' /\ GoneStays
  BY <1>7, SaveStep
<1>8. ASSUME NEW t \in Threads, QueueNew(t) PROVE IInv' /\ GoneStays
  <2>1. UNCHANGED <<stored, files, format, kept, client>>
    BY <1>8 DEF QueueNew
  <2>2. CASE t = "upload" /\ stored[intake[t].item] = "stored"
    <3>1. Goes(t, "queued")
      BY <1>8, <2>2 DEF QueueNew, Goes, IInv, IntakeTyped
    <3> QED BY <1>1, <2>1, <3>1, IntakeGoes
  <2>3. CASE t = "legacy"
    <3>1. intake' = [intake EXCEPT ![t] = [at |-> "over", item |-> None, format |-> None]]
      BY <1>8, <2>3 DEF QueueNew, Resting
    <3>2. IntakeTyped' /\ Placed'
      BY <2>1, <3>1, IntakeMoves
    <3> QED BY <1>1, <2>1, <3>2
  <2>4. CASE t # "legacy" /\ ~(t = "upload" /\ stored[intake[t].item] = "stored")
    <3>1. intake' = [intake EXCEPT ![t] = [at |-> "idle", item |-> None, format |-> None]]
      BY <1>8, <2>4 DEF QueueNew, Resting
    <3>2. IntakeTyped' /\ Placed'
      BY <2>1, <3>1, IntakeMoves
    <3> QED BY <1>1, <2>1, <3>2
  <2> QED BY <2>2, <2>3, <2>4
<1>9. ASSUME NEW t \in Threads, Breaks(t) PROVE IInv' /\ GoneStays
  BY <1>9, BreakStep
<1> QED BY <1>2, <1>3, <1>4, <1>5, <1>6, <1>7, <1>8, <1>9 DEF Intake

\* The steps of an upload.
LEMMA UploadStep ==
  ASSUME IInv, Upload
  PROVE  IInv' /\ GoneStays
<1>1. CASE \/ CreateUpload \/ Prune
           \/ \E k \in Chunks : ChunkBegins(k) \/ ChunkEnds(k) \/ ChunkFails(k)
  <2>1. UNCHANGED <<stored, files, format, kept, client, intake>>
    BY <1>1 DEF CreateUpload, Prune, ChunkBegins, ChunkEnds, ChunkFails, Uploads, item, rest
  <2> QED BY <2>1, Quiet
<1>2. ASSUME IntakeTyped' /\ Placed', UNCHANGED <<stored, files, format, kept, client>>
      PROVE  IInv' /\ GoneStays
  <2>1. StoredTyped' /\ FilesTyped' /\ Bare' /\ GoneStays
    BY <1>2, StoreKept DEF GoneStays
  <2>2. FormatTyped' /\ ClientTyped' /\ Deleting'
    BY <1>2, FormatKept, ClientKept
  <2> QED BY <1>2, <2>1, <2>2 DEF IInv
<1>3. CASE Complete
  <2>1. Goes("upload", "claimed") /\ "upload" \in Threads
        /\ UNCHANGED <<stored, files, format, kept, client>>
    BY <1>3 DEF Complete, item, Threads
  <2> QED BY <1>2, <2>1, IntakeGoes
<1>4. CASE FinishUpload
  <2>1. /\ "upload" \in Threads /\ UNCHANGED <<stored, files, format, kept, client>>
        /\ intake' = [intake EXCEPT !["upload"] = [at |-> "idle", item |-> None, format |-> None]]
    BY <1>4 DEF FinishUpload, item, Resting, Threads
  <2>2. IntakeTyped' /\ Placed'
    BY <2>1, IntakeMoves
  <2> QED BY <1>2, <2>1, <2>2
<1> QED BY <1>1, <1>3, <1>4 DEF Upload

\* The process ends: an original that was not saved yet is never saved.
LEMMA ExitStep ==
  ASSUME IInv, Exit
  PROVE  IInv' /\ GoneStays
<1> DEFINE gone == {i \in Items : stored[i] = "none" /\ \E t \in Threads : intake[t].item = i}
<1> DEFINE half == {i \in Items : \E c \in Clients : client[c] = [at |-> "remove", item |-> i]}
<1>1. /\ format' = kept /\ kept' = kept /\ Remain(gone, half)
      /\ client' = [c \in Clients |-> Idle] /\ intake' = [t \in Threads |-> Resting]
  BY DEF Exit
<1>2. /\ gone \in SUBSET Items /\ half \in SUBSET Items
      /\ \A i \in gone : stored[i] # "stored"
  OBVIOUS
<1> HIDE DEF gone, half
<1>3. StoredTyped' /\ FilesTyped' /\ Bare' /\ GoneStays
  BY <1>1, <1>2, RemainKeeps
<1>4. FormatTyped'
  BY <1>1 DEF IInv, FormatTyped
<1>7. ClientTyped' /\ Deleting'
  BY <1>1 DEF ClientTyped, Deleting, Idle, Deletes
<1>8. IntakeTyped' /\ Placed'
  BY <1>1 DEF IntakeTyped, Placed, Resting
<1> QED BY <1>3, <1>4, <1>7, <1>8 DEF IInv

-----------------------------------------------------------------------------
\* Every step keeps the invariant, and what is gone stays gone.
LEMMA StepKeeps ==
  ASSUME IInv, [Next]_vars
  PROVE  IInv' /\ GoneStays
<1>1. CASE UNCHANGED vars
  BY <1>1, Quiet DEF vars, item, rest
<1>2. CASE Stop \/ Start \/ \E i \in Items : ConvertAgain(i)
  BY <1>2, Quiet DEF Stop, Start, ConvertAgain, item, rest
<1> QED BY <1>1, <1>2, WorkStep, ApiStep, FormatStep, UploadStep, IntakeStep, ExitStep DEF Next

\* A worker, a call or a restart never brings a deleted item back, nor files of it.
THEOREM DeletedIsGone == Spec => DeletedStays
<1>1. IInv /\ [Next]_vars => IInv'
  BY StepKeeps
<1>2. IInv /\ [Next]_vars
        => [\A i \in Items : stored[i] = "gone" => stored'[i] = "gone" /\ files'[i] = NoFiles]_vars
  <2> SUFFICES ASSUME IInv, [Next]_vars, NEW i \in Items, stored[i] = "gone"
               PROVE  stored'[i] = "gone" /\ files'[i] = NoFiles
    OBVIOUS
  <2>1. stored'[i] = "gone" /\ Bare'
    BY StepKeeps DEF GoneStays, IInv
  <2>2. NoFiles' = NoFiles
    BY DEF NoFiles
  <2> QED BY <2>1, <2>2 DEF Bare
<1> QED BY <1>1, <1>2, InitInv, PTL DEF Spec, DeletedStays

-----------------------------------------------------------------------------
(* The library implements what it promises to its players (Playable), with   *)
(* one worker (FLOWXER_CONVERT_CONCURRENCY, 1 unless set).                   *)
(*                                                                           *)
(* A ready conversion has its files, all of one conversion (Ready): what a   *)
(* job publishes step by step is complete again when it ends (Made), and the *)
(* job keeps others of its item and format from being queued or cancelled    *)
(* meanwhile.  So nothing that finds the files missing un-readies it, unless *)
(* a kill or an error left files in the middle (TornApart).                  *)

WorkerFields == {"at", "job", "options", "cancel", "silent"}
ConvFields == {"status", "made", "silent"}
FileFields == {"sound", "picture"}

\* The steps of a job before it knows whether it has sound.
BeforeEnd == {"taken", "convert", "sound", "picture", "extra"}

WorkersShaped ==
  /\ worker = [w \in Workers |-> worker[w]]
  /\ \A w \in Workers :
       /\ worker[w] = [x \in WorkerFields |-> worker[w][x]]
       /\ worker[w].at \in Running \cup {"settle"} => worker[w].job \in Jobs
       /\ worker[w].at \in BeforeEnd => worker[w].silent = FALSE
ConvShaped ==
  /\ conv = [i \in Items |-> [f \in Formats |-> conv[i][f]]]
  /\ \A i \in Items, f \in Formats : conv[i][f] = [x \in ConvFields |-> conv[i][f][x]]
FilesShaped ==
  /\ files = [i \in Items |-> [f \in Formats |-> files[i][f]]]
  /\ \A i \in Items, f \in Formats : files[i][f] = [x \in FileFields |-> files[i][f][x]]
OptionsKnown ==
  /\ options = [i \in Items |-> options[i]]
  /\ source = [i \in Items |-> source[i]]
  /\ \A i \in Items : stored[i] = "stored" => options[i] \in Options

\* The steps of a job that has its item.
Making == {"convert", "sound", "picture", "extra", "finish"}

\* What the job of w has published: files of its options.
Partly(w, there, kind) ==
  /\ worker[w].at = "picture" /\ kind = "clip" => there.sound = worker[w].options
  /\ worker[w].at \in {"extra", "finish"} => there.picture = worker[w].options
  /\ worker[w].at = "finish" =>
       kind = "still" \/ there.sound = IF worker[w].silent = TRUE THEN None ELSE worker[w].options

Made ==
  \A w \in Workers, i \in Items, f \in Formats :
    worker[w].at \in Making /\ worker[w].job = <<i, f>> =>
      /\ stored[i] # "none"
      /\ stored[i] = "stored" =>
           /\ worker[w].options \in Options
           /\ TornApart \/ Partly(w, files[i][f], Kind(i))

\* A ready conversion has its files, all of one conversion, unless a job is putting
\* new ones in place or files were left in the middle.
Ending == {"picture", "extra", "finish"}
Finishing(i, f) == \E w \in Workers : worker[w].job = <<i, f>> /\ worker[w].at \in Ending
There(i, f) ==
  LET ready == conv[i][f]
  IN /\ ready.made # None /\ files[i][f].picture = ready.made
     /\ Kind(i) = "still" \/ files[i][f].sound = IF ready.silent = TRUE THEN None ELSE ready.made
Ready ==
  \A i \in Items, f \in Formats :
    stored[i] = "stored" /\ conv[i][f].status = "ready" => There(i, f) \/ TornApart \/ Finishing(i, f)

\* What is not stored is not ready.
Unready == \A i \in Items, f \in Formats : stored[i] # "stored" => conv[i][f].status # "ready"

Shapes == WorkersShaped /\ ConvShaped /\ FilesShaped /\ OptionsKnown
PInv == IInv /\ Shapes /\ Made /\ Ready /\ Unready

-----------------------------------------------------------------------------
LEMMA OnDiskIs ==
  ASSUME NEW i \in Items, NEW f \in Formats
  PROVE  conv[i][f].status = "ready" /\ There(i, f) => OnDisk(<<i, f>>)
BY DEF OnDisk, There

LEMMA PInit == Init => PInv
<1> SUFFICES ASSUME Init PROVE PInv
  OBVIOUS
<1>1. IInv
  BY InitInv
<1>2. WorkersShaped /\ ConvShaped /\ FilesShaped
  <2>1. ConvShaped /\ FilesShaped
    BY DEF Init, ConvShaped, FilesShaped, Missing, NoFiles, ConvFields, FileFields
  <2>2. WorkersShaped
    BY DEF Init, WorkersShaped, Free, WorkerFields, Running, BeforeEnd
  <2> QED BY <2>1, <2>2
<1>3. OptionsKnown /\ Made /\ Ready /\ Unready
  BY DEF Init, OptionsKnown, Made, Ready, Unready, Making, Free, Missing
<1> QED BY <1>1, <1>2, <1>3 DEF PInv, Shapes

-----------------------------------------------------------------------------
(* Steps by what they change *)

\* The workers keep their jobs and are where they were.
SameJobs ==
  \A w \in Workers : /\ worker'[w].at = worker[w].at /\ worker'[w].job = worker[w].job
                     /\ worker'[w].options = worker[w].options
                     /\ worker'[w].silent = worker[w].silent

LEMMA SameWork ==
  ASSUME PInv, WorkersShaped',
         SameJobs,
         UNCHANGED <<stored, source, options, files, killed>>
  PROVE  /\ WorkersShaped' /\ FilesShaped' /\ OptionsKnown' /\ Made'
         /\ TornApart' = TornApart
         /\ \A i \in Items, f \in Formats : Finishing(i, f)' <=> Finishing(i, f)
<1>1. FilesShaped' /\ OptionsKnown'
  BY DEF PInv, Shapes, FilesShaped, OptionsKnown
<1>2. Made'
  BY DEF PInv, Made, Partly, Kind, SameJobs, TornApart
<1>3. \A i \in Items, f \in Formats : Finishing(i, f)' <=> Finishing(i, f)
  BY DEF Finishing, SameJobs
<1> QED BY <1>1, <1>2, <1>3 DEF TornApart

\* Conversions that change lose what was not there.
Loses ==
  \A i \in Items, f \in Formats :
    \/ conv'[i][f] = conv[i][f]
    \/ stored[i] = "stored" /\ conv'[i][f].status # "ready"
       /\ (conv[i][f].status # "ready" \/ TornApart)

\* A ready conversion whose files are not there, and that nobody is finishing.
LEMMA LostIsTorn ==
  ASSUME PInv, NEW i \in Items, NEW f \in Formats,
         stored[i] = "stored", ~OnDisk(<<i, f>>), ~Finishing(i, f)
  PROVE  conv[i][f].status # "ready" \/ TornApart
BY OnDiskIs DEF PInv, Ready

LEMMA LosesKeeps ==
  ASSUME PInv, Loses, ConvShaped', WorkersShaped', IInv',
         SameJobs,
         UNCHANGED <<stored, source, options, files, killed>>
  PROVE  PInv'
<1>1. /\ FilesShaped' /\ OptionsKnown' /\ Made' /\ TornApart' = TornApart
      /\ \A i \in Items, f \in Formats : Finishing(i, f)' <=> Finishing(i, f)
  BY SameWork
<1>2. \A i \in Items : Kind(i)' = Kind(i)
  BY DEF Kind
<1>3. Ready'
  <2> SUFFICES ASSUME NEW i \in Items, NEW f \in Formats, stored[i] = "stored",
                      conv'[i][f].status = "ready"
               PROVE  There(i, f)' \/ TornApart \/ Finishing(i, f)
    BY <1>1 DEF Ready
  <2>1. conv'[i][f] = conv[i][f]
    BY DEF Loses
  <2> QED BY <1>2, <2>1 DEF PInv, Ready, There
<1>4. Unready'
  BY DEF Loses, PInv, Unready
<1> QED BY <1>1, <1>3, <1>4 DEF PInv, Shapes

\* One conversion is replaced: as it is written, and what that means.
Sets(a, b, to) == conv' = [conv EXCEPT ![a][b] = to]
IsSet(a, b, to) ==
  /\ conv' = [i \in Items |-> [f \in Formats |-> conv'[i][f]]]
  /\ \A i \in Items, f \in Formats :
       conv'[i][f] = IF i = a /\ f = b THEN to ELSE conv[i][f]

LEMMA SetIn == ASSUME PInv, NEW a, NEW b, NEW to, Sets(a, b, to) PROVE IsSet(a, b, to)
<1>1. conv = [i \in Items |-> [f \in Formats |-> conv[i][f]]]
  BY DEF PInv, Shapes, ConvShaped
<1> USE DEF Sets, IsSet
<1>2. DOMAIN conv = Items /\ \A i \in Items : conv[i] = [f \in Formats |-> conv[i][f]]
  BY <1>1
<1>3. conv' = [i \in Items |-> IF i = a THEN [conv[i] EXCEPT ![b] = to] ELSE conv[i]]
  BY <1>2
<1>4. \A i \in Items : conv'[i] = [f \in Formats |-> IF i = a /\ f = b THEN to ELSE conv[i][f]]
  <2> SUFFICES ASSUME NEW i \in Items
               PROVE  conv'[i] = [f \in Formats |-> IF i = a /\ f = b THEN to ELSE conv[i][f]]
    OBVIOUS
  <2>1. CASE i = a
    BY <1>2, <1>3, <2>1
  <2>2. CASE i # a
    BY <1>2, <1>3, <2>2
  <2> QED BY <2>1, <2>2
<1>5. conv' = [i \in Items |-> conv'[i]]
  BY <1>3
<1>6. ASSUME NEW i \in Items
      PROVE  /\ conv'[i] = [f \in Formats |-> conv'[i][f]]
             /\ \A f \in Formats : conv'[i][f] = IF i = a /\ f = b THEN to ELSE conv[i][f]
  <2>1. conv'[i] = [f \in Formats |-> IF i = a /\ f = b THEN to ELSE conv[i][f]]
    BY <1>4
  <2> QED BY <2>1
<1> QED BY <1>5, <1>6

\* Conversions are replaced by a new one, or kept.
LEMMA ConvKeeps ==
  ASSUME PInv, NEW new, new = [x \in ConvFields |-> new[x]],
         conv' = [i \in Items |-> [f \in Formats |-> conv'[i][f]]],
         \A i \in Items, f \in Formats : conv'[i][f] = conv[i][f] \/ conv'[i][f] = new
  PROVE  ConvShaped'
<1> SUFFICES ASSUME NEW i \in Items, NEW f \in Formats
             PROVE  conv'[i][f] = [x \in ConvFields |-> conv'[i][f][x]]
  BY DEF ConvShaped
<1>1. conv[i][f] = [x \in ConvFields |-> conv[i][f][x]]
  BY DEF PInv, Shapes, ConvShaped
<1>2. CASE conv'[i][f] = conv[i][f]
  BY <1>1, <1>2
<1>3. CASE conv'[i][f] = new
  BY <1>3
<1> QED BY <1>2, <1>3

\* A job is queued only where none is active.
LEMMA QueuesLose ==
  ASSUME PInv, NEW high, NEW slow, Queues(high, slow)
  PROVE  ConvShaped' /\ Loses
<1> DEFINE new == {j \in high \cup slow : ~Active(j)}
           again == [Missing EXCEPT !.status = "queued"]
<1>1. conv' = [i \in Items |-> [f \in Formats |->
                 IF <<i, f>> \in new /\ stored[i] = "stored" /\ ~OnDisk(<<i, f>>)
                 THEN again ELSE conv[i][f]]]
  BY DEF Queues
<1>2. \A i \in Items, f \in Formats : <<i, f>> \in new => ~Finishing(i, f)
  BY DEF Active, IsRunning, Finishing, Running, Ending
<1>3. again.status = "queued" /\ again = [x \in ConvFields |-> again[x]]
  BY DEF Missing, ConvFields
<1> HIDE DEF new, again
<1>4. \A i \in Items, f \in Formats :
        \/ conv'[i][f] = conv[i][f]
        \/ /\ conv'[i][f] = again /\ stored[i] = "stored"
           /\ ~OnDisk(<<i, f>>) /\ ~Finishing(i, f)
  BY <1>1, <1>2
<1>5. ConvShaped'
  <2>1. conv' = [i \in Items |-> [f \in Formats |-> conv'[i][f]]]
    BY <1>1
  <2> QED BY <1>3, <1>4, <2>1, ConvKeeps
<1>6. Loses
  BY <1>3, <1>4, LostIsTorn DEF Loses
<1> QED BY <1>5, <1>6

\* A job begins, fails or is cancelled, and nobody is finishing it.
LEMMA SetConvLoses ==
  ASSUME PInv, NEW j, NEW to, SetConv(j, IF OnDisk(j) THEN conv[j[1]][j[2]] ELSE to),
         \A i \in Items, f \in Formats : i = j[1] /\ f = j[2] => ~Finishing(i, f),
         to.status # "ready", to = [x \in ConvFields |-> to[x]]
  PROVE  ConvShaped' /\ Loses
<1> DEFINE value == IF OnDisk(j) THEN conv[j[1]][j[2]] ELSE to
<1>2. CASE conv' = conv
  BY <1>2 DEF Loses, PInv, Shapes, ConvShaped
<1>3. CASE stored[j[1]] = "stored" /\ conv' = [conv EXCEPT ![j[1]][j[2]] = value]
  <2>1. /\ conv' = [i \in Items |-> [f \in Formats |-> conv'[i][f]]]
        /\ \A i \in Items, f \in Formats :
             conv'[i][f] = IF i = j[1] /\ f = j[2] THEN value ELSE conv[i][f]
    <3>1. PICK v : v = value
      OBVIOUS
    <3> HIDE DEF value
    <3>2. Sets(j[1], j[2], v)
      BY <1>3, <3>1 DEF Sets
    <3>3. IsSet(j[1], j[2], v)
      BY <3>2, SetIn
    <3> QED BY <3>1, <3>3 DEF IsSet
  <2>2. ASSUME NEW i \in Items, NEW f \in Formats, conv'[i][f] # conv[i][f]
        PROVE  /\ conv'[i][f] = to /\ stored[i] = "stored"
               /\ ~OnDisk(<<i, f>>) /\ ~Finishing(i, f)
    <3>1. i = j[1] /\ f = j[2] /\ value # conv[i][f] /\ conv'[i][f] = value
      <4> HIDE DEF value
      <4> QED BY <2>1, <2>2
    <3>2. ~OnDisk(j) /\ value = to
      BY <3>1
    <3>3. ~OnDisk(<<i, f>>)
      BY <3>1, <3>2 DEF OnDisk
    <3> QED BY <1>3, <3>1, <3>2, <3>3
  <2> HIDE DEF value
  <2>3. ConvShaped'
    BY <2>1, <2>2, ConvKeeps
  <2>4. Loses
    BY <2>2, LostIsTorn DEF Loses
  <2> QED BY <2>3, <2>4
<1> QED BY <1>2, <1>3 DEF SetConv

\* A job that waits is cancelled.
LEMMA CancelsLose ==
  ASSUME PInv, NEW j \in Jobs, Cancels(j)
  PROVE  /\ ConvShaped' /\ Loses /\ WorkersShaped'
         /\ SameJobs
<1> DEFINE end == [Missing EXCEPT !.status = "failed"]
<1>1. /\ \/ conv' = conv
         \/ ~IsRunning(j) /\ SetConv(j, IF OnDisk(j) THEN conv[j[1]][j[2]] ELSE end)
      /\ worker' = [w \in Workers |->
                      IF worker[w].job = j /\ worker[w].at \in Running
                      THEN [worker[w] EXCEPT !.cancel = TRUE] ELSE worker[w]]
  BY DEF Cancels, Settled
<1>2. end.status # "ready" /\ end = [x \in ConvFields |-> end[x]]
  BY DEF Missing, ConvFields
<1>3. ASSUME ~IsRunning(j), NEW i \in Items, NEW f \in Formats, i = j[1] /\ f = j[2]
      PROVE  ~Finishing(i, f)
  <2>1. <<i, f>> = j
    BY <1>3 DEF Jobs
  <2> QED BY <1>3, <2>1 DEF IsRunning, Finishing, Running, Ending
<1>5. ConvShaped' /\ Loses
  <2>1. CASE conv' = conv
    BY <2>1 DEF Loses, PInv, Shapes, ConvShaped
  <2>2. CASE ~IsRunning(j) /\ SetConv(j, IF OnDisk(j) THEN conv[j[1]][j[2]] ELSE end)
    <3> HIDE DEF end
    <3> QED BY <1>2, <1>3, <2>2, SetConvLoses
  <2> QED BY <1>1, <2>1, <2>2
<1>7. \A w \in Workers :
        /\ worker'[w].at = worker[w].at /\ worker'[w].job = worker[w].job
        /\ worker'[w].options = worker[w].options /\ worker'[w].silent = worker[w].silent
        /\ worker'[w] = [x \in WorkerFields |-> worker'[w][x]]
        /\ worker'[w].at \in Running \cup {"settle"} => worker'[w].job \in Jobs
        /\ worker'[w].at \in BeforeEnd => worker'[w].silent = FALSE
  BY <1>1 DEF PInv, Shapes, WorkersShaped, WorkerFields
<1>8. WorkersShaped'
  BY <1>1, <1>7 DEF WorkersShaped, Jobs, Running, BeforeEnd
<1> QED BY <1>5, <1>7, <1>8 DEF SameJobs

-----------------------------------------------------------------------------
(* What the steps do to the promise *)

Promises == [Promised!Next]_(Promised!vars)
Plays(i, f) == IF conv[i][f].status = "ready" THEN conv[i][f].made ELSE None

LEMMA Stutters ==
  ASSUME stored' = stored, TornApart' = TornApart,
         \A i \in Items, f \in Formats : Plays(i, f)' = Plays(i, f)
  PROVE  Promises
<1>1. Promised!vars = <<stored, [i \in Items |-> [f \in Formats |-> Plays(i, f)]], TornApart>>
  BY DEF Promised!vars, Plays, TornApart
<1>2. Promised!vars'
        = <<stored', [i \in Items |-> [f \in Formats |-> Plays(i, f)']], TornApart'>>
  BY DEF Promised!vars, Plays, TornApart
<1>3. [i \in Items |-> [f \in Formats |-> Plays(i, f)']]
        = [i \in Items |-> [f \in Formats |-> Plays(i, f)]]
  OBVIOUS
<1> QED BY <1>1, <1>2, <1>3 DEF Promises, TornApart

LEMMA LosesPromised ==
  ASSUME Loses, UNCHANGED <<stored, killed>>
  PROVE  Promises
<1>1. CASE ~TornApart
  <2>1. \A i \in Items, f \in Formats : Plays(i, f)' = Plays(i, f)
    BY <1>1 DEF Loses, Plays
  <2> QED BY <2>1, Stutters DEF TornApart
<1>2. CASE TornApart
  <2>2. PICK L \in SUBSET (Items \X Formats) :
               \A i \in Items, f \in Formats : <<i, f>> \in L <=> conv'[i][f] # conv[i][f]
    <3> WITNESS {j \in Items \X Formats : conv'[j[1]][j[2]] # conv[j[1]][j[2]]}
                  \in SUBSET (Items \X Formats)
    <3> QED OBVIOUS
  <2>1. \A i \in Items, f \in Formats :
          Plays(i, f)' = IF <<i, f>> \in L THEN None ELSE Plays(i, f)
    BY <2>2 DEF Loses, Plays
  <2>3. [i \in Items |-> [f \in Formats |-> Plays(i, f)']]
          = [i \in Items |-> [f \in Formats |->
               IF <<i, f>> \in L THEN None ELSE Plays(i, f)]]
    BY <2>1
  <2>4. Promised!Lose(L)
    <3>1. \A i \in Items, f \in Formats :
            [k \in Items |-> [g \in Formats |-> Plays(k, g)]][i][f] = Plays(i, f)
      OBVIOUS
    <3>2. [i \in Items |-> [f \in Formats |->
             IF <<i, f>> \in L THEN None ELSE Plays(i, f)]]
            = [i \in Items |-> [f \in Formats |->
                 IF <<i, f>> \in L THEN None
                 ELSE [k \in Items |-> [g \in Formats |-> Plays(k, g)]][i][f]]]
      BY <3>1
    <3> QED BY <1>2, <2>3, <3>2 DEF Promised!Lose, Plays, TornApart
  <2> QED BY <2>2, <2>4 DEF Promised!Next, Promises
<1> QED BY <1>1, <1>2

-----------------------------------------------------------------------------
(* Steps that keep the files and where the workers are *)

LEMMA LoseStep ==
  ASSUME PInv, IInv', Loses, ConvShaped', WorkersShaped', SameJobs,
         UNCHANGED <<stored, source, options, files, killed>>
  PROVE  PInv' /\ Promises
BY LosesKeeps, LosesPromised

LEMMA QuietStep ==
  ASSUME PInv, IInv', UNCHANGED <<stored, source, options, conv, files, worker, killed>>
  PROVE  PInv' /\ Promises
<1>1. Loses /\ SameJobs
  BY DEF Loses, SameJobs
<1>2. ConvShaped' /\ WorkersShaped'
  BY DEF PInv, Shapes, ConvShaped, WorkersShaped
<1> QED BY <1>1, <1>2, LoseStep

LEMMA QueueStep ==
  ASSUME PInv, IInv', \E high, slow : Queues(high, slow),
         UNCHANGED <<stored, source, options, files, worker, killed>>
  PROVE  PInv' /\ Promises
<1>1. ConvShaped' /\ Loses
  BY QueuesLose
<1>2. SameJobs /\ WorkersShaped'
  BY DEF PInv, Shapes, WorkersShaped, SameJobs
<1> QED BY <1>1, <1>2, LoseStep

LEMMA CancelStep ==
  ASSUME PInv, IInv', \E j \in Jobs : Cancels(j),
         UNCHANGED <<stored, source, options, files, killed>>
  PROVE  PInv' /\ Promises
BY CancelsLose, LoseStep

LEMMA StopStep ==
  ASSUME PInv, IInv', Stop
  PROVE  PInv' /\ Promises
<1>1. /\ UNCHANGED <<stored, source, options, conv, files, killed>>
      /\ worker' = [w \in Workers |-> [worker[w] EXCEPT !.cancel = worker[w].at \in Running]]
  BY DEF Stop, item
<1>2. ASSUME NEW w \in Workers
      PROVE  /\ worker'[w] = [x \in WorkerFields |-> worker'[w][x]]
             /\ worker'[w].at = worker[w].at /\ worker'[w].job = worker[w].job
             /\ worker'[w].options = worker[w].options /\ worker'[w].silent = worker[w].silent
             /\ worker'[w].at \in Running \cup {"settle"} => worker'[w].job \in Jobs
             /\ worker'[w].at \in BeforeEnd => worker'[w].silent = FALSE
  BY <1>1 DEF PInv, Shapes, WorkersShaped, WorkerFields
<1>3. SameJobs /\ WorkersShaped'
  BY <1>1, <1>2 DEF SameJobs, WorkersShaped, Jobs, Running, BeforeEnd
<1>4. Loses /\ ConvShaped'
  BY <1>1 DEF Loses, PInv, Shapes, ConvShaped
<1> QED BY <1>1, <1>3, <1>4, LoseStep

LEMMA StartStep ==
  ASSUME PInv, IInv', Start
  PROVE  PInv' /\ Promises
<1>1. \E high, slow : Queues(high, slow)
  BY DEF Start
<1> QED BY <1>1, QueueStep DEF Start

LEMMA ConvertAgainStep ==
  ASSUME PInv, IInv', NEW i \in Items, ConvertAgain(i)
  PROVE  PInv' /\ Promises
<1>1. CASE stored[i] = "stored"
  <2>1. \E high, slow : Queues(high, slow)
    BY <1>1 DEF ConvertAgain
  <2> QED BY <1>1, <2>1, QueueStep DEF ConvertAgain
<1>2. CASE stored[i] # "stored"
  <2>1. /\ UNCHANGED <<stored, source, options, conv, files, worker>>
        /\ killed' = killed \cup {"change"}
    BY <1>2 DEF ConvertAgain
  <2>2. TornApart' = TornApart
    BY <2>1 DEF TornApart
  <2>3. Promises
    BY <2>1, <2>2, Stutters DEF Plays
  <2>4. Shapes' /\ Made' /\ Unready'
    BY <2>1, <2>2 DEF PInv, Shapes, WorkersShaped, ConvShaped, FilesShaped, OptionsKnown, Made,
                      Partly, Kind, Unready
  <2>5. Ready'
    BY <2>1, <2>2 DEF PInv, Ready, There, Kind, Finishing
  <2> QED BY <2>3, <2>4, <2>5 DEF PInv
<1> QED BY <1>1, <1>2

LEMMA QueueNewStep ==
  ASSUME PInv, IInv', NEW t \in Threads, QueueNew(t)
  PROVE  PInv' /\ Promises
<1>1. \E high, slow : Queues(high, slow)
  BY DEF QueueNew
<1> QED BY <1>1, QueueStep DEF QueueNew, process

-----------------------------------------------------------------------------
(* Steps of the store *)

LEMMA ReconvertStep ==
  ASSUME PInv, IInv', NEW c \in Clients, NEW i \in Items, NEW o \in Options, Reconvert(c, i, o)
  PROVE  PInv' /\ Promises
<1>1. /\ options' = [options EXCEPT ![i] = o]
      /\ UNCHANGED <<stored, source, conv, files, worker, killed>>
  BY DEF Reconvert, jobs
<1>2. WorkersShaped' /\ ConvShaped' /\ FilesShaped'
  BY <1>1 DEF PInv, Shapes, WorkersShaped, ConvShaped, FilesShaped
<1>3. OptionsKnown'
  BY <1>1 DEF PInv, Shapes, OptionsKnown
<1>4. Made'
  BY <1>1 DEF PInv, Made, Partly, Kind, TornApart
<1>5. Ready' /\ Unready'
  BY <1>1 DEF PInv, Ready, Unready, There, Finishing, TornApart, Kind
<1>6. Promises
  BY <1>1, Stutters DEF Plays, TornApart
<1> QED BY <1>2, <1>3, <1>4, <1>5, <1>6 DEF PInv, Shapes

LEMMA SavesItem ==
  ASSUME PInv, IInv', NEW t \in Threads, Save(t)
  PROVE  PInv' /\ Promises
<1>1. PICK i \in Items : i = intake[t].item /\ stored[i] = "none"
  BY DEF PInv, IInv, Placed, Save
<1>2. /\ stored' = [stored EXCEPT ![i] = "stored"] /\ source' = [source EXCEPT ![i] = t]
      /\ options' = [options EXCEPT ![i] = CHOOSE o \in Options : TRUE]
      /\ UNCHANGED <<conv, files, worker, killed>>
  BY <1>1 DEF Save, jobs, process
<1>3. \A k \in Items : /\ stored'[k] = IF k = i THEN "stored" ELSE stored[k]
                       /\ k # i => source'[k] = source[k] /\ options'[k] = options[k]
                       /\ k = i => options'[k] \in Options
  <2>1. (CHOOSE o \in Options : TRUE) \in Options
    BY LibraryAssumption
  <2>2. stored = [k \in Items |-> stored[k]]
    BY DEF PInv, IInv, StoredTyped
  <2> QED BY <1>2, <2>1, <2>2 DEF PInv, Shapes, OptionsKnown
<1>4. WorkersShaped' /\ ConvShaped' /\ FilesShaped'
  BY <1>2 DEF PInv, Shapes, WorkersShaped, ConvShaped, FilesShaped
<1>5. OptionsKnown'
  BY <1>2, <1>3 DEF PInv, Shapes, OptionsKnown
<1>6. Made'
  <2> SUFFICES ASSUME NEW w \in Workers, NEW k \in Items, NEW f \in Formats,
                      worker[w].at \in Making, worker[w].job = <<k, f>>
               PROVE  /\ stored'[k] # "none"
                      /\ stored'[k] = "stored" =>
                           /\ worker[w].options \in Options
                           /\ TornApart \/ Partly(w, files[k][f], Kind(k))'
    BY <1>2 DEF Made, TornApart
  <2>1. k # i
    BY <1>1 DEF PInv, Made
  <2>2. stored'[k] = stored[k] /\ Kind(k)' = Kind(k)
    BY <1>3, <2>1 DEF Kind
  <2> QED BY <1>2, <2>2 DEF PInv, Made, Partly
<1>7. Ready' /\ Unready'
  <2>1. \A f \in Formats : conv[i][f].status # "ready"
    BY <1>1 DEF PInv, Unready
  <2>2. \A k \in Items : k # i => stored'[k] = stored[k] /\ Kind(k)' = Kind(k)
    BY <1>3 DEF Kind
  <2>3. Unready'
    BY <1>2, <1>3, <2>1 DEF PInv, Unready
  <2>4. Ready'
    <3> SUFFICES ASSUME NEW k \in Items, NEW f \in Formats, stored'[k] = "stored",
                        conv[k][f].status = "ready"
                 PROVE  There(k, f)' \/ TornApart \/ Finishing(k, f)
      BY <1>2 DEF Ready, TornApart, Finishing
    <3>1. k # i
      BY <2>1
    <3> QED BY <1>2, <2>2, <3>1 DEF PInv, Ready, There
  <2> QED BY <2>3, <2>4
<1>8. Promises
  <2>1. Promised!Add(i)
    BY <1>1, <1>2 DEF Promised!Add, TornApart
  <2> QED BY <2>1 DEF Promised!Next, Promises
<1> QED BY <1>4, <1>5, <1>6, <1>7, <1>8 DEF PInv, Shapes

LEMMA RemovesItem ==
  ASSUME PInv, IInv', NEW c \in Clients, DeleteRemoves(c)
  PROVE  PInv' /\ Promises
<1>1. PICK i \in Items : i = client[c].item /\ stored[i] # "none"
  BY DEF PInv, IInv, Deleting, DeleteRemoves, Deletes
<1>2. /\ stored' = [stored EXCEPT ![i] = "gone"]
      /\ conv' = [conv EXCEPT ![i] = [f \in Formats |-> Missing]]
      /\ files' = [files EXCEPT ![i] = NoFiles]
      /\ UNCHANGED <<source, options, worker, killed>>
  BY <1>1 DEF DeleteRemoves, jobs, process
<1>3. \A k \in Items : /\ stored'[k] = IF k = i THEN "gone" ELSE stored[k]
                       /\ conv'[k] = IF k = i THEN [f \in Formats |-> Missing] ELSE conv[k]
                       /\ files'[k] = IF k = i THEN NoFiles ELSE files[k]
  <2>1. stored = [k \in Items |-> stored[k]]
    BY DEF PInv, IInv, StoredTyped
  <2> QED BY <1>2, <2>1 DEF PInv, Shapes, ConvShaped, FilesShaped
<1>4. WorkersShaped' /\ OptionsKnown'
  <2>1. WorkersShaped'
    BY <1>2 DEF PInv, Shapes, WorkersShaped
  <2>2. OptionsKnown'
    BY <1>2, <1>3 DEF PInv, Shapes, OptionsKnown
  <2> QED BY <2>1, <2>2
<1>5. ConvShaped'
  <2>1. Missing = [x \in ConvFields |-> Missing[x]] /\ DOMAIN conv = Items
    BY DEF Missing, ConvFields, PInv, Shapes, ConvShaped
  <2>2. conv' = [k \in Items |-> conv'[k]]
    BY <1>2, <2>1
  <2>3. \A k \in Items : conv'[k] = [f \in Formats |-> conv'[k][f]]
    BY <1>3 DEF PInv, Shapes, ConvShaped
  <2>4. ASSUME NEW k \in Items, NEW f \in Formats
        PROVE  conv'[k][f] = [x \in ConvFields |-> conv'[k][f][x]]
    <3>1. CASE k = i
      <4>1. conv'[k][f] = Missing
        BY <1>3, <3>1
      <4> QED BY <2>1, <4>1
    <3>2. CASE k # i
      <4>1. conv'[k][f] = conv[k][f]
        BY <1>3, <3>2
      <4>2. conv[k][f] = [x \in ConvFields |-> conv[k][f][x]]
        BY DEF PInv, Shapes, ConvShaped
      <4> QED BY <4>1, <4>2
    <3> QED BY <3>1, <3>2
  <2> QED BY <2>2, <2>3, <2>4 DEF ConvShaped
<1>6. FilesShaped'
  <2>1. /\ NoFiles = [f \in Formats |-> NoFiles[f]] /\ DOMAIN files = Items
        /\ \A f \in Formats : NoFiles[f] = [x \in FileFields |-> NoFiles[f][x]]
    BY DEF NoFiles, FileFields, PInv, Shapes, FilesShaped
  <2>2. files' = [k \in Items |-> files'[k]]
    BY <1>2, <2>1
  <2>3. \A k \in Items : files'[k] = [f \in Formats |-> files'[k][f]]
    BY <1>3, <2>1 DEF PInv, Shapes, FilesShaped
  <2>4. ASSUME NEW k \in Items, NEW f \in Formats
        PROVE  files'[k][f] = [x \in FileFields |-> files'[k][f][x]]
    <3>1. CASE k = i
      <4>1. files'[k][f] = NoFiles[f]
        BY <1>3, <3>1
      <4> QED BY <2>1, <4>1
    <3>2. CASE k # i
      <4>1. files'[k][f] = files[k][f]
        BY <1>3, <3>2
      <4>2. files[k][f] = [x \in FileFields |-> files[k][f][x]]
        BY DEF PInv, Shapes, FilesShaped
      <4> QED BY <4>1, <4>2
    <3> QED BY <3>1, <3>2
  <2> QED BY <2>2, <2>3, <2>4 DEF FilesShaped
<1>7. Made'
  <2> SUFFICES ASSUME NEW w \in Workers, NEW k \in Items, NEW f \in Formats,
                      worker[w].at \in Making, worker[w].job = <<k, f>>
               PROVE  /\ stored'[k] # "none"
                      /\ stored'[k] = "stored" =>
                           /\ worker[w].options \in Options
                           /\ TornApart \/ Partly(w, files[k][f], Kind(k))'
    BY <1>2 DEF Made, TornApart
  <2>1. CASE k = i
    BY <1>3, <2>1
  <2>2. CASE k # i
    <3>1. stored'[k] = stored[k] /\ files'[k] = files[k] /\ Kind(k)' = Kind(k)
      BY <1>2, <1>3, <2>2 DEF Kind
    <3> QED BY <1>2, <3>1 DEF PInv, Made, Partly
  <2> QED BY <2>1, <2>2
<1>8. Ready'
  <2> SUFFICES ASSUME NEW k \in Items, NEW f \in Formats,
                      stored'[k] = "stored", conv'[k][f].status = "ready"
               PROVE  There(k, f)' \/ TornApart \/ Finishing(k, f)
    BY <1>2 DEF Ready, TornApart, Finishing
  <2>1. stored[k] = "stored" /\ conv'[k] = conv[k] /\ files'[k] = files[k]
    BY <1>3
  <2> QED BY <1>2, <2>1 DEF PInv, Ready, There, Kind
<1>9. /\ \A f \in Formats : conv'[i][f].status # "ready"
      /\ Unready'
  <2>1. \A f \in Formats : conv'[i][f].status # "ready"
    BY <1>3 DEF Missing
  <2> QED BY <1>3, <2>1 DEF PInv, Unready
<1>10. Promises
  <2>1. \A k \in Items, f \in Formats :
          Plays(k, f)' = IF k = i THEN None ELSE Plays(k, f)
    BY <1>3, <1>9 DEF Plays
  <2>2. CASE stored[i] = "gone"
    <3>1. \A f \in Formats : Plays(i, f) = None
      BY <2>2 DEF PInv, Unready, Plays
    <3>2. stored' = stored
      BY <1>2, <2>2 DEF PInv, IInv, StoredTyped
    <3> QED BY <1>2, <2>1, <3>1, <3>2, Stutters DEF TornApart
  <2>3. CASE stored[i] = "stored"
    <3> DEFINE plays == [k \in Items |-> [f \in Formats |-> Plays(k, f)]]
    <3>1. [k \in Items |-> [f \in Formats |-> Plays(k, f)']]
            = [plays EXCEPT ![i] = [f \in Formats |-> None]]
      BY <2>1
    <3>2. Promised!Remove(i)
      BY <1>2, <2>3, <3>1 DEF Promised!Remove, Promised!Nothing, Plays, TornApart
    <3> QED BY <3>2 DEF Promised!Next, Promises
  <2> QED BY <1>1, <2>2, <2>3 DEF PInv, IInv, StoredTyped
<1> QED BY <1>4, <1>5, <1>6, <1>7, <1>8, <1>9, <1>10 DEF PInv, Shapes

\* What breaks off: some items are gone, and some of those being removed have lost
\* files.
LEMMA RemainPromised ==
  ASSUME PInv, IInv', NEW gone \in SUBSET Items, NEW half \in SUBSET Items, Remain(gone, half),
         \A i \in gone : stored[i] = "none", half # {} => TornApart',
         UNCHANGED <<source, options>>, WorkersShaped', TornApart => TornApart',
         \A w \in Workers : \/ worker'[w] = worker[w]
                            \/ /\ worker'[w].at = "idle"
                               /\ worker[w].at \in Ending => TornApart'
  PROVE  PInv' /\ Promises
<1>1. PICK out \in SUBSET half, lost \in SUBSET (half \X Formats) :
        /\ stored' = [i \in Items |-> IF i \in gone \cup out THEN "gone" ELSE stored[i]]
        /\ conv' = [i \in Items |-> IF i \in out THEN [f \in Formats |-> Missing] ELSE conv[i]]
        /\ files' = [i \in Items |->
             IF i \in out THEN NoFiles
             ELSE [f \in Formats |-> IF <<i, f>> \in lost THEN NoFiles[f] ELSE files[i][f]]]
  BY DEF Remain
<1>2. ASSUME NEW i \in Items
      PROVE  /\ stored'[i] = IF i \in gone \cup out THEN "gone" ELSE stored[i]
             /\ conv'[i] = IF i \in out THEN [f \in Formats |-> Missing] ELSE conv[i]
             /\ Kind(i)' = Kind(i)
             /\ i \notin half => \A f \in Formats : files'[i][f] = files[i][f]
  BY <1>1 DEF Kind
<1>3. OptionsKnown'
  BY <1>2 DEF PInv, Shapes, OptionsKnown
<1>4. ConvShaped'
  <2>1. Missing = [x \in ConvFields |-> Missing[x]]
    BY DEF Missing, ConvFields
  <2>2. conv' = [i \in Items |-> conv'[i]]
    BY <1>1
  <2>3. ASSUME NEW i \in Items
        PROVE  /\ conv'[i] = [f \in Formats |-> conv'[i][f]]
               /\ \A f \in Formats : conv'[i][f] = [x \in ConvFields |-> conv'[i][f][x]]
    <3>1. CASE i \in out
      <4>1. conv'[i] = [f \in Formats |-> Missing]
        BY <1>2, <3>1
      <4>2. \A f \in Formats : conv'[i][f] = Missing
        BY <4>1
      <4> QED BY <2>1, <4>1, <4>2
    <3>2. CASE i \notin out
      <4>1. /\ conv[i] = [f \in Formats |-> conv[i][f]]
            /\ \A f \in Formats : conv[i][f] = [x \in ConvFields |-> conv[i][f][x]]
        BY DEF PInv, Shapes, ConvShaped
      <4> QED BY <1>2, <3>2, <4>1
    <3> QED BY <3>1, <3>2
  <2> QED BY <2>2, <2>3 DEF ConvShaped
<1>5. FilesShaped'
  <2>1. /\ NoFiles = [f \in Formats |-> NoFiles[f]]
        /\ \A f \in Formats : NoFiles[f] = [x \in FileFields |-> NoFiles[f][x]]
    BY DEF NoFiles, FileFields
  <2>2. files' = [i \in Items |-> files'[i]]
    BY <1>1
  <2>3. ASSUME NEW i \in Items
        PROVE  /\ files'[i] = [f \in Formats |-> files'[i][f]]
               /\ \A f \in Formats : files'[i][f] = [x \in FileFields |-> files'[i][f][x]]
    <3>1. \A f \in Formats : files[i][f] = [x \in FileFields |-> files[i][f][x]]
      BY DEF PInv, Shapes, FilesShaped
    <3>2. \/ files'[i] = NoFiles
          \/ files'[i] = [f \in Formats |-> IF <<i, f>> \in lost THEN NoFiles[f] ELSE files[i][f]]
      BY <1>1
    <3>3. files'[i] = [f \in Formats |-> files'[i][f]]
      BY <2>1, <3>2
    <3>4. \A f \in Formats : files'[i][f] = NoFiles[f] \/ files'[i][f] = files[i][f]
      BY <3>2
    <3> QED BY <2>1, <3>1, <3>3, <3>4
  <2> QED BY <2>2, <2>3 DEF FilesShaped
<1>6. Made'
  <2> SUFFICES ASSUME NEW w \in Workers, NEW i \in Items, NEW f \in Formats,
                      worker'[w].at \in Making, worker'[w].job = <<i, f>>
               PROVE  /\ stored'[i] # "none"
                      /\ stored'[i] = "stored" =>
                           /\ worker'[w].options \in Options
                           /\ TornApart' \/ Partly(w, files[i][f], Kind(i))'
    BY DEF Made
  <2>1. worker'[w] = worker[w]
    BY DEF Making
  <2>2. stored'[i] # "none" /\ (stored'[i] = "stored" => stored[i] = "stored")
    BY <1>2, <2>1 DEF PInv, Made
  <2>3. CASE i \in half
    BY <2>1, <2>2, <2>3 DEF PInv, Made
  <2>4. CASE i \notin half
    BY <1>2, <2>1, <2>2, <2>4 DEF PInv, Made, Partly
  <2> QED BY <2>3, <2>4
<1>7. Ready'
  <2> SUFFICES ASSUME NEW i \in Items, NEW f \in Formats,
                      stored'[i] = "stored", conv'[i][f].status = "ready"
               PROVE  There(i, f)' \/ TornApart' \/ Finishing(i, f)'
    BY DEF Ready
  <2>1. CASE i \in half
    BY <2>1
  <2>2. CASE i \notin half
    <3>1. stored[i] = "stored" /\ conv'[i] = conv[i] /\ files'[i][f] = files[i][f]
      BY <1>1, <1>2, <2>2
    <3>2. Finishing(i, f) => Finishing(i, f)' \/ TornApart'
      BY DEF Finishing
    <3> QED BY <1>2, <3>1, <3>2 DEF PInv, Ready, There
  <2> QED BY <2>1, <2>2
<1>8. Unready'
  BY <1>2 DEF PInv, Unready, Missing
<1>9. Promises
  <2> DEFINE S == gone \cup out
             plays == [i \in Items |-> [f \in Formats |-> Plays(i, f)]]
  <2>1. TornApart' \in {TornApart, TRUE}
    <3>1. TornApart \in BOOLEAN /\ TornApart' \in BOOLEAN
      BY DEF TornApart
    <3> QED BY <3>1
  <2>2. \A i \in Items, f \in Formats : Plays(i, f)' = IF i \in S THEN None ELSE Plays(i, f)
    BY <1>2 DEF Plays, Missing, PInv, Unready
  <2>3. [i \in Items |-> [f \in Formats |-> Plays(i, f)']]
          = [i \in Items |-> IF i \in S THEN [f \in Formats |-> None] ELSE plays[i]]
    BY <2>2
  <2>4. Promised!Abandon(S)
    BY <1>1, <2>1, <2>3 DEF Promised!Abandon, Promised!Nothing, Plays
  <2>5. S \in SUBSET Items
    OBVIOUS
  <2> QED BY <2>4, <2>5 DEF Promised!Next, Promises
<1> QED BY <1>3, <1>4, <1>5, <1>6, <1>7, <1>8, <1>9 DEF PInv, Shapes

\* An error after the move gives one item up.
LEMMA BreaksItem ==
  ASSUME PInv, IInv', NEW t \in Threads, Breaks(t)
  PROVE  PInv' /\ Promises
<1>1. PICK i \in Items : i = intake[t].item /\ stored[i] = "none"
  BY DEF PInv, IInv, Placed, Breaks
<1>2. /\ stored' = [stored EXCEPT ![i] = "gone"]
      /\ UNCHANGED <<source, options, conv, files, worker, killed>>
  BY <1>1 DEF Breaks, jobs, process
<1>3. Remain({i}, {})
  <2>1. stored' = [k \in Items |-> IF k \in {i} \cup {} THEN "gone" ELSE stored[k]]
    BY <1>2 DEF PInv, IInv, StoredTyped
  <2>2. conv' = [k \in Items |-> IF k \in {} THEN [f \in Formats |-> Missing] ELSE conv[k]]
    BY <1>2 DEF PInv, Shapes, ConvShaped
  <2>3. files' = [k \in Items |->
          IF k \in {} THEN NoFiles
          ELSE [f \in Formats |-> IF <<k, f>> \in {} THEN NoFiles[f] ELSE files[k][f]]]
    BY <1>2 DEF PInv, Shapes, FilesShaped
  <2>4. {} \in SUBSET {} /\ {} \in SUBSET ({} \X Formats)
    OBVIOUS
  <2> QED BY <2>1, <2>2, <2>3, <2>4 DEF Remain
<1>4. WorkersShaped'
  BY <1>2 DEF PInv, Shapes, WorkersShaped
<1>5. TornApart' = TornApart
  BY <1>2 DEF TornApart
<1> QED BY <1>1, <1>2, <1>3, <1>4, <1>5, RemainPromised

\* A removal that breaks off leaves the item torn, or gone.
LEMMA FailsToRemove ==
  ASSUME PInv, IInv', NEW c \in Clients, DeleteFails(c)
  PROVE  PInv' /\ Promises
<1>1. PICK i \in Items : i = client[c].item
  BY DEF PInv, IInv, Deleting, DeleteFails, Deletes
<1>2. /\ Remain({}, {i}) /\ UNCHANGED <<source, options, worker>>
      /\ killed' = killed \cup {"removal"}
  BY <1>1 DEF DeleteFails, jobs, Errs
<1>3. WorkersShaped'
  BY <1>2 DEF PInv, Shapes, WorkersShaped
<1>4. TornApart'
  BY <1>2 DEF TornApart
<1> QED BY <1>1, <1>2, <1>3, <1>4, RemainPromised

LEMMA ProcessEnds ==
  ASSUME PInv, IInv', Exit
  PROVE  PInv' /\ Promises
<1> DEFINE gone == {i \in Items : stored[i] = "none" /\ \E t \in Threads : intake[t].item = i}
<1> DEFINE half == {i \in Items : \E c \in Clients : client[c] = [at |-> "remove", item |-> i]}
<1>1. Remain(gone, half) /\ UNCHANGED <<source, options>> /\ worker' = [w \in Workers |-> Free]
  BY DEF Exit
<1>2. killed' = killed \cup {t \in Threads : intake[t].at \in {"placed", "saved"}}
                  \cup (IF \E w \in Workers : Between(w) THEN {"worker"} ELSE {})
                  \cup (IF \E c \in Clients : client[c].at = "remove" THEN {"removal"} ELSE {})
                  \cup (IF changing # {} \/ kept # format THEN {"format"} ELSE {})
  BY DEF Exit
<1>3. (TornApart => TornApart') /\ (half # {} => TornApart')
  <2>1. TornApart => TornApart'
    BY <1>2 DEF TornApart
  <2>2. ASSUME NEW i \in half PROVE TornApart'
    <3>1. PICK c \in Clients : client[c] = [at |-> "remove", item |-> i]
      OBVIOUS
    <3>2. client[c].at = "remove"
      BY <3>1
    <3> QED BY <1>2, <3>2 DEF TornApart
  <2> QED BY <2>1, <2>2
<1>4. \A w \in Workers : worker'[w].at = "idle" /\ (worker[w].at \in Ending => TornApart')
  <2>1. \A w \in Workers : worker'[w].at = "idle"
    BY <1>1 DEF Free
  <2>2. ASSUME NEW w \in Workers, worker[w].at \in Ending PROVE TornApart'
    <3>1. Between(w)
      BY <2>2 DEF Between, Ending
    <3> QED BY <1>2, <3>1 DEF TornApart
  <2> QED BY <2>1, <2>2
<1>5. WorkersShaped'
  BY <1>1 DEF WorkersShaped, WorkerFields, Free, Running, BeforeEnd
<1>6. gone \in SUBSET Items /\ half \in SUBSET Items /\ \A i \in gone : stored[i] = "none"
  OBVIOUS
<1> HIDE DEF gone, half
<1> QED BY <1>1, <1>3, <1>4, <1>5, <1>6, RemainPromised

-----------------------------------------------------------------------------
(* The steps of the one worker *)

\* The conversions that stay ready keep their files, or their job is ending.
FilesStay ==
  \A i \in Items, f \in Formats :
    /\ conv'[i][f] = conv[i][f] /\ stored[i] = "stored"
    /\ There(i, f) \/ Finishing(i, f)
    => There(i, f)' \/ Finishing(i, f)'

LEMMA Works ==
  ASSUME PInv, IInv', NEW W, Workers = {W},
         WorkersShaped', ConvShaped', FilesShaped', Made', Loses, FilesStay,
         UNCHANGED <<stored, source, options, killed>>
  PROVE  PInv' /\ Promises
<1>1. OptionsKnown'
  BY DEF PInv, Shapes, OptionsKnown
<1>2. Ready'
  <2> SUFFICES ASSUME NEW i \in Items, NEW f \in Formats, stored[i] = "stored",
                      conv'[i][f].status = "ready"
               PROVE  There(i, f)' \/ TornApart \/ Finishing(i, f)'
    BY DEF Ready, TornApart
  <2>1. conv'[i][f] = conv[i][f]
    BY DEF Loses
  <2>2. There(i, f) \/ TornApart \/ Finishing(i, f)
    BY <2>1 DEF PInv, Ready
  <2> QED BY <2>1, <2>2 DEF FilesStay
<1>3. Unready'
  BY DEF Loses, PInv, Unready
<1> QED BY <1>1, <1>2, <1>3, LosesPromised DEF PInv, Shapes

\* Where a job is not ending, nothing is lost while the files stay as they are.
LEMMA SameFiles ==
  ASSUME PInv, NEW W, Workers = {W}, worker[W].at \notin Ending, UNCHANGED <<files, source>>
  PROVE  FilesShaped' /\ FilesStay
<1>1. FilesShaped'
  BY DEF PInv, Shapes, FilesShaped
<1>2. FilesStay
  BY DEF FilesStay, There, Kind, Finishing
<1> QED BY <1>1, <1>2

\* A step that touches no files and leaves the worker without an item.
LEMMA Rests ==
  ASSUME PInv, IInv', NEW W, Workers = {W}, worker[W].at \notin Ending,
         worker'[W].at \notin Making, WorkersShaped', ConvShaped', Loses,
         UNCHANGED <<stored, source, options, files, killed>>
  PROVE  PInv' /\ Promises
<1>1. Made'
  BY DEF Made
<1> QED BY <1>1, SameFiles, Works

\* Nothing but the worker changes.
LEMMA SameConv ==
  ASSUME PInv, conv' = conv
  PROVE  ConvShaped' /\ Loses
BY DEF PInv, Shapes, ConvShaped, Loses

\* The worker goes to another step of its job.
LEMMA MovesTo ==
  ASSUME PInv, NEW W, Workers = {W}, NEW to \in Running \cup {"settle"}, Moves(W, to),
         worker[W].at \in Running \cup {"settle"}, worker[W].at \in BeforeEnd \/ to \notin BeforeEnd
  PROVE  /\ WorkersShaped' /\ worker'[W].at = to /\ worker'[W].job = worker[W].job
         /\ worker'[W].options = worker[W].options /\ worker'[W].silent = worker[W].silent
<1>1. /\ worker = [w \in Workers |-> worker[w]] /\ worker[W] = [x \in WorkerFields |-> worker[W][x]]
      /\ worker[W].job \in Jobs /\ (to \in BeforeEnd => worker[W].silent = FALSE)
  BY DEF PInv, Shapes, WorkersShaped
<1>2. worker' = [w \in Workers |-> [worker[W] EXCEPT !.at = to]]
  BY <1>1 DEF Moves
<1>3. /\ worker'[W].at = to /\ worker'[W].job = worker[W].job
      /\ worker'[W].options = worker[W].options /\ worker'[W].silent = worker[W].silent
      /\ worker'[W] = [x \in WorkerFields |-> worker'[W][x]]
  BY <1>1, <1>2 DEF WorkerFields
<1>4. WorkersShaped'
  BY <1>1, <1>2, <1>3 DEF WorkersShaped, Jobs, Running, BeforeEnd
<1> QED BY <1>3, <1>4

\* The worker is free.
LEMMA Frees ==
  ASSUME NEW W, Workers = {W}, worker' = [worker EXCEPT ![W] = Free], PInv
  PROVE  WorkersShaped' /\ worker'[W].at \notin Making
<1>1. worker' = [w \in Workers |-> Free]
  BY DEF PInv, Shapes, WorkersShaped
<1>2. Free = [x \in WorkerFields |-> Free[x]] /\ Free.at = "idle"
  BY DEF Free, WorkerFields
<1>3. worker' = [w \in Workers |-> worker'[w]] /\ \A w \in Workers : worker'[w] = Free
  BY <1>1
<1>4. "idle" \notin Running \cup {"settle"} /\ "idle" \notin Making /\ "idle" \notin BeforeEnd
  BY DEF Running, Making, BeforeEnd
<1> QED BY <1>2, <1>3, <1>4 DEF WorkersShaped

LEMMA TakeStep ==
  ASSUME PInv, IInv', NEW W, Workers = {W}, Take(W)
  PROVE  PInv' /\ Promises
<1>1. PICK j \in Jobs : worker' = [worker EXCEPT ![W] = [Free EXCEPT !.at = "taken", !.job = j]]
  BY DEF Take
<1>2. worker[W].at = "idle" /\ UNCHANGED <<stored, source, options, conv, files, killed>>
  BY DEF Take, item, process
<1>3. worker' = [w \in Workers |-> [Free EXCEPT !.at = "taken", !.job = j]]
  BY <1>1 DEF PInv, Shapes, WorkersShaped
<1>4. WorkersShaped' /\ worker'[W].at \notin Making
  <2> DEFINE new == [Free EXCEPT !.at = "taken", !.job = j]
  <2>1. /\ new.at = "taken" /\ new.job = j /\ new.silent = FALSE
        /\ new = [x \in WorkerFields |-> new[x]]
    BY DEF Free, WorkerFields
  <2> HIDE DEF new
  <2>2. \A w \in Workers : worker'[w] = new
    BY <1>3 DEF new
  <2>3. worker' = [w \in Workers |-> worker'[w]]
    BY <1>3
  <2> QED BY <2>1, <2>2, <2>3 DEF WorkersShaped, Making, Jobs
<1> QED BY <1>2, <1>4, SameConv, Rests DEF Ending

LEMMA DoneStep ==
  ASSUME PInv, IInv', NEW W, Workers = {W}, Done(W)
  PROVE  PInv' /\ Promises
<1>1. /\ worker[W].at = "done" /\ worker' = [worker EXCEPT ![W] = Free]
      /\ UNCHANGED <<stored, source, options, conv, files, killed>>
  BY DEF Done, item, process
<1> QED BY <1>1, Frees, SameConv, Rests DEF Ending

LEMMA SettleStep ==
  ASSUME PInv, IInv', NEW W, Workers = {W}, Settle(W)
  PROVE  PInv' /\ Promises
<1>1. /\ worker[W].at = "settle" /\ worker' = [worker EXCEPT ![W] = Free]
      /\ UNCHANGED <<stored, source, options, files, killed>>
  BY DEF Settle, process
<1>2. ConvShaped' /\ Loses
  <2>1. CASE conv' = conv
    BY <2>1, SameConv
  <2>2. CASE SetConv(worker[W].job, Settled(worker[W].job))
    <3>1. PICK j : j = worker[W].job
      OBVIOUS
    <3>2. PICK to : to = [Missing EXCEPT !.status = "failed"]
      OBVIOUS
    <3>3. to.status # "ready" /\ to = [x \in ConvFields |-> to[x]]
      BY <3>2 DEF Missing, ConvFields
    <3>4. SetConv(j, IF OnDisk(j) THEN conv[j[1]][j[2]] ELSE to)
      BY <2>2, <3>1, <3>2 DEF Settled
    <3>5. \A i \in Items, f \in Formats : ~Finishing(i, f)
      BY <1>1 DEF Finishing, Ending
    <3> QED BY <3>3, <3>4, <3>5, SetConvLoses
  <2> QED BY <2>1, <2>2 DEF Settle
<1> QED BY <1>1, <1>2, Frees, Rests DEF Ending

\* The record of the end is not written.
LEMMA SettleFailsStep ==
  ASSUME PInv, IInv', NEW W, Workers = {W}, SettleFails(W)
  PROVE  PInv' /\ Promises
<1>1. /\ worker[W].at = "settle" /\ worker' = [worker EXCEPT ![W] = Free]
      /\ UNCHANGED <<stored, source, options, conv, files>> /\ killed' = killed \cup {"record"}
  BY DEF SettleFails, Errs, item
<1>2. TornApart' = TornApart
  BY <1>1 DEF TornApart
<1>3. WorkersShaped' /\ Made'
  BY <1>1, Frees DEF Made
<1>4. ConvShaped' /\ FilesShaped' /\ OptionsKnown' /\ Unready'
  BY <1>1 DEF PInv, Shapes, ConvShaped, FilesShaped, OptionsKnown, Unready
<1>5. Ready'
  <2>1. \A i \in Items, f \in Formats : ~Finishing(i, f)
    BY <1>1 DEF Finishing, Ending
  <2> QED BY <1>1, <1>2, <2>1 DEF PInv, Ready, There, Kind
<1>6. Promises
  BY <1>1, <1>2, Stutters DEF Plays
<1> QED BY <1>3, <1>4, <1>5, <1>6 DEF PInv, Shapes

\* An error while files are put in place leaves them torn.
LEMMA WorkFailsStep ==
  ASSUME PInv, IInv', NEW W, Workers = {W}, WorkFails(W)
  PROVE  PInv' /\ Promises
<1>1. /\ worker[W].at \in Ending /\ Moves(W, "settle")
      /\ UNCHANGED <<stored, source, options, conv, files>> /\ killed' = killed \cup {"worker"}
  BY DEF WorkFails, Between, Ending, Errs, item
<1>2. TornApart'
  BY <1>1 DEF TornApart
<1>3. WorkersShaped' /\ worker'[W].at = "settle"
  BY <1>1, MovesTo DEF Running, BeforeEnd, Ending
<1>4. ConvShaped' /\ FilesShaped' /\ OptionsKnown' /\ Unready' /\ Made' /\ Ready'
  BY <1>1, <1>2, <1>3 DEF PInv, Shapes, ConvShaped, FilesShaped, OptionsKnown, Unready, Made,
                          Making, Ready
<1>5. Promises
  <2> DEFINE plays == [i \in Items |-> [f \in Formats |-> Plays(i, f)]]
  <2>1. stored' = [i \in Items |-> IF i \in {} THEN "gone" ELSE stored[i]]
    BY <1>1 DEF PInv, IInv, StoredTyped
  <2>2. \A i \in Items, f \in Formats : Plays(i, f)' = Plays(i, f)
    BY <1>1 DEF Plays
  <2>3. [i \in Items |-> [f \in Formats |-> Plays(i, f)']]
          = [i \in Items |-> IF i \in {} THEN [f \in Formats |-> None] ELSE plays[i]]
    BY <2>2
  <2>4. TornApart' \in {TornApart, TRUE}
    <3>1. TornApart' \in BOOLEAN
      BY DEF TornApart
    <3> QED BY <1>2, <3>1
  <2>5. Promised!Abandon({})
    BY <2>1, <2>3, <2>4 DEF Promised!Abandon, Promised!Nothing, Plays
  <2>6. {} \in SUBSET Items
    OBVIOUS
  <2> QED BY <2>5, <2>6 DEF Promised!Next, Promises
<1> QED BY <1>3, <1>4, <1>5 DEF PInv, Shapes

LEMMA BeginStep ==
  ASSUME PInv, IInv', NEW W, Workers = {W}, Begin(W)
  PROVE  PInv' /\ Promises
<1>1. worker[W].at = "taken" /\ UNCHANGED <<stored, source, options, files, killed>>
  BY DEF Begin, process
<1>2. PICK j \in Jobs : j = worker[W].job
  BY <1>1 DEF PInv, Shapes, WorkersShaped, Running
<1>3. CASE /\ stored[j[1]] = "stored"
           /\ worker' = [worker EXCEPT ![W].at = "convert", ![W].options = options[j[1]]]
           /\ SetConv(j, IF OnDisk(j) THEN conv[j[1]][j[2]]
                         ELSE [conv[j[1]][j[2]] EXCEPT !.status = "converting"])
  <2>1. /\ worker' = [worker EXCEPT ![W].at = "convert", ![W].options = options[j[1]]]
        /\ SetConv(j, IF OnDisk(j) THEN conv[j[1]][j[2]]
                      ELSE [conv[j[1]][j[2]] EXCEPT !.status = "converting"])
    BY <1>3
  <2>2. PICK to : to = [conv[j[1]][j[2]] EXCEPT !.status = "converting"]
    OBVIOUS
  <2>3. to.status = "converting" /\ to = [x \in ConvFields |-> to[x]]
    <3>1. j[1] \in Items /\ j[2] \in Formats
      BY DEF Jobs
    <3>2. PICK c : c = conv[j[1]][j[2]]
      OBVIOUS
    <3>3. c = [x \in ConvFields |-> c[x]]
      BY <3>1, <3>2 DEF PInv, Shapes, ConvShaped
    <3>4. to = [c EXCEPT !.status = "converting"]
      BY <2>2, <3>2
    <3> QED BY <3>3, <3>4 DEF ConvFields
  <2>4. \A i \in Items, f \in Formats : ~Finishing(i, f)
    BY <1>1 DEF Finishing, Ending
  <2>5. ConvShaped' /\ Loses
    BY <2>1, <2>2, <2>3, <2>4, SetConvLoses
  <2>6. /\ worker' = [w \in Workers |-> worker'[w]]
        /\ worker'[W] = [x \in WorkerFields |-> worker'[W][x]]
        /\ worker'[W].at = "convert" /\ worker'[W].job = j
        /\ worker'[W].options = options[j[1]] /\ worker'[W].silent = worker[W].silent
    BY <1>2, <2>1 DEF PInv, Shapes, WorkersShaped, WorkerFields
  <2>7. WorkersShaped'
    <3>1. worker[W].silent = FALSE
      BY <1>1 DEF PInv, Shapes, WorkersShaped, BeforeEnd
    <3> QED BY <2>6, <3>1 DEF WorkersShaped, Jobs
  <2>8. FilesShaped' /\ FilesStay
    BY <1>1, SameFiles DEF Ending
  <2>9. Made'
    <3>1. options[j[1]] \in Options
      BY <1>3 DEF PInv, Shapes, OptionsKnown, Jobs
    <3>2. j[1] \in Items /\ j = <<j[1], j[2]>>
      BY DEF Jobs
    <3>3. \A i \in Items, f \in Formats : worker'[W].job = <<i, f>> => i = j[1]
      BY <2>6, <3>2
    <3>4. stored'[j[1]] = "stored" /\ worker'[W].options \in Options
      BY <1>1, <1>3, <2>6, <3>1
    <3>5. \A i \in Items, f \in Formats : Partly(W, files[i][f], Kind(i))'
      BY <2>6 DEF Partly
    <3> QED BY <3>3, <3>4, <3>5 DEF Made
  <2> QED BY <1>1, <2>5, <2>7, <2>8, <2>9, Works
<1>4. CASE Moves(W, "settle") /\ conv' = conv
  <2>1. WorkersShaped' /\ worker'[W].at = "settle"
    BY <1>1, <1>4, MovesTo DEF Running, BeforeEnd
  <2> QED BY <1>1, <1>4, <2>1, SameConv, Rests DEF Making, Ending
<1> QED BY <1>2, <1>3, <1>4 DEF Begin

LEMMA ConvertStep ==
  ASSUME PInv, IInv', NEW W, Workers = {W}, NEW kind, NEW to, Convert(W, kind, to),
         (kind = "clip" /\ to = "sound") \/ (kind # "clip" /\ to = "picture")
  PROVE  PInv' /\ Promises
<1>1. /\ worker[W].at = "convert" /\ Kind(worker[W].job[1]) = kind
      /\ UNCHANGED <<stored, source, options, conv, files, killed>>
  BY DEF Convert, item, process
<1>2. CASE Moves(W, "settle")
  <2>1. WorkersShaped' /\ worker'[W].at = "settle"
    BY <1>1, <1>2, MovesTo DEF Running, BeforeEnd
  <2> QED BY <1>1, <2>1, SameConv, Rests DEF Making, Ending
<1>3. CASE Moves(W, to)
  <2>1. /\ WorkersShaped' /\ worker'[W].at = to /\ worker'[W].job = worker[W].job
        /\ worker'[W].options = worker[W].options
    BY <1>1, <1>3, MovesTo DEF Running, BeforeEnd
  <2>2. Made'
    <3> SUFFICES ASSUME NEW i \in Items, NEW f \in Formats, worker[W].job = <<i, f>>
                 PROVE  /\ stored[i] # "none"
                        /\ stored[i] = "stored" =>
                             worker[W].options \in Options /\ Partly(W, files[i][f], Kind(i))'
      BY <1>1, <2>1 DEF Made
    <3>1. Kind(i) = kind /\ Kind(i)' = kind
      BY <1>1 DEF Kind
    <3>2. Partly(W, files[i][f], Kind(i))'
      BY <1>1, <2>1, <3>1 DEF Partly
    <3> QED BY <1>1, <3>2 DEF PInv, Made, Making
  <2>3. FilesShaped' /\ FilesStay
    BY <1>1, SameFiles DEF Ending
  <2> QED BY <1>1, <2>1, <2>2, <2>3, SameConv, Works
<1> QED BY <1>2, <1>3 DEF Convert

\* One file is put in place: as it is written, and what that means.
Puts(a, b, x, value) == files' = [files EXCEPT ![a][b][x] = value]
IsPut(a, b, x, value) ==
  /\ FilesShaped'
  /\ \A i \in Items, f \in Formats, y \in FileFields :
       files'[i][f][y] = IF i = a /\ f = b /\ y = x THEN value ELSE files[i][f][y]

LEMMA PutIn ==
  ASSUME PInv, NEW a, NEW b, NEW x \in FileFields, NEW value, Puts(a, b, x, value)
  PROVE  IsPut(a, b, x, value)
<1>1. /\ files = [i \in Items |-> files[i]]
      /\ \A i \in Items : files[i] = [f \in Formats |-> files[i][f]]
      /\ \A i \in Items, f \in Formats : files[i][f] = [y \in FileFields |-> files[i][f][y]]
  BY DEF PInv, Shapes, FilesShaped
<1>2. files' = [i \in Items |-> IF i = a THEN [files[i] EXCEPT ![b][x] = value] ELSE files[i]]
  BY <1>1 DEF Puts
<1>3. ASSUME NEW i \in Items
      PROVE  files'[i] = [f \in Formats |->
                            IF i = a /\ f = b THEN [files[i][f] EXCEPT ![x] = value]
                            ELSE files[i][f]]
  <2>1. CASE i = a
    <3>1. PICK F : F = files[i]
      OBVIOUS
    <3>2. F = [f \in Formats |-> F[f]] /\ files'[i] = [F EXCEPT ![b][x] = value]
      BY <1>1, <1>2, <2>1, <3>1
    <3>3. files'[i] = [f \in Formats |-> IF f = b THEN [F[f] EXCEPT ![x] = value] ELSE F[f]]
      BY <3>2
    <3> QED BY <2>1, <3>1, <3>3
  <2>2. CASE i # a
    BY <1>1, <1>2, <2>2
  <2> QED BY <2>1, <2>2
<1>4. ASSUME NEW i \in Items, NEW f \in Formats
      PROVE  files'[i][f] = [y \in FileFields |->
                               IF i = a /\ f = b /\ y = x THEN value ELSE files[i][f][y]]
  <2>1. files'[i][f] = IF i = a /\ f = b THEN [files[i][f] EXCEPT ![x] = value] ELSE files[i][f]
    BY <1>3
  <2>2. PICK g : g = files[i][f]
    OBVIOUS
  <2>3. g = [y \in FileFields |-> g[y]]
    BY <1>1, <2>2
  <2>4. CASE i = a /\ f = b
    BY <2>1, <2>2, <2>3, <2>4
  <2>5. CASE ~(i = a /\ f = b)
    BY <2>1, <2>2, <2>3, <2>5
  <2> QED BY <2>4, <2>5
<1>5. ASSUME NEW i \in Items, NEW f \in Formats
      PROVE  /\ files'[i][f] = [y \in FileFields |-> files'[i][f][y]]
             /\ \A y \in FileFields :
                  files'[i][f][y] = IF i = a /\ f = b /\ y = x THEN value ELSE files[i][f][y]
  <2>1. PICK g : g = files'[i][f]
    OBVIOUS
  <2>2. g = [y \in FileFields |-> IF i = a /\ f = b /\ y = x THEN value ELSE files[i][f][y]]
    BY <1>4, <2>1
  <2>3. g = [y \in FileFields |-> g[y]]
    BY <2>2
  <2> QED BY <2>1, <2>2, <2>3
<1>6. files' = [i \in Items |-> files'[i]]
  BY <1>2
<1>7. \A i \in Items : files'[i] = [f \in Formats |-> files'[i][f]]
  BY <1>3
<1>8. FilesShaped'
  BY <1>5, <1>6, <1>7 DEF FilesShaped
<1> QED BY <1>5, <1>8 DEF IsPut

\* What the worker publishes, it publishes for its job, while the item is stored.
PublishedFor(W, x, value) ==
  /\ FilesShaped'
  /\ \A i \in Items, f \in Formats, y \in FileFields :
       files'[i][f][y] = IF worker[W].job = <<i, f>> /\ stored[i] = "stored" /\ y = x
                         THEN value ELSE files[i][f][y]

LEMMA PublishIs ==
  ASSUME PInv, NEW W \in Workers, NEW x \in FileFields, NEW value, Publishes(W, x, value),
         worker[W].at \in Running
  PROVE  PublishedFor(W, x, value)
<1>1. PICK a \in Items, b \in Formats : worker[W].job = <<a, b>>
  BY DEF PInv, Shapes, WorkersShaped, Jobs
<1>2. CASE stored[a] = "stored"
  <2>1. Puts(a, b, x, value)
    BY <1>1, <1>2 DEF Publishes, Puts
  <2>2. IsPut(a, b, x, value)
    BY <2>1, PutIn
  <2> QED BY <1>1, <1>2, <2>2 DEF IsPut, PublishedFor
<1>3. CASE stored[a] # "stored"
  <2>1. files' = files
    BY <1>1, <1>3 DEF Publishes
  <2> QED BY <1>1, <1>3, <2>1 DEF PInv, Shapes, FilesShaped, PublishedFor
<1> QED BY <1>2, <1>3

\* What a publishing step has to show of the one file it puts in place: the files
\* of its job are as far as its next step says, and nothing ready is lost.
LEMMA PublishStep ==
  ASSUME PInv, IInv', NEW W, Workers = {W}, NEW x \in FileFields, NEW value,
         PublishedFor(W, x, value), worker[W].at \in Making \ {"finish"}, WorkersShaped',
         worker'[W].at \in Ending,
         worker'[W].job = worker[W].job, worker'[W].options = worker[W].options,
         \A i \in Items, f \in Formats :
           /\ worker[W].job = <<i, f>> /\ stored[i] = "stored" /\ Partly(W, files[i][f], Kind(i))
           => Partly(W, files[i][f], Kind(i))',
         UNCHANGED <<stored, source, options, conv, killed>>
  PROVE  PInv' /\ Promises
<1>1. \A i \in Items : Kind(i)' = Kind(i)
  BY DEF Kind
<1>2. ASSUME NEW i \in Items, NEW f \in Formats, worker[W].job = <<i, f>>, stored[i] = "stored"
      PROVE  worker[W].options \in Options /\ (TornApart \/ Partly(W, files[i][f], Kind(i))')
  <2>1. worker[W].options \in Options /\ (TornApart \/ Partly(W, files[i][f], Kind(i)))
    BY <1>2 DEF PInv, Made
  <2> QED BY <1>2, <2>1
<1>3. Made'
  <2>1. \A i \in Items, f \in Formats : worker[W].job = <<i, f>> => stored[i] # "none"
    BY DEF PInv, Made
  <2> SUFFICES ASSUME NEW i \in Items, NEW f \in Formats, worker[W].job = <<i, f>>
               PROVE  /\ stored[i] # "none"
                      /\ stored[i] = "stored" =>
                           /\ worker[W].options \in Options
                           /\ TornApart \/ Partly(W, files[i][f], Kind(i))'
    BY DEF Made, TornApart
  <2> QED BY <1>2, <2>1
<1>4. FilesStay
  <2> SUFFICES ASSUME NEW i \in Items, NEW f \in Formats, conv' = conv,
                      There(i, f) \/ Finishing(i, f)
               PROVE  There(i, f)' \/ Finishing(i, f)'
    BY DEF FilesStay
  <2>1. CASE worker[W].job = <<i, f>>
    BY <2>1 DEF Finishing
  <2>2. CASE worker[W].job # <<i, f>>
    <3>1. There(i, f)
      BY <2>2 DEF Finishing
    <3>2. files'[i][f].sound = files[i][f].sound /\ files'[i][f].picture = files[i][f].picture
      BY <2>2 DEF PublishedFor, FileFields
    <3> QED BY <1>1, <3>1, <3>2 DEF There
  <2> QED BY <2>1, <2>2
<1>5. FilesShaped'
  BY DEF PublishedFor
<1> QED BY <1>3, <1>4, <1>5, SameConv, Works

LEMMA SoundStep ==
  ASSUME PInv, IInv', NEW W, Workers = {W}, PublishSound(W)
  PROVE  PInv' /\ Promises
<1>1. worker[W].at = "sound" /\ UNCHANGED <<stored, source, options, conv, killed>>
  BY DEF PublishSound, Published, process
<1>2. CASE Moves(W, "settle") /\ files' = files
  <2>1. WorkersShaped' /\ worker'[W].at = "settle"
    BY <1>1, <1>2, MovesTo DEF Running, BeforeEnd
  <2> QED BY <1>1, <1>2, <2>1, SameConv, Rests DEF Making, Ending
<1>3. CASE Publishes(W, "sound", worker[W].options) /\ Moves(W, "picture")
  <2>2. PICK value : value = worker[W].options
    OBVIOUS
  <2>3. PublishedFor(W, "sound", value)
    BY <1>1, <1>3, <2>2, PublishIs DEF FileFields, Running
  <2>4. /\ WorkersShaped' /\ worker'[W].at = "picture" /\ worker'[W].job = worker[W].job
        /\ worker'[W].options = worker[W].options
    BY <1>1, <1>3, MovesTo DEF Running, BeforeEnd
  <2>5. ASSUME NEW i \in Items, NEW f \in Formats, worker[W].job = <<i, f>>, stored[i] = "stored"
        PROVE  Partly(W, files[i][f], Kind(i))'
    <3>1. files'[i][f].sound = value
      BY <2>3, <2>5 DEF PublishedFor, FileFields
    <3> QED BY <2>2, <2>4, <2>5, <3>1 DEF Partly
  <2> QED BY <1>1, <2>3, <2>4, <2>5, PublishStep DEF FileFields, Making, Ending
<1> QED BY <1>2, <1>3 DEF PublishSound

LEMMA PictureStep ==
  ASSUME PInv, IInv', NEW W, Workers = {W}, PublishPicture(W)
  PROVE  PInv' /\ Promises
<1>1. /\ worker[W].at = "picture" /\ UNCHANGED <<stored, source, options, conv, killed>>
      /\ Moves(W, IF Kind(worker[W].job[1]) = "stinger" THEN "extra" ELSE "finish")
  BY DEF PublishPicture, Published, process
<1>2. PICK value : value = worker[W].options
  OBVIOUS
<1>3. PublishedFor(W, "picture", value)
  BY <1>1, <1>2, PublishIs DEF PublishPicture, FileFields, Running
<1>4. PICK to : to = IF Kind(worker[W].job[1]) = "stinger" THEN "extra" ELSE "finish"
  OBVIOUS
<1>5. /\ WorkersShaped' /\ worker'[W].at = to /\ worker'[W].job = worker[W].job
      /\ worker'[W].options = worker[W].options /\ worker'[W].silent = FALSE
  <2>1. to \in Running \cup {"settle"} /\ Moves(W, to)
    BY <1>1, <1>4 DEF Running
  <2>2. worker[W].silent = FALSE
    BY <1>1 DEF PInv, Shapes, WorkersShaped, BeforeEnd
  <2> QED BY <1>1, <2>1, <2>2, MovesTo DEF Running, BeforeEnd
<1>6. ASSUME NEW i \in Items, NEW f \in Formats, worker[W].job = <<i, f>>,
             stored[i] = "stored", Partly(W, files[i][f], Kind(i))
      PROVE  Partly(W, files[i][f], Kind(i))'
  <2>1. files'[i][f].picture = value /\ files'[i][f].sound = files[i][f].sound
    BY <1>3, <1>6 DEF PublishedFor, FileFields
  <2>2. Kind(i)' = Kind(i) /\ Kind(i) \in {"stinger", "still", "clip"}
    BY <1>1 DEF Kind
  <2>3. to = "finish" => Kind(i) # "stinger"
    BY <1>4, <1>6
  <2>4. to \in {"extra", "finish"}
    BY <1>4
  <2>5. Kind(i) = "clip" => files[i][f].sound = value
    BY <1>1, <1>2, <1>6 DEF Partly
  <2> QED BY <1>2, <1>5, <1>6, <2>1, <2>2, <2>3, <2>4, <2>5 DEF Partly
<1>7. worker[W].at \in Making \ {"finish"}
  BY <1>1 DEF Making
<1>8. to \in Ending
  BY <1>4 DEF Ending
<1> QED BY <1>1, <1>3, <1>5, <1>6, <1>7, <1>8, PublishStep DEF FileFields

LEMMA StingerStep ==
  ASSUME PInv, IInv', NEW W, Workers = {W}, PublishStinger(W)
  PROVE  PInv' /\ Promises
<1>1. worker[W].at = "extra" /\ UNCHANGED <<stored, source, options, conv, killed>>
  BY DEF PublishStinger, Published, process
<1>2. PICK silent \in BOOLEAN :
        /\ Publishes(W, "sound", IF silent THEN None ELSE worker[W].options)
        /\ worker' = [worker EXCEPT ![W].at = "finish", ![W].silent = silent]
  BY DEF PublishStinger
<1>3. PICK value : value = IF silent THEN None ELSE worker[W].options
  OBVIOUS
<1>4. PublishedFor(W, "sound", value)
  BY <1>1, <1>2, <1>3, PublishIs DEF FileFields, Running
<1>5. /\ worker' = [w \in Workers |-> worker'[w]]
      /\ worker'[W] = [x \in WorkerFields |-> worker'[W][x]]
      /\ worker'[W].at = "finish" /\ worker'[W].job = worker[W].job
      /\ worker'[W].options = worker[W].options /\ worker'[W].silent = silent
  BY <1>2 DEF PInv, Shapes, WorkersShaped, WorkerFields
<1>6. WorkersShaped'
  <2>1. worker[W].job \in Jobs
    BY <1>1 DEF PInv, Shapes, WorkersShaped, Running
  <2> QED BY <1>5, <2>1 DEF WorkersShaped, Jobs, BeforeEnd
<1>7. ASSUME NEW i \in Items, NEW f \in Formats, worker[W].job = <<i, f>>,
             stored[i] = "stored", Partly(W, files[i][f], Kind(i))
      PROVE  Partly(W, files[i][f], Kind(i))'
  <2>1. files'[i][f].sound = value /\ files'[i][f].picture = files[i][f].picture
    BY <1>4, <1>7 DEF PublishedFor, FileFields
  <2>2. files[i][f].picture = worker[W].options
    BY <1>1, <1>7 DEF Partly
  <2>3. value = IF silent = TRUE THEN None ELSE worker[W].options
    BY <1>3
  <2> QED BY <1>5, <2>1, <2>2, <2>3 DEF Partly
<1>8. worker[W].at \in Making \ {"finish"}
  BY <1>1 DEF Making
<1> QED BY <1>1, <1>4, <1>5, <1>6, <1>7, <1>8, PublishStep DEF FileFields, Ending

\* The end of a job: its conversion is the one that is played from now on.
LEMMA FinishStep ==
  ASSUME PInv, IInv', NEW W, Workers = {W}, Finish(W)
  PROVE  PInv' /\ Promises
<1>1. /\ worker[W].at = "finish"
      /\ UNCHANGED <<stored, source, options, files, killed>>
  BY DEF Finish, process
<1>2. PICK a \in Items, b \in Formats : worker[W].job = <<a, b>>
  BY <1>1 DEF PInv, Shapes, WorkersShaped, Running, Jobs
<1>3. PICK next \in Running \cup {"settle"} :
        next = (IF stored[a] = "stored" THEN "done" ELSE "settle") /\ Moves(W, next)
  BY <1>1, <1>2 DEF Finish, Running
<1>4. WorkersShaped' /\ worker'[W].at = next
  BY <1>1, <1>3, MovesTo DEF Running, BeforeEnd
<1>5. /\ FilesShaped' /\ OptionsKnown' /\ Made'
      /\ \A i \in Items : Kind(i)' = Kind(i)
  <2>1. FilesShaped' /\ OptionsKnown'
    BY <1>1 DEF PInv, Shapes, FilesShaped, OptionsKnown
  <2>2. Made'
    BY <1>3, <1>4 DEF Made, Making
  <2>3. \A i \in Items : Kind(i)' = Kind(i)
    BY <1>1 DEF Kind
  <2> QED BY <2>1, <2>2, <2>3
<1>6. \A i \in Items, f \in Formats : Finishing(i, f) => i = a /\ f = b
  BY <1>2 DEF Finishing
<1>7. CASE stored[a] # "stored"
  <2>1. conv' = conv
    BY <1>2, <1>7 DEF Finish, SetConv
  <2>2. ConvShaped'
    BY <2>1, SameConv
  <2>3. Unready'
    BY <1>1, <2>1 DEF PInv, Unready
  <2>4. Ready'
    <3> SUFFICES ASSUME NEW i \in Items, NEW f \in Formats, stored[i] = "stored",
                        conv[i][f].status = "ready"
                 PROVE  There(i, f)' \/ TornApart
      BY <1>1, <2>1 DEF Ready, TornApart
    <3>1. ~Finishing(i, f)
      BY <1>6, <1>7
    <3> QED BY <1>1, <1>5, <2>1, <3>1 DEF PInv, Ready, There
  <2>5. Promises
    BY <1>1, <2>1, Stutters DEF Plays, TornApart
  <2> QED BY <1>4, <1>5, <2>2, <2>3, <2>4, <2>5 DEF PInv, Shapes
<1>8. CASE stored[a] = "stored"
  <2>1. PICK to : to = [status |-> "ready", made |-> worker[W].options,
                        silent |-> worker[W].silent]
    OBVIOUS
  <2>2. IsSet(a, b, to)
    <3>1. Sets(a, b, to)
      BY <1>2, <1>8, <2>1 DEF Finish, SetConv, Sets
    <3> QED BY <3>1, SetIn
  <2>3. to = [x \in ConvFields |-> to[x]] /\ to.status = "ready"
    BY <2>1 DEF ConvFields
  <2>4. ConvShaped'
    BY <2>2, <2>3, ConvKeeps DEF IsSet
  <2>5. Unready'
    BY <1>1, <1>8, <2>2 DEF IsSet, PInv, Unready
  <2>6. worker[W].options \in Options /\ (TornApart \/ Partly(W, files[a][b], Kind(a)))
    BY <1>1, <1>2, <1>8 DEF PInv, Made, Making
  <2>7. TornApart \/ There(a, b)'
    <3>1. conv'[a][b] = to /\ to.silent = worker[W].silent /\ to.made = worker[W].options
      BY <2>1, <2>2 DEF IsSet
    <3> QED BY <1>1, <1>5, <2>6, <3>1, LibraryAssumption DEF There, Partly
  <2>8. Ready'
    <3> SUFFICES ASSUME NEW i \in Items, NEW f \in Formats, stored[i] = "stored",
                        conv'[i][f].status = "ready"
                 PROVE  There(i, f)' \/ TornApart
      BY <1>1 DEF Ready, TornApart
    <3>1. CASE i = a /\ f = b
      BY <2>7, <3>1
    <3>2. CASE ~(i = a /\ f = b)
      <4>1. conv'[i][f] = conv[i][f]
        BY <2>2, <3>2 DEF IsSet
      <4>2. ~Finishing(i, f)
        BY <1>6, <3>2
      <4> QED BY <1>1, <1>5, <4>1, <4>2 DEF PInv, Ready, There
    <3> QED BY <3>1, <3>2
  <2>9. Promises
    <3>1. PICK o \in Options : o = worker[W].options
      BY <2>6
    <3>2. \A i \in Items, f \in Formats :
            Plays(i, f)' = IF i = a /\ f = b THEN o ELSE Plays(i, f)
      BY <2>1, <2>2, <3>1 DEF IsSet, Plays
    <3>3. [i \in Items |-> [f \in Formats |-> Plays(i, f)']]
            = [[i \in Items |-> [f \in Formats |-> Plays(i, f)]] EXCEPT ![a][b] = o]
      BY <3>2
    <3>4. Promised!Replace(a, b, o)
      BY <1>1, <1>8, <3>3 DEF Promised!Replace, Plays, TornApart
    <3> QED BY <3>4 DEF Promised!Next, Promises
  <2> QED BY <1>4, <1>5, <2>4, <2>5, <2>8, <2>9 DEF PInv, Shapes
<1> QED BY <1>7, <1>8

-----------------------------------------------------------------------------
\* Every step keeps the invariant, and is a step of the promise or none.
LEMMA StepPromised ==
  ASSUME PInv, NEW W, Workers = {W}, [Next]_vars
  PROVE  PInv' /\ Promises
<1>1. IInv'
  BY StepKeeps DEF PInv
<1>2. CASE UNCHANGED vars
  BY <1>1, <1>2, QuietStep DEF vars, item, jobs, process
<1>3. ASSUME Work(W) PROVE PInv' /\ Promises
  <2>1. CASE ConvertClip(W)
    BY <1>1, <2>1, ConvertStep DEF ConvertClip
  <2>2. CASE ConvertStill(W)
    BY <1>1, <2>2, ConvertStep DEF ConvertStill
  <2>3. CASE ConvertStinger(W)
    BY <1>1, <2>3, ConvertStep DEF ConvertStinger
  <2> QED BY <1>1, <1>3, <2>1, <2>2, <2>3, TakeStep, BeginStep, SoundStep, PictureStep,
             StingerStep, FinishStep, DoneStep, SettleStep, SettleFailsStep, WorkFailsStep
         DEF Work
<1>4. ASSUME NEW c \in Clients, Api(c) PROVE PInv' /\ Promises
  <2>1. CASE ReconvertQueues(c)
    <3>1. \E high, slow : Queues(high, slow)
      BY <2>1 DEF ReconvertQueues
    <3> QED BY <1>1, <2>1, <3>1, QueueStep DEF ReconvertQueues, process
  <2>2. ASSUME NEW j \in Jobs, DeleteCancels(c, j) PROVE PInv' /\ Promises
    <3>1. CASE Active(j)
      <4>1. \E k \in Jobs : Cancels(k)
        BY <2>2, <3>1 DEF DeleteCancels
      <4> QED BY <1>1, <2>2, <4>1, CancelStep DEF DeleteCancels, process
    <3>2. CASE ~Active(j)
      BY <1>1, <2>2, <3>2, QuietStep DEF DeleteCancels, process
    <3> QED BY <3>1, <3>2
  <2>3. ASSUME NEW j \in Jobs, CancelJob(c, j) PROVE PInv' /\ Promises
    <3>1. \E k \in Jobs : Cancels(k)
      BY <2>3 DEF CancelJob
    <3> QED BY <1>1, <2>3, <3>1, CancelStep DEF CancelJob, process
  <2>4. CASE \/ DeleteReads(c) \/ DeleteRemembers(c) \/ Binds(c)
             \/ \E i \in Items : Delete(c, i) \/ Bind(c, i)
    BY <1>1, <2>4, QuietStep DEF DeleteReads, DeleteRemembers, Binds, Delete, Bind, item, jobs,
                                 process
  <2> QED BY <1>1, <1>4, <2>1, <2>2, <2>3, <2>4, RemovesItem, FailsToRemove, ReconvertStep
         DEF Api
<1>5. CASE KeepFormat \/ \E f \in Formats : SetFormat(f)
  BY <1>1, <1>5, QuietStep DEF KeepFormat, SetFormat, item, jobs, process
<1>6. CASE Upload
  <2>1. UNCHANGED <<stored, source, options, conv, files, worker, killed>>
    BY <1>6 DEF Upload, CreateUpload, Prune, Complete, FinishUpload, ChunkBegins, ChunkEnds,
                ChunkFails, Uploads, item, jobs, process
  <2> QED BY <1>1, <2>1, QuietStep
<1>7. ASSUME Intake PROVE PInv' /\ Promises
  <2>1. CASE \/ Appears \/ Claim \/ BeginLegacy
             \/ \E t \in Threads : Refuse(t) \/ \E i \in Items : Place(t, i)
    <3>1. UNCHANGED <<stored, source, options, conv, files, worker, killed>>
      BY <2>1 DEF Appears, Claim, BeginLegacy, Refuse, Place, item, jobs, process
    <3> QED BY <1>1, <3>1, QuietStep
  <2> QED BY <1>1, <1>7, <2>1, SavesItem, BreaksItem, QueueNewStep DEF Intake
<1> QED BY <1>1, <1>2, <1>3, <1>4, <1>5, <1>6, <1>7, ConvertAgainStep, StopStep, ProcessEnds,
           StartStep DEF Next

\* The jobs, the store and the files of the library, with one worker, implement
\* the promise: what an item plays stays until a newer conversion replaces it or
\* it is deleted, unless files were left in the middle of being put in place or removed.
THEOREM KeepsThePromise ==
  ASSUME NEW W, Workers = {W}
  PROVE  Spec => KeepsPromise
<1>1. Init => PInv /\ Promised!Init
  <2>1. Init => Promised!Init
    BY DEF Init, Promised!Init, Promised!Nothing, Missing, TornApart
  <2> QED BY <2>1, PInit
<1>2. PInv /\ [Next]_vars => PInv' /\ Promises
  BY StepPromised
<1> QED BY <1>1, <1>2, PTL DEF Spec, KeepsPromise, Promised!Spec, Promises

\* With one worker what is ready plays: its files are there, all of one conversion,
\* but while a job puts new ones in place or after files were left in the middle.
THEOREM ReadyIsPlayable ==
  ASSUME NEW W, Workers = {W}
  PROVE  Spec => []ReadyPlays
<1>1. PInv /\ [Next]_vars => PInv'
  BY StepPromised
<1>2. PInv => ReadyPlays
  <2> SUFFICES ASSUME PInv, NEW i \in Items, NEW f \in Formats, conv[i][f].status = "ready"
               PROVE  \/ /\ files[i][f].picture = conv[i][f].made
                         /\ Kind(i) = "still" \/ files[i][f].sound =
                              IF conv[i][f].silent THEN None ELSE conv[i][f].made
                      \/ TornApart
                      \/ \E w \in Workers :
                           /\ worker[w].job = <<i, f>>
                           /\ worker[w].at \in {"picture", "extra", "finish"}
    BY DEF ReadyPlays
  <2>1. stored[i] = "stored"
    BY DEF PInv, Unready
  <2>2. There(i, f) \/ TornApart \/ Finishing(i, f)
    BY <2>1 DEF PInv, Ready
  <2> QED BY <2>2 DEF There, TornApart, Finishing, Ending
<1> QED BY <1>1, <1>2, PInit, PTL DEF Spec

-----------------------------------------------------------------------------
(* What comes in becomes one whole item.  Three parts, of three threads: the *)
(* upload counts no chunk whose bytes are not there (Counted); the file of   *)
(* the import directory is where its thread is; and of the legacy storage    *)
(* there is one item at most, since an import begins only while there is     *)
(* none (OneLegacy) and what a call deletes is remembered before it goes     *)
(* (Remembered).                                                             *)

SessionTyped ==
  /\ session \in [at : {"none", "receiving", "completing", "done"}, got : SUBSET Chunks,
                  item : Items \cup {None}]
  /\ content \subseteq Chunks /\ writing \subseteq Chunks

\* What counts as received is there; what is completed has all of it, what is received no item.
Counted ==
  /\ session.got \subseteq content
  /\ session.at \in {"completing", "done"} => session.got = Chunks
  /\ session.at = "receiving" => session.item = None

\* What was made by a thread was stored once.
Sourced ==
  /\ source \in [Items -> Threads \cup {"none"}]
  /\ \A i \in Items : source[i] # "none" => stored[i] # "none"

\* A legacy item that is deleted, or is about to be, is remembered.
Remembered ==
  /\ \A i \in Items : source[i] = "legacy" /\ stored[i] = "gone" => skipped
  /\ \A c \in Clients : client[c].at = "remove" /\ source[client[c].item] = "legacy" => skipped

\* There is one legacy item, and none while one is imported.
OneLegacy ==
  /\ intake["legacy"].at \in {"claimed", "placed"} => \A i \in Items : source[i] # "legacy"
  /\ \A i, k \in Items : source[i] = "legacy" /\ source[k] = "legacy" => i = k

UploadPart == SessionTyped /\ Counted /\ OneItemPerUpload
LegacyPart == Sourced /\ Remembered /\ OneLegacy
NInv == IInv /\ UploadPart /\ LegacyPart /\ FilesAreKept

LEMMA NInit == Init => NInv
<1> SUFFICES ASSUME Init PROVE NInv
  OBVIOUS
<1>1. UploadPart
  BY DEF Init, UploadPart, SessionTyped, Counted, OneItemPerUpload, NoSession, Resting, Threads
<1>2. LegacyPart
  BY DEF Init, LegacyPart, Sourced, Remembered, OneLegacy, Resting, Idle, Threads
<1>3. FilesAreKept
  BY DEF Init, FilesAreKept
<1> QED BY <1>1, <1>2, <1>3, InitInv DEF NInv

\* The parts that a step leaves alone.
LEMMA UploadKept ==
  ASSUME UploadPart, UNCHANGED upload, intake'["upload"] = intake["upload"]
  PROVE  UploadPart'
BY DEF UploadPart, SessionTyped, Counted, OneItemPerUpload, upload

LEMMA LegacyKept ==
  ASSUME LegacyPart, UNCHANGED <<stored, source, client, skipped>>,
         intake'["legacy"] = intake["legacy"]
  PROVE  LegacyPart'
BY DEF LegacyPart, Sourced, Remembered, OneLegacy

LEMMA FileKept ==
  ASSUME FilesAreKept, UNCHANGED <<file, up>>, killed \subseteq killed',
         intake'["import"] = intake["import"]
  PROVE  FilesAreKept'
BY DEF FilesAreKept

\* The workers and the format have no part in it.
LEMMA WorkLeaves ==
  ASSUME \/ \E w \in Workers : Work(w)
         \/ KeepFormat \/ Stop
         \/ \E f \in Formats : SetFormat(f)
         \/ \E i \in Items : ConvertAgain(i)
  PROVE  /\ UNCHANGED <<stored, source, client, skipped, upload, file, up, intake>>
         /\ killed \subseteq killed'
<1>1. ASSUME NEW w \in Workers, Work(w)
      PROVE  /\ UNCHANGED <<stored, source, client, skipped, upload, file, up, intake>>
             /\ killed \subseteq killed'
  <2>1. CASE SettleFails(w) \/ WorkFails(w)
    BY <2>1 DEF SettleFails, WorkFails, Errs, item, rest
  <2>2. CASE ~(SettleFails(w) \/ WorkFails(w))
    BY <1>1, <2>2 DEF Work, Take, Begin, ConvertClip, ConvertStill, ConvertStinger, Convert,
                      PublishSound, PublishPicture, PublishStinger, Published, Finish, Done,
                      Settle, item, process, rest
  <2> QED BY <2>1, <2>2
<1>2. CASE KeepFormat \/ Stop
  BY <1>2 DEF KeepFormat, Stop, item, process, rest
<1>3. CASE \E f \in Formats : SetFormat(f)
  BY <1>3 DEF SetFormat, item
<1>4. CASE \E i \in Items : ConvertAgain(i)
  BY <1>4 DEF ConvertAgain
<1> QED BY <1>1, <1>2, <1>3, <1>4

\* A call touches the legacy item alone.
LEMMA ApiLeaves ==
  ASSUME NEW c \in Clients, Api(c)
  PROVE  UNCHANGED <<source, upload, file, up, intake>> /\ killed \subseteq killed'
<1>1. CASE DeleteFails(c)
  BY <1>1 DEF DeleteFails, Errs
<1>2. CASE ~DeleteFails(c)
  BY <1>2 DEF Api, Reconvert, ReconvertQueues, CancelJob, Delete, DeleteReads, DeleteCancels,
              DeleteRemembers, DeleteRemoves, Bind, Binds, item, process, rest
<1> QED BY <1>1, <1>2

\* A call that remembers nothing and does not come to remove an item.
LEMMA CallLeavesLegacy ==
  ASSUME IInv, LegacyPart, NEW c \in Clients, NEW at, NEW i, Call(c, at, i), at # "remove",
         UNCHANGED <<stored, source, skipped, intake>>
  PROVE  LegacyPart'
<1>1. \A d \in Clients : d # c => client'[d] = client[d]
  BY DEF Call, IInv, ClientTyped
<1>2. client'[c].at = at
  BY DEF Call, IInv, ClientTyped, Idle
<1> QED BY <1>1, <1>2 DEF LegacyPart, Sourced, Remembered, OneLegacy

LEMMA ApiLegacy ==
  ASSUME NInv, NEW c \in Clients, Api(c)
  PROVE  LegacyPart'
<1> USE DEF NInv
<1>1. UNCHANGED <<source, intake>>
  BY ApiLeaves
<1>2. CASE DeleteRemembers(c)
  <2>1. /\ stored' = stored /\ client[c].at = "cancel"
        /\ skipped' = (skipped \/ source[client[c].item] = "legacy")
        /\ Call(c, "remove", client[c].item)
    BY <1>2 DEF DeleteRemembers, item
  <2>2. \A d \in Clients : d # c => client'[d] = client[d]
    BY <2>1 DEF Call, IInv, ClientTyped
  <2>3. client'[c].item = client[c].item
    BY <2>1 DEF Call, IInv, ClientTyped
  <2>4. Remembered'
    BY <1>1, <2>1, <2>2, <2>3 DEF LegacyPart, Remembered
  <2> QED BY <1>1, <2>1, <2>4 DEF LegacyPart, Sourced, OneLegacy
<1>3. CASE DeleteRemoves(c)
  <2>1. /\ client[c].at = "remove" /\ skipped' = skipped
        /\ stored' = [stored EXCEPT ![client[c].item] = "gone"] /\ Call(c, "idle", None)
    BY <1>3 DEF DeleteRemoves
  <2>2. \A i \in Items : stored'[i] = IF i = client[c].item THEN "gone" ELSE stored[i]
    BY <2>1 DEF IInv, StoredTyped
  <2>3. \A d \in Clients : client'[d] = IF d = c THEN Idle ELSE client[d]
    BY <2>1 DEF Call, IInv, ClientTyped
  <2>4. Sourced'
    BY <1>1, <2>2 DEF LegacyPart, Sourced
  <2>5. Remembered'
    BY <1>1, <2>1, <2>2, <2>3 DEF LegacyPart, Remembered, Idle
  <2> QED BY <1>1, <2>4, <2>5 DEF LegacyPart, OneLegacy
<1>6. CASE DeleteFails(c)
  <2>1. /\ client[c].at = "remove" /\ skipped' = skipped
        /\ Remain({}, {client[c].item}) /\ Call(c, "idle", None)
    BY <1>6 DEF DeleteFails
  <2>2. client[c].item \in Items
    BY <2>1 DEF IInv, Deleting, Deletes
  <2>3. \A i \in Items : stored'[i] # stored[i] => stored'[i] = "gone" /\ i = client[c].item
    BY <2>1, <2>2, RemainKeeps
  <2>4. \A d \in Clients : client'[d] = IF d = c THEN Idle ELSE client[d]
    BY <2>1 DEF Call, IInv, ClientTyped
  <2>5. Sourced'
    BY <1>1, <2>3 DEF LegacyPart, Sourced
  <2>6. Remembered'
    BY <1>1, <2>1, <2>3, <2>4 DEF LegacyPart, Remembered, Idle
  <2> QED BY <1>1, <2>5, <2>6 DEF LegacyPart, OneLegacy
<1>4. CASE /\ ~DeleteRemembers(c) /\ ~DeleteRemoves(c) /\ ~DeleteFails(c)
           /\ ~\E j \in Jobs : DeleteCancels(c, j)
  <2>1. \/ ReconvertQueues(c) \/ DeleteReads(c) \/ Binds(c)
        \/ \E i \in Items : Delete(c, i) \/ (\E o \in Options : Reconvert(c, i, o))
        \/ \E j \in Jobs : CancelJob(c, j)
        \/ \E i \in Items : Bind(c, i)
    BY <1>4 DEF Api
  <2>2. UNCHANGED <<stored, skipped>>
    BY <2>1 DEF Reconvert, ReconvertQueues, CancelJob, Delete, DeleteReads, Bind, Binds, item
  <2>3. \E at \in {"idle", "reconvert", "delete", "cancel", "bind"}, i \in Items \cup {None} :
          Call(c, at, i)
    <3>1. CASE ReconvertQueues(c) \/ Binds(c) \/ \E j \in Jobs : CancelJob(c, j)
      BY <3>1 DEF ReconvertQueues, Binds, CancelJob
    <3>2. CASE DeleteReads(c)
      <4>1. client[c].item \in Items \cup {None} /\ Call(c, "cancel", client[c].item)
        BY <3>2 DEF DeleteReads, IInv, ClientTyped
      <4> QED BY <4>1
    <3>3. CASE \E i \in Items :
                 Delete(c, i) \/ Bind(c, i) \/ (\E o \in Options : Reconvert(c, i, o))
      BY <3>3 DEF Delete, Bind, Reconvert
    <3> QED BY <2>1, <3>1, <3>2, <3>3
  <2>4. PICK at \in {"idle", "reconvert", "delete", "cancel", "bind"}, i \in Items \cup {None} :
          Call(c, at, i)
    BY <2>3
  <2> QED BY <1>1, <2>2, <2>4, CallLeavesLegacy
<1>5. CASE \E j \in Jobs : DeleteCancels(c, j)
  BY <1>1, <1>5, LegacyKept DEF DeleteCancels, rest
<1> QED BY <1>2, <1>3, <1>4, <1>5, <1>6

\* A chunk, a completion, a session that is dropped.
LEMMA UploadParts ==
  ASSUME NInv, Upload
  PROVE  UploadPart' /\ LegacyPart' /\ FilesAreKept'
<1> USE DEF NInv
<1>1. /\ UNCHANGED <<stored, source, client, skipped, file, up, killed>>
      /\ \A t \in {"import", "legacy"} : intake'[t] = intake[t]
  BY DEF Upload, CreateUpload, Prune, Complete, FinishUpload, ChunkBegins, ChunkEnds, ChunkFails,
         Uploads, item, process, rest, Goes, IInv, IntakeTyped, Threads
<1>2. LegacyPart' /\ FilesAreKept'
  BY <1>1, LegacyKept, FileKept
<1>3. CASE CreateUpload \/ Prune
  <2>1. intake' = intake /\ writing' = writing /\ content' = {}
        /\ session.at # "completing"
        /\ \E at \in {"none", "receiving"} : session' = [at |-> at, got |-> {}, item |-> None]
    BY <1>3 DEF CreateUpload, Prune, Uploads, rest, NoSession
  <2> QED BY <1>2, <2>1 DEF UploadPart, SessionTyped, Counted, OneItemPerUpload
<1>4. ASSUME NEW k \in Chunks, ChunkBegins(k) \/ ChunkFails(k) PROVE UploadPart'
  BY <1>4 DEF ChunkBegins, ChunkFails, Uploads, rest, UploadPart, SessionTyped, Counted,
              OneItemPerUpload
<1>5. ASSUME NEW k \in Chunks, ChunkEnds(k) PROVE UploadPart'
  <2>1. /\ intake' = intake /\ writing' = writing \ {k} /\ content' = content \cup {k}
        /\ session' = IF session.at = "none" THEN session ELSE [session EXCEPT !.got = @ \cup {k}]
    BY <1>5 DEF ChunkEnds, Uploads, rest
  <2>2. /\ session'.at = session.at /\ session'.item = session.item
        /\ session'.got \in {session.got, session.got \cup {k}}
        /\ SessionTyped'
    BY <2>1 DEF UploadPart, SessionTyped
  <2>3. session.got \subseteq Chunks
    BY DEF UploadPart, SessionTyped
  <2>4. session.got \subseteq content /\ session'.got \subseteq content'
        /\ (session.got = Chunks => session'.got = Chunks)
    BY <2>1, <2>2, <2>3 DEF UploadPart, Counted
  <2>5. Counted'
    BY <2>2, <2>4 DEF UploadPart, Counted
  <2>6. OneItemPerUpload'
    BY <2>1, <2>2 DEF UploadPart, OneItemPerUpload
  <2> QED BY <2>2, <2>5, <2>6 DEF UploadPart
<1>6. CASE Complete
  <2>1. /\ session.at = "receiving" /\ session.got = Chunks /\ UNCHANGED <<content, writing>>
        /\ session' = [session EXCEPT !.at = "completing"]
    BY <1>6 DEF Complete
  <2>2. session'.at = "completing" /\ session'.got = session.got /\ session'.item = session.item
    BY <2>1 DEF UploadPart, SessionTyped
  <2>3. SessionTyped'
    BY <2>1 DEF UploadPart, SessionTyped
  <2> QED BY <1>2, <2>1, <2>2, <2>3 DEF UploadPart, Counted, OneItemPerUpload
<1>7. CASE FinishUpload
  <2>1. /\ intake["upload"].at = "queued" /\ UNCHANGED <<content, writing>>
        /\ session' = [session EXCEPT !.at = "done", !.item = intake["upload"].item]
        /\ intake'["upload"].at = "idle" /\ intake["upload"].item \in Items \cup {None}
    BY <1>7 DEF FinishUpload, Resting, IInv, IntakeTyped, Threads
  <2>2. session.at = "completing"
    BY <2>1 DEF UploadPart, OneItemPerUpload
  <2>3. SessionTyped'
    BY <2>1 DEF UploadPart, SessionTyped
  <2>4. session'.at = "done" /\ session'.got = session.got
    BY <2>1 DEF UploadPart, SessionTyped
  <2>5. Counted'
    BY <2>1, <2>2, <2>4 DEF UploadPart, Counted
  <2> QED BY <1>2, <2>1, <2>3, <2>5 DEF UploadPart, OneItemPerUpload
<1> QED BY <1>2, <1>3, <1>4, <1>5, <1>6, <1>7 DEF Upload

\* item.json of a new item: an upload goes on, a legacy item is the only one.
LEMMA SaveParts ==
  ASSUME NInv, NEW t \in Threads, Save(t)
  PROVE  UploadPart' /\ LegacyPart' /\ FilesAreKept'
<1> USE DEF NInv
<1> DEFINE i == intake[t].item
<1>1. i \in Items /\ stored[i] = "none" /\ intake[t].at = "placed"
  BY DEF IInv, Placed, Save
<1>2. /\ stored' = [stored EXCEPT ![i] = "stored"] /\ source' = [source EXCEPT ![i] = t]
      /\ UNCHANGED <<client, skipped, upload, up, killed>>
      /\ file' = IF t = "import" THEN "item" ELSE file
  BY DEF Save, process
<1>3. /\ intake'[t].at = "saved"
      /\ \A u \in Threads : u # t => intake'[u] = intake[u]
  BY DEF Save, Goes, IInv, IntakeTyped
<1> HIDE DEF i
<1>4. /\ \A k \in Items : stored'[k] = IF k = i THEN "stored" ELSE stored[k]
      /\ \A k \in Items : source'[k] = IF k = i THEN t ELSE source[k]
      /\ source' \in [Items -> Threads \cup {"none"}] /\ source[i] = "none"
  BY <1>1, <1>2 DEF IInv, StoredTyped, LegacyPart, Sourced
<1>5. UploadPart'
  <2>1. OneItemPerUpload'
    <3>1. intake'["upload"].at # "idle" => intake["upload"].at # "idle"
      BY <1>1, <1>3 DEF Threads
    <3> QED BY <1>2, <3>1 DEF UploadPart, OneItemPerUpload, upload
  <2> QED BY <1>2, <2>1 DEF UploadPart, SessionTyped, Counted, upload
<1>6. FilesAreKept'
  <2>1. CASE t = "import"
    BY <1>2, <2>1 DEF FilesAreKept
  <2>2. CASE t # "import"
    BY <1>2, <1>3, <2>2 DEF FilesAreKept, Threads
  <2> QED BY <2>1, <2>2
<1>7. LegacyPart'
  <2>1. Sourced'
    BY <1>4 DEF LegacyPart, Sourced
  <2>2. Remembered'
    <3>1. ASSUME NEW k \in Items, source'[k] = "legacy", stored'[k] = "gone" PROVE skipped'
      BY <1>2, <1>4, <3>1 DEF LegacyPart, Remembered
    <3>2. ASSUME NEW c \in Clients, client'[c].at = "remove", source'[client'[c].item] = "legacy"
          PROVE  skipped'
      <4>1. client[c].item \in Items /\ stored[client[c].item] # "none"
        BY <1>2, <3>2 DEF IInv, Deleting, Deletes
      <4> QED BY <1>1, <1>2, <1>4, <3>2, <4>1 DEF LegacyPart, Remembered
    <3> QED BY <3>1, <3>2 DEF Remembered
  <2>3. OneLegacy'
    <3>1. CASE t = "legacy"
      <4>1. \A k \in Items : source[k] # "legacy"
        BY <1>1, <3>1 DEF LegacyPart, OneLegacy
      <4> QED BY <1>3, <1>4, <3>1, <4>1 DEF OneLegacy
    <3>2. CASE t # "legacy"
      <4>1. intake'["legacy"] = intake["legacy"]
        BY <1>3, <3>2 DEF Threads
      <4>2. \A k \in Items : source'[k] = "legacy" => source[k] = "legacy"
        BY <1>4, <3>2
      <4> QED BY <4>1, <4>2 DEF LegacyPart, OneLegacy
    <3> QED BY <3>1, <3>2
  <2> QED BY <2>1, <2>2, <2>3 DEF LegacyPart
<1> QED BY <1>5, <1>6, <1>7

\* An error after the move: the upload is dropped, the file of the directory lost.
LEMMA BreakParts ==
  ASSUME NInv, NEW t \in Threads, Breaks(t)
  PROVE  UploadPart' /\ LegacyPart' /\ FilesAreKept'
<1> USE DEF NInv
<1> DEFINE i == intake[t].item
<1>1. i \in Items /\ stored[i] = "none"
  BY DEF IInv, Placed, Breaks
<1>2. /\ UNCHANGED <<source, client, skipped, up, killed, writing>>
      /\ stored' = [stored EXCEPT ![i] = "gone"]
      /\ file' = IF t = "import" THEN "lost" ELSE file
      /\ session' = IF t = "upload" THEN NoSession ELSE session
      /\ content' = IF t = "upload" THEN {} ELSE content
  BY DEF Breaks, process
<1>3. /\ \A u \in Threads : u # t => intake'[u] = intake[u]
      /\ intake'[t].at = IF t = "legacy" THEN "over" ELSE "idle"
  BY DEF Breaks, IInv, IntakeTyped, Resting
<1> HIDE DEF i
<1>4. \A k \in Items : stored'[k] = IF k = i THEN "gone" ELSE stored[k]
  BY <1>2 DEF IInv, StoredTyped
<1>5. UploadPart'
  <2>1. CASE t = "upload"
    BY <1>2, <1>3, <2>1 DEF UploadPart, SessionTyped, Counted, OneItemPerUpload, NoSession
  <2>2. CASE t # "upload"
    <3>1. intake'["upload"] = intake["upload"] /\ upload' = upload
      BY <1>2, <1>3, <2>2 DEF upload, Threads
    <3> QED BY <3>1, UploadKept
  <2> QED BY <2>1, <2>2
<1>6. LegacyPart'
  <2>1. source[i] = "none"
    BY <1>1 DEF LegacyPart, Sourced
  <2>2. Sourced' /\ Remembered'
    BY <1>2, <1>4, <2>1 DEF LegacyPart, Sourced, Remembered
  <2>3. intake'["legacy"].at \in {"claimed", "placed"} => intake'["legacy"] = intake["legacy"]
    BY <1>3 DEF Threads
  <2>4. OneLegacy'
    BY <1>2, <2>3 DEF LegacyPart, OneLegacy
  <2> QED BY <2>2, <2>4 DEF LegacyPart
<1>7. FilesAreKept'
  <2>1. CASE t = "import"
    BY <1>2, <2>1 DEF FilesAreKept
  <2>2. CASE t # "import"
    BY <1>2, <1>3, <2>2, FileKept DEF Threads
  <2> QED BY <2>1, <2>2
<1> QED BY <1>5, <1>6, <1>7

\* The other steps of a thread that makes items.
LEMMA IntakeParts ==
  ASSUME NInv, Intake
  PROVE  UploadPart' /\ LegacyPart' /\ FilesAreKept'
<1> USE DEF NInv
<1>1. CASE Appears
  <2>1. /\ UNCHANGED <<stored, source, client, skipped, upload, intake>> /\ file' = "dir"
    BY <1>1 DEF Appears, item
  <2> QED BY <2>1, UploadKept, LegacyKept DEF FilesAreKept
<1>2. CASE Claim
  <2>1. /\ UNCHANGED <<stored, source, client, skipped, upload>> /\ file' = "processing"
        /\ intake'["import"].at = "claimed"
        /\ intake'["upload"] = intake["upload"] /\ intake'["legacy"] = intake["legacy"]
    BY <1>2 DEF Claim, item, Goes, IInv, IntakeTyped, Threads
  <2> QED BY <2>1, UploadKept, LegacyKept DEF FilesAreKept
<1>3. CASE BeginLegacy
  <2>1. /\ UNCHANGED <<stored, source, client, skipped, upload, file, up, killed>>
        /\ intake'["import"] = intake["import"] /\ intake'["upload"] = intake["upload"]
        /\ ~skipped /\ \A i \in Items : stored[i] = "stored" => source[i] # "legacy"
    BY <1>3 DEF BeginLegacy, item, process, IInv, IntakeTyped, Threads
  <2>2. \A i \in Items : source[i] # "legacy"
    BY <2>1 DEF LegacyPart, Sourced, Remembered, IInv, StoredTyped
  <2>3. LegacyPart'
    BY <2>1, <2>2 DEF LegacyPart, Sourced, Remembered, OneLegacy
  <2> QED BY <2>1, <2>3, UploadKept, FileKept
<1>4. ASSUME NEW t \in Threads, NEW i \in Items, Place(t, i)
      PROVE  UploadPart' /\ LegacyPart' /\ FilesAreKept'
  <2>1. /\ UNCHANGED <<stored, source, client, skipped, upload, up, killed>>
        /\ intake[t].at = "claimed" /\ intake'[t].at = "placed"
        /\ file' = IF t = "import" THEN "moved" ELSE file
        /\ \A u \in Threads : u # t => intake'[u] = intake[u]
    BY <1>4 DEF Place, item, process, IInv, IntakeTyped
  <2>2. UploadPart'
    <3>1. intake'["upload"].at # "idle" => intake["upload"].at # "idle"
      BY <2>1 DEF Threads
    <3> QED BY <2>1, <3>1 DEF UploadPart, SessionTyped, Counted, OneItemPerUpload, upload
  <2>3. LegacyPart'
    <3>1. intake'["legacy"].at \in {"claimed", "placed"}
            => intake["legacy"].at \in {"claimed", "placed"}
      BY <2>1 DEF Threads
    <3> QED BY <2>1, <3>1 DEF LegacyPart, Sourced, Remembered, OneLegacy
  <2>4. FilesAreKept'
    <3>1. CASE t = "import"
      BY <2>1, <3>1 DEF FilesAreKept
    <3>2. CASE t # "import"
      BY <2>1, <3>2 DEF FilesAreKept, Threads
    <3> QED BY <3>1, <3>2
  <2> QED BY <2>2, <2>3, <2>4
<1>5. ASSUME NEW t \in Threads, Refuse(t) PROVE UploadPart' /\ LegacyPart' /\ FilesAreKept'
  <2>1. /\ UNCHANGED <<stored, source, client, skipped, up, killed, writing>>
        /\ t # "legacy" /\ intake'[t].at = "idle"
        /\ file' = IF t = "import" THEN "failed" ELSE file
        /\ session' = IF t = "upload" THEN NoSession ELSE session
        /\ content' = IF t = "upload" THEN {} ELSE content
        /\ \A u \in Threads : u # t => intake'[u] = intake[u]
    BY <1>5 DEF Refuse, item, process, IInv, IntakeTyped, Resting
  <2>2. intake'["legacy"] = intake["legacy"]
    BY <2>1 DEF Threads
  <2>3. CASE t = "upload"
    BY <2>1, <2>2, <2>3, LegacyKept, FileKept
       DEF UploadPart, SessionTyped, Counted, OneItemPerUpload, NoSession, Threads
  <2>4. CASE t = "import"
    <3>1. intake'["upload"] = intake["upload"] /\ upload' = upload
      BY <2>1, <2>4 DEF upload, Threads
    <3> QED BY <2>1, <2>2, <2>4, <3>1, LegacyKept, UploadKept DEF FilesAreKept
  <2> QED BY <2>1, <2>3, <2>4 DEF Threads
<1>6. ASSUME NEW t \in Threads, Save(t) PROVE UploadPart' /\ LegacyPart' /\ FilesAreKept'
  BY <1>6, SaveParts
<1>7. ASSUME NEW t \in Threads, QueueNew(t) PROVE UploadPart' /\ LegacyPart' /\ FilesAreKept'
  <2> DEFINE there == stored[intake[t].item] = "stored"
  <2>1. /\ UNCHANGED <<stored, source, client, skipped, up, killed, file, content, writing>>
        /\ intake[t].at = "saved"
        /\ \A u \in Threads : u # t => intake'[u] = intake[u]
        /\ session' = IF t = "upload" /\ ~there THEN NoSession ELSE session
    BY <1>7 DEF QueueNew, process, IInv, IntakeTyped
  <2>2. /\ t = "legacy" => intake'[t].at = "over"
        /\ t = "import" => intake'[t].at = "idle"
        /\ t = "upload" /\ ~there => intake'[t].at = "idle"
    BY <1>7 DEF QueueNew, IInv, IntakeTyped, Resting
  <2> HIDE DEF there
  <2>3. UploadPart'
    <3>1. CASE t = "upload" /\ ~there
      <4>1. session' = NoSession /\ intake'["upload"].at = "idle"
        BY <2>1, <2>2, <3>1
      <4>2. SessionTyped' /\ OneItemPerUpload'
        BY <2>1, <4>1 DEF UploadPart, SessionTyped, OneItemPerUpload, NoSession
      <4>3. Counted'
        BY <4>1 DEF Counted, NoSession
      <4> QED BY <4>2, <4>3 DEF UploadPart
    <3>2. CASE ~(t = "upload" /\ ~there)
      <4>1. session' = session /\ (intake'["upload"].at # "idle" => intake["upload"].at # "idle")
        BY <2>1, <3>2 DEF Threads
      <4> QED BY <2>1, <4>1 DEF UploadPart, SessionTyped, Counted, OneItemPerUpload
    <3> QED BY <3>1, <3>2
  <2>4. LegacyPart'
    <3>1. intake'["legacy"].at \in {"claimed", "placed"}
            => intake["legacy"].at \in {"claimed", "placed"}
      BY <2>1, <2>2 DEF Threads
    <3> QED BY <2>1, <3>1 DEF LegacyPart, Sourced, Remembered, OneLegacy
  <2>5. FilesAreKept'
    BY <2>1, <2>2 DEF FilesAreKept, Threads
  <2> QED BY <2>3, <2>4, <2>5
<1>8. ASSUME NEW t \in Threads, Breaks(t) PROVE UploadPart' /\ LegacyPart' /\ FilesAreKept'
  BY <1>8, BreakParts
<1> QED BY <1>1, <1>2, <1>3, <1>4, <1>5, <1>6, <1>7, <1>8 DEF Intake

\* A stop or kill drops the upload, what was placed is never saved; a start claims again.
LEMMA ExitParts ==
  ASSUME NInv, Exit
  PROVE  UploadPart' /\ LegacyPart' /\ FilesAreKept'
<1> USE DEF NInv
<1>1. /\ up' = FALSE /\ UNCHANGED <<source, file, skipped>>
      /\ client' = [c \in Clients |-> Idle] /\ intake' = [t \in Threads |-> Resting]
      /\ session' = NoSession /\ content' = {} /\ writing' = {}
  BY DEF Exit
<1>2. \A i \in Items : stored'[i] # stored[i] =>
        /\ stored'[i] = "gone"
        /\ stored[i] = "none" \/ \E c \in Clients : client[c].at = "remove" /\ client[c].item = i
  <2> DEFINE gone == {i \in Items : stored[i] = "none" /\ \E t \in Threads : intake[t].item = i}
  <2> DEFINE half == {i \in Items : \E c \in Clients : client[c] = [at |-> "remove", item |-> i]}
  <2>1. /\ Remain(gone, half) /\ gone \in SUBSET Items /\ half \in SUBSET Items
        /\ \A i \in gone : stored[i] = "none"
    BY DEF Exit
  <2>2. \A i \in half : \E c \in Clients : client[c].at = "remove" /\ client[c].item = i
    OBVIOUS
  <2> HIDE DEF gone, half
  <2>3. \A i \in Items : stored'[i] # stored[i] => stored'[i] = "gone" /\ i \in gone \cup half
    BY <2>1, RemainKeeps
  <2> QED BY <2>1, <2>2, <2>3
<1>3. killed \cup {t \in Threads : intake[t].at \in {"placed", "saved"}} \subseteq killed'
  BY DEF Exit
<1>4. UploadPart'
  BY <1>1 DEF UploadPart, SessionTyped, Counted, OneItemPerUpload, NoSession, Resting, Threads
<1>5. LegacyPart'
  <2>1. Sourced' /\ OneLegacy'
    BY <1>1, <1>2 DEF LegacyPart, Sourced, OneLegacy, Resting, Threads
  <2>2. Remembered'
    BY <1>1, <1>2 DEF LegacyPart, Sourced, Remembered, Idle
  <2> QED BY <2>1, <2>2 DEF LegacyPart
<1>6. FilesAreKept'
  BY <1>1, <1>3 DEF FilesAreKept, Threads
<1> QED BY <1>4, <1>5, <1>6

LEMMA StartParts ==
  ASSUME NInv, Start
  PROVE  UploadPart' /\ LegacyPart' /\ FilesAreKept'
<1> USE DEF NInv
<1>1. /\ UNCHANGED <<stored, source, client, skipped, upload, killed, intake>>
      /\ file' = IF file = "processing" THEN "dir" ELSE file
  BY DEF Start
<1> QED BY <1>1, UploadKept, LegacyKept DEF FilesAreKept

LEMMA NNext == ASSUME NInv, [Next]_vars PROVE NInv'
<1> USE DEF NInv
<1>1. IInv'
  BY StepKeeps
<1>2. CASE UNCHANGED vars
  <2>1. UNCHANGED <<stored, source, client, skipped, upload, file, up, killed, intake>>
    BY <1>2 DEF vars, item, process, rest
  <2> QED BY <1>1, <2>1, UploadKept, LegacyKept, FileKept
<1>3. CASE \/ \E w \in Workers : Work(w)
           \/ KeepFormat \/ Stop
           \/ \E f \in Formats : SetFormat(f)
           \/ \E i \in Items : ConvertAgain(i)
  BY <1>1, <1>3, WorkLeaves, UploadKept, LegacyKept, FileKept
<1>4. CASE \E c \in Clients : Api(c)
  BY <1>1, <1>4, ApiLeaves, ApiLegacy, UploadKept, FileKept
<1> QED BY <1>1, <1>2, <1>3, <1>4, UploadParts, IntakeParts, ExitParts, StartParts DEF Next

\* What comes in becomes one whole item; until its thread moves it, and then unless a kill or an
\* error comes before item.json, a file stays where it was or goes to .failed; and a legacy item
\* that was deleted does not come in again, whatever requests race and whenever the process is
\* killed.
THEOREM IntakeHolds == Spec => []IntakeInv
<1>1. NInv => IntakeInv
  <2> SUFFICES ASSUME NInv PROVE IntakeInv
    OBVIOUS
  <2>1. LegacyStaysDeleted
    BY DEF NInv, LegacyPart, Remembered, OneLegacy, LegacyStaysDeleted
  <2>2. UploadsAreWhole
    BY DEF NInv, UploadPart, SessionTyped, Counted, UploadsAreWhole
  <2> QED BY <2>1, <2>2 DEF NInv, UploadPart, IntakeInv
<1>2. NInv /\ [Next]_vars => NInv'
  BY NNext
<1> QED BY <1>1, <1>2, NInit, PTL DEF Spec

-----------------------------------------------------------------------------
(* No conversion is forgotten, with any number of workers.  A job is held    *)
(* while it is queued or a worker has it; it lives until its worker has      *)
(* nothing more to do but forget it.  What waits has a job that lives        *)
(* (GoOn), what has a job is not missing (HeldKnown), and what is not stored *)
(* has no conversions (Unmade), so that a new item begins without any.       *)

\* What heads, ends, removals and finite sets do to what a queue contains.
LEMMA ContainsHead ==
  ASSUME NEW s \in Seq(Jobs), s # << >>
  PROVE  /\ Head(s) \in Jobs /\ Tail(s) \in Seq(Jobs)
         /\ \A x : Contains(s, x) <=> x = Head(s) \/ Contains(Tail(s), x)
<1>1. /\ Len(s) \in Nat \ {0} /\ Head(s) = s[1] /\ Tail(s) \in Seq(Jobs)
      /\ Len(Tail(s)) = Len(s) - 1 /\ \A k \in 1 .. Len(s) - 1 : Tail(s)[k] = s[k + 1]
      /\ \A k \in 1 .. Len(s) : s[k] \in Jobs
  OBVIOUS
<1> DEFINE t == Tail(s)  n == Len(s)
<1>2. n \in Nat \ {0} /\ Len(t) = n - 1 /\ \A k \in 1 .. n - 1 : t[k] = s[k + 1]
  BY <1>1
<1> HIDE DEF t, n
<1>3. ASSUME NEW x, NEW k \in 1 .. n, s[k] = x, x # s[1]
      PROVE  \E l \in 1 .. n - 1 : t[l] = x
  <2>1. k - 1 \in 1 .. n - 1 /\ t[k - 1] = x
    BY <1>2, <1>3
  <2> QED BY <2>1
<1>4. ASSUME NEW x, NEW k \in 1 .. n - 1, t[k] = x
      PROVE  \E l \in 1 .. n : s[l] = x
  <2>1. k + 1 \in 1 .. n /\ s[k + 1] = x
    BY <1>2, <1>4
  <2> QED BY <2>1
<1>5. \A x : (\E k \in 1 .. n : s[k] = x) <=> x = s[1] \/ \E k \in 1 .. n - 1 : t[k] = x
  BY <1>2, <1>3, <1>4
<1> QED BY <1>1, <1>2, <1>5 DEF Contains, t, n

LEMMA ContainsBoth ==
  ASSUME NEW s \in Seq(Jobs), NEW t \in Seq(Jobs)
  PROVE  /\ s \o t \in Seq(Jobs)
         /\ \A x : Contains(s \o t, x) <=> Contains(s, x) \/ Contains(t, x)
<1> DEFINE u == s \o t  n == Len(s)  m == Len(t)
<1>1. /\ u \in Seq(Jobs) /\ n \in Nat /\ m \in Nat /\ Len(u) = n + m
      /\ \A k \in 1 .. n + m : u[k] = IF k <= n THEN s[k] ELSE t[k - n]
  OBVIOUS
<1> HIDE DEF u, n, m
<1>2. ASSUME NEW x, NEW k \in 1 .. n + m, u[k] = x
      PROVE  (\E l \in 1 .. n : s[l] = x) \/ \E l \in 1 .. m : t[l] = x
  <2>1. CASE k <= n
    BY <1>1, <1>2, <2>1
  <2>2. CASE k > n
    <3>1. k - n \in 1 .. m /\ t[k - n] = x
      BY <1>1, <1>2, <2>2
    <3> QED BY <3>1
  <2> QED BY <1>1, <2>1, <2>2
<1>3. ASSUME NEW x, NEW k \in 1 .. n, s[k] = x PROVE \E l \in 1 .. n + m : u[l] = x
  BY <1>1, <1>3
<1>4. ASSUME NEW x, NEW k \in 1 .. m, t[k] = x PROVE \E l \in 1 .. n + m : u[l] = x
  <2>1. n + k \in 1 .. n + m /\ u[n + k] = x
    BY <1>1, <1>4
  <2> QED BY <2>1
<1>5. \A x : (\E l \in 1 .. n + m : u[l] = x)
               <=> (\E l \in 1 .. n : s[l] = x) \/ \E l \in 1 .. m : t[l] = x
  BY <1>2, <1>3, <1>4
<1> QED BY <1>1, <1>5 DEF Contains, u, n, m

LEMMA WithoutIs ==
  ASSUME NEW s \in Seq(Jobs), NEW j
  PROVE  /\ Without(s, j) \in Seq(Jobs)
         /\ \A x : Contains(Without(s, j), x) => Contains(s, x)
         /\ \A x : Contains(s, x) /\ x # j => Contains(Without(s, j), x)
<1>1. CASE ~Contains(s, j)
  BY <1>1 DEF Without
<1>2. CASE Contains(s, j)
  <2> DEFINE i == CHOOSE k \in DOMAIN s : s[k] = j
  <2>1. i \in 1 .. Len(s) /\ s[i] = j
    BY <1>2 DEF Contains
  <2>2. Without(s, j) = SubSeq(s, 1, i - 1) \o SubSeq(s, i + 1, Len(s))
    BY <1>2 DEF Without, RemoveAt
  <2> HIDE DEF i
  <2> DEFINE a == SubSeq(s, 1, i - 1)  b == SubSeq(s, i + 1, Len(s))
  <2>3. a \in Seq(Jobs) /\ Len(a) = i - 1 /\ \A k \in 1 .. i - 1 : a[k] = s[k]
    BY <2>1
  <2>4. b \in Seq(Jobs) /\ Len(b) = Len(s) - i /\ \A k \in 1 .. Len(s) - i : b[k] = s[i + k]
    BY <2>1
  <2> HIDE DEF a, b
  <2>5. a \o b \in Seq(Jobs) /\ \A x : Contains(a \o b, x) <=> Contains(a, x) \/ Contains(b, x)
    BY <2>3, <2>4, ContainsBoth
  <2>6. \A x : Contains(a, x) => Contains(s, x)
    BY <2>1, <2>3 DEF Contains
  <2>7. ASSUME NEW x, Contains(b, x) PROVE Contains(s, x)
    <3>1. PICK k \in 1 .. Len(s) - i : b[k] = x
      BY <2>4, <2>7 DEF Contains
    <3>2. i + k \in 1 .. Len(s) /\ s[i + k] = x
      BY <2>1, <2>4, <3>1
    <3> QED BY <3>2 DEF Contains
  <2>8. ASSUME NEW x, Contains(s, x), x # j PROVE Contains(a, x) \/ Contains(b, x)
    <3>1. PICK k \in 1 .. Len(s) : s[k] = x
      BY <2>8 DEF Contains
    <3>2. CASE k < i
      <4>1. k \in 1 .. i - 1 /\ a[k] = x
        BY <2>1, <2>3, <3>1, <3>2
      <4> QED BY <2>3, <4>1 DEF Contains
    <3>3. CASE k > i
      <4>1. k - i \in 1 .. Len(s) - i /\ b[k - i] = x
        BY <2>1, <2>4, <3>1, <3>3
      <4> QED BY <2>4, <4>1 DEF Contains
    <3> QED BY <2>1, <2>8, <3>1, <3>2, <3>3
  <2> QED BY <2>2, <2>5, <2>6, <2>7, <2>8 DEF a, b
<1> QED BY <1>1, <1>2

\* A finite set as a sequence has its elements and no others.
LEMMA SetToSeqIs ==
  ASSUME NEW S \in SUBSET Jobs, IsFiniteSet(S)
  PROVE  SetToSeq(S) \in Seq(Jobs) /\ \A x : Contains(SetToSeq(S), x) <=> x \in S
<1> DEFINE n == Cardinality(S)  s == SetToSeq(S)
<1>1. n \in Nat /\ ExistsBijection(1 .. n, S)
  BY FS_CardinalityType
<1>2. \E f \in [1 .. n -> S] : IsInjective(f)
  <2>1. PICK f : f \in Bijection(1 .. n, S)
    BY <1>1 DEF ExistsBijection
  <2> QED BY <2>1 DEF Bijection, Injection, IsInjective
<1>3. s \in [1 .. n -> S] /\ IsInjective(s)
  BY <1>2 DEF SetToSeq
<1> HIDE DEF n, s
<1>4. s \in Seq(Jobs) /\ Len(s) = n
  BY <1>1, <1>3
<1>5. \A x : Contains(s, x) => x \in S
  BY <1>3, <1>4 DEF Contains
<1>6. ASSUME NEW x \in S, ~Contains(s, x) PROVE FALSE
  <2>1. IsFiniteSet(S \ {x}) /\ Cardinality(S \ {x}) = n - 1
    BY FS_RemoveElement DEF n
  <2>2. s \in Injection(1 .. n, S \ {x})
    BY <1>3, <1>4, <1>6 DEF Contains, Injection, IsInjective
  <2>3. IsFiniteSet(1 .. n) /\ Cardinality(1 .. n) = n
    BY <1>1, FS_Interval
  <2>4. n <= n - 1
    BY <2>1, <2>2, <2>3, FS_Injection DEF ExistsInjection
  <2> QED BY <1>1, <2>4
<1> QED BY <1>4, <1>5, <1>6 DEF s

Waiting == {"queued", "converting"}
Has(w, j) == worker[w].at # "idle" /\ worker[w].job = j
Held(j) == Queued(j) \/ \E w \in Workers : Has(w, j)
AtDone(j) == \E w \in Workers : worker[w].at = "done" /\ Has(w, j)
Lives(j) == Queued(j) \/ \E w \in Workers : worker[w].at # "done" /\ Has(w, j)

QueuesTyped ==
  queue \in Seq(Jobs) /\ low \in Seq(Jobs) /\ doomed \in [Clients -> SUBSET Jobs]
WorkersTyped ==
  /\ worker \in [Workers -> [at : Running \cup {"idle", "settle"}, job : Jobs \cup {None},
                             options : Options \cup {None}, cancel : BOOLEAN, silent : BOOLEAN]]
  /\ \A w \in Workers : worker[w].at # "idle" => worker[w].job \in Jobs
ConvTyped ==
  conv \in [Items -> [Formats -> [status : Statuses, made : Options \cup {None},
                                  silent : BOOLEAN]]]
AllFilesTyped ==
  files \in [Items -> [Formats -> [sound : Options \cup {None}, picture : Options \cup {None}]]]
ItemsTyped ==
  /\ options \in [Items -> Options \cup {None}]
  /\ \A i \in Items : stored[i] = "stored" => source[i] \in Threads
OthersTyped ==
  /\ maker \in Threads /\ changing \subseteq Items /\ bound \in Items \cup {None}
  /\ file \in {"none", "dir", "processing", "moved", "item", "failed", "lost"}
QTyped ==
  QueuesTyped /\ WorkersTyped /\ ConvTyped /\ AllFilesTyped /\ ItemsTyped /\ OthersTyped

\* While the process is down there are no jobs.
Down == ~up => queue = << >> /\ low = << >> /\ \A w \in Workers : worker[w].at = "idle"

\* What is not stored has no conversions.
Unmade == \A i \in Items, f \in Formats : stored[i] # "stored" => conv[i][f].status = "missing"

\* What is about to be queued was stored once.
Asked ==
  /\ \A c \in Clients : client[c].at = "reconvert" =>
       client[c].item \in Items /\ stored[client[c].item] # "none"
  /\ \A t \in Threads : intake[t].at = "saved" =>
       intake[t].item \in Items /\ stored[intake[t].item] # "none"

\* What has a job was stored once, and while it is, is not missing.
HeldKnown ==
  \A i \in Items, f \in Formats : Held(<<i, f>>) =>
    /\ stored[i] # "none"
    /\ stored[i] = "stored" => conv[i][f].status # "missing"

\* The jobs go on, and the end of every one that failed was written.
Going == up /\ ~stop /\ "record" \notin killed

\* The conversions that have to go on: those the mixer waits for, and any whose worker
\* is only about to forget it, since that job still keeps others from being queued.
Concerns(i, f) == f = format /\ i \notin changing /\ "change" \notin killed
GoOn ==
  Going => \A i \in Items, f \in Formats :
    /\ stored[i] = "stored" /\ conv[i][f].status \in Waiting
    /\ Concerns(i, f) \/ AtDone(<<i, f>>)
    => Lives(<<i, f>>)

\* A new item is known to be missing only until its thread has queued it.
Coming(i) == intake[source[i]].item = i /\ intake[source[i]].at = "saved"
NewKnown ==
  \A i \in Items :
    /\ stored[i] = "stored" /\ i \notin changing /\ source[i] \notin killed \cup {"legacy"}
    /\ killed \cap {"format", "change"} = {} /\ ~Coming(i)
    => conv[i][format].status # "missing"

\* The import of the legacy storage has read the format.
LegacyFormat ==
  intake["legacy"].at \in {"claimed", "placed", "saved"} => intake["legacy"].format \in Formats

QParts == QTyped /\ Down /\ Unmade /\ Asked /\ HeldKnown /\ GoOn /\ NewKnown
QInv == NInv /\ LegacyFormat /\ QParts

-----------------------------------------------------------------------------
LEMMA ActiveLives ==
  ASSUME WorkersTyped, NEW j
  PROVE  /\ Active(j) => Held(j) /\ (Lives(j) \/ AtDone(j))
         /\ Lives(j) => Held(j)
BY DEF WorkersTyped, Active, IsRunning, Held, Lives, AtDone, Has, Running

LEMMA QInit == Init => QInv
<1> SUFFICES ASSUME Init PROVE QInv
  OBVIOUS
<1>1. NInv /\ LegacyFormat
  BY NInit DEF Init, LegacyFormat, Resting, Threads
<1>2. /\ queue = << >> /\ low = << >> /\ \A w \in Workers : worker[w].at = "idle"
      /\ \A i \in Items : stored[i] = "none"
      /\ \A i \in Items, f \in Formats : conv[i][f].status = "missing"
  BY DEF Init, Free, Missing
<1>3. \A j : ~Held(j)
  BY <1>2 DEF Held, Has, Queued, Contains
<1>4. QTyped
  <2>1. QueuesTyped
    BY DEF Init, QueuesTyped
  <2>2. WorkersTyped
    BY DEF Init, WorkersTyped, Free
  <2>3. ConvTyped /\ AllFilesTyped
    BY DEF Init, ConvTyped, AllFilesTyped, Missing, NoFiles, Statuses
  <2>4. ItemsTyped /\ OthersTyped
    BY <1>2 DEF Init, ItemsTyped, OthersTyped
  <2> QED BY <2>1, <2>2, <2>3, <2>4 DEF QTyped
<1>5. Down /\ Unmade /\ HeldKnown /\ GoOn
  BY <1>2, <1>3 DEF Down, Unmade, HeldKnown, GoOn, Waiting
<1>6. Asked /\ NewKnown
  BY <1>2 DEF Init, Asked, NewKnown, Idle, Resting
<1> QED BY <1>1, <1>4, <1>5, <1>6 DEF QInv, QParts

-----------------------------------------------------------------------------
(* Steps by what they do to the conversions and their jobs *)

\* What waits without a job that lives did so before.
StillWaits(i, f) ==
  conv'[i][f].status \in Waiting =>
    \/ Lives(<<i, f>>)'
    \/ /\ conv[i][f].status \in Waiting /\ ~Lives(<<i, f>>)
       /\ AtDone(<<i, f>>)' => AtDone(<<i, f>>)

\* What is missing was so before, and gets no job.
StillKnown(i, f) ==
  conv'[i][f].status = "missing" =>
    conv[i][f].status = "missing" /\ (Held(<<i, f>>)' => Held(<<i, f>>))

Follows ==
  \A i \in Items, f \in Formats :
    /\ stored'[i] = "stored" => StillWaits(i, f) /\ StillKnown(i, f)
    /\ Held(<<i, f>>)' => Held(<<i, f>>) \/ stored'[i] # "none"

\* No item is new.
NoneNew ==
  \A i \in Items : /\ stored'[i] = "stored" => stored[i] = "stored"
                   /\ stored[i] # "none" => stored'[i] # "none"

LEMMA HeldFollows ==
  ASSUME QInv, Follows, NoneNew
  PROVE  HeldKnown'
BY DEF QInv, QParts, HeldKnown, Follows, StillKnown, NoneNew

\* What concerns the mixer now and did not before, is seen to on its own.
LEMMA GoOnFollows ==
  ASSUME QInv, Follows, NoneNew, Going' => Going,
         \A i \in Items, f \in Formats :
           Concerns(i, f)' => \/ Concerns(i, f)
                              \/ Going' /\ stored'[i] = "stored"
                                   /\ conv'[i][f].status \in Waiting => Lives(<<i, f>>)'
  PROVE  GoOn'
<1> SUFFICES ASSUME Going', NEW i \in Items, NEW f \in Formats, stored'[i] = "stored",
                    conv'[i][f].status \in Waiting, Concerns(i, f)' \/ AtDone(<<i, f>>)',
                    ~Lives(<<i, f>>)'
             PROVE  FALSE
  BY DEF GoOn, Waiting
<1>1. stored[i] = "stored" /\ Going
  BY DEF NoneNew
<1>2. /\ conv[i][f].status \in Waiting /\ ~Lives(<<i, f>>)
      /\ AtDone(<<i, f>>)' => AtDone(<<i, f>>)
  BY DEF Follows, StillWaits
<1>3. Concerns(i, f) \/ AtDone(<<i, f>>)
  BY <1>2
<1> QED BY <1>1, <1>2, <1>3 DEF QInv, QParts, GoOn

LEMMA NewFollows ==
  ASSUME QInv, Follows, NoneNew, format' = format, killed \subseteq killed',
         \A i \in Items : stored'[i] = "stored" =>
           /\ source'[i] = source[i]
           /\ \/ (i \notin changing' => i \notin changing) /\ (Coming(i) => Coming(i)')
              \/ conv'[i][format].status # "missing"
  PROVE  NewKnown'
<1> SUFFICES ASSUME NEW i \in Items, stored'[i] = "stored", i \notin changing',
                    source'[i] \notin killed' \cup {"legacy"},
                    killed' \cap {"format", "change"} = {}, ~Coming(i)',
                    conv'[i][format].status = "missing"
             PROVE  FALSE
  BY DEF NewKnown
<1>1. /\ stored[i] = "stored" /\ source'[i] = source[i] /\ i \notin changing /\ ~Coming(i)
      /\ source[i] \notin killed \cup {"legacy"} /\ killed \cap {"format", "change"} = {}
  BY DEF NoneNew
<1>2. conv[i][format].status = "missing"
  BY DEF Follows, StillKnown, QInv, QParts, NInv, IInv, FormatTyped
<1> QED BY <1>1, <1>2 DEF QInv, QParts, NewKnown

\* A step that leaves the items, the format and the threads alone.
LEMMA JobsFollow ==
  ASSUME QInv, Follows, up' /\ ~stop' => up /\ ~stop, killed \subseteq killed',
         UNCHANGED <<stored, source, format, changing, intake>>
  PROVE  HeldKnown' /\ GoOn' /\ NewKnown'
<1>1. NoneNew
  BY DEF NoneNew
<1>2. HeldKnown'
  BY <1>1, HeldFollows
<1>3. GoOn'
  BY <1>1, GoOnFollows DEF Concerns, Going
<1>4. NewKnown'
  BY <1>1, NewFollows DEF Coming
<1> QED BY <1>2, <1>3, <1>4

\* What Queues() does: new jobs of what has no active one, and nothing is lost.
LEMMA QueuesDo ==
  ASSUME QInv, NEW high \in SUBSET Jobs, NEW slow \in SUBSET Jobs,
         IsFiniteSet(high), IsFiniteSet(slow), Queues(high, slow),
         UNCHANGED <<stored, worker>>,
         \A j \in high \cup slow : stored[j[1]] # "none"
  PROVE  /\ QueuesTyped' /\ ConvTyped' /\ Unmade' /\ Follows
         /\ \A j : Queued(j)' <=> Queued(j) \/ (j \in high \cup slow /\ ~Active(j))
         /\ \A i \in Items, f \in Formats : stored[i] = "stored" /\ <<i, f>> \in high \cup slow =>
              /\ conv'[i][f].status # "missing"
              /\ Going /\ conv'[i][f].status \in Waiting => Lives(<<i, f>>)'
<1> DEFINE new == {j \in high \cup slow : ~Active(j)}
           again == [Missing EXCEPT !.status = "queued"]
<1>0. /\ queue \in Seq(Jobs) /\ low \in Seq(Jobs) /\ doomed \in [Clients -> SUBSET Jobs]
      /\ WorkersTyped /\ ConvTyped
  BY DEF QInv, QParts, QTyped, QueuesTyped
<1>1. /\ queue' = queue \o SetToSeq(new \cap high) /\ low' = low \o SetToSeq(new \cap slow)
      /\ conv' = [i \in Items |-> [f \in Formats |->
                    IF <<i, f>> \in new /\ stored[i] = "stored" /\ ~OnDisk(<<i, f>>)
                    THEN again ELSE conv[i][f]]]
      /\ doomed' = [c \in Clients |-> doomed[c] \ new]
  BY DEF Queues
<1>2. again.status = "queued" /\ again \in [status : Statuses, made : Options \cup {None},
                                            silent : BOOLEAN]
  BY DEF Missing, Statuses
<1>3. new \subseteq high \cup slow /\ \A j \in high \cup slow : j \in new <=> ~Active(j)
  OBVIOUS
<1> HIDE DEF new, again
<1>4. /\ new \cap high \in SUBSET Jobs /\ IsFiniteSet(new \cap high)
      /\ new \cap slow \in SUBSET Jobs /\ IsFiniteSet(new \cap slow)
  BY FS_Subset
<1>5. /\ queue' \in Seq(Jobs) /\ low' \in Seq(Jobs)
      /\ \A j : Contains(queue', j) <=> Contains(queue, j) \/ j \in new \cap high
      /\ \A j : Contains(low', j) <=> Contains(low, j) \/ j \in new \cap slow
  <2>1. /\ SetToSeq(new \cap high) \in Seq(Jobs)
        /\ \A j : Contains(SetToSeq(new \cap high), j) <=> j \in new \cap high
    BY <1>4, SetToSeqIs
  <2>2. /\ SetToSeq(new \cap slow) \in Seq(Jobs)
        /\ \A j : Contains(SetToSeq(new \cap slow), j) <=> j \in new \cap slow
    BY <1>4, SetToSeqIs
  <2>3. /\ queue' \in Seq(Jobs)
        /\ \A j : Contains(queue', j) <=> Contains(queue, j) \/ j \in new \cap high
    BY <1>0, <1>1, <2>1, ContainsBoth
  <2>4. /\ low' \in Seq(Jobs)
        /\ \A j : Contains(low', j) <=> Contains(low, j) \/ j \in new \cap slow
    BY <1>0, <1>1, <2>2, ContainsBoth
  <2> QED BY <2>3, <2>4
<1>6. \A j : Queued(j)' <=> Queued(j) \/ j \in new
  BY <1>3, <1>5 DEF Queued
<1>7. /\ \A j : Held(j)' <=> Held(j) \/ j \in new
      /\ \A j : Lives(j)' <=> Lives(j) \/ j \in new
      /\ \A j : AtDone(j)' <=> AtDone(j)
  BY <1>6 DEF Held, Lives, AtDone, Has
<1>8. \A i \in Items, f \in Formats :
        \/ conv'[i][f] = conv[i][f]
             /\ (<<i, f>> \in new /\ stored[i] = "stored" => OnDisk(<<i, f>>))
        \/ conv'[i][f] = again /\ <<i, f>> \in new /\ stored[i] = "stored"
  BY <1>1
<1>9. \A i \in Items, f \in Formats : OnDisk(<<i, f>>) => conv[i][f].status = "ready"
  BY DEF OnDisk
<1>10. QueuesTyped'
  BY <1>0, <1>1, <1>5 DEF QueuesTyped
<1>11. ConvTyped'
  BY <1>0, <1>1, <1>2 DEF ConvTyped
<1>12. Unmade'
  <2> SUFFICES ASSUME NEW i \in Items, NEW f \in Formats, stored[i] # "stored"
               PROVE  conv'[i][f].status = "missing"
    BY DEF Unmade
  <2>1. conv'[i][f] = conv[i][f]
    BY <1>8
  <2> QED BY <2>1 DEF QInv, QParts, Unmade
<1>13. Follows
  <2> SUFFICES ASSUME NEW i \in Items, NEW f \in Formats
               PROVE  /\ stored[i] = "stored" => StillWaits(i, f) /\ StillKnown(i, f)
                      /\ Held(<<i, f>>)' => Held(<<i, f>>) \/ stored[i] # "none"
    BY DEF Follows
  <2>1. ASSUME stored[i] = "stored" PROVE StillWaits(i, f)
    BY <1>2, <1>7, <1>8, <2>1 DEF StillWaits
  <2>2. ASSUME stored[i] = "stored" PROVE StillKnown(i, f)
    BY <1>2, <1>7, <1>8, <1>9, <2>2 DEF StillKnown
  <2>3. Held(<<i, f>>)' => Held(<<i, f>>) \/ stored[i] # "none"
    BY <1>3, <1>7
  <2> QED BY <2>1, <2>2, <2>3
<1>14. ASSUME NEW i \in Items, NEW f \in Formats, stored[i] = "stored",
              <<i, f>> \in high \cup slow
       PROVE  /\ conv'[i][f].status # "missing"
              /\ Going /\ conv'[i][f].status \in Waiting => Lives(<<i, f>>)'
  <2>1. CASE <<i, f>> \in new
    BY <1>2, <1>7, <1>8, <1>9, <1>14, <2>1
  <2>2. CASE <<i, f>> \notin new
    <3>1. Active(<<i, f>>) /\ conv'[i][f] = conv[i][f]
      BY <1>3, <1>8, <1>14, <2>2
    <3>2. Held(<<i, f>>) /\ (Lives(<<i, f>>) \/ AtDone(<<i, f>>))
      BY <1>0, <3>1, ActiveLives
    <3>3. conv[i][f].status # "missing"
      BY <1>14, <3>2 DEF QInv, QParts, HeldKnown
    <3>4. Going /\ conv[i][f].status \in Waiting => Lives(<<i, f>>)
      BY <1>14, <3>2 DEF QInv, QParts, GoOn
    <3> QED BY <1>7, <3>1, <3>3, <3>4
  <2> QED BY <2>1, <2>2
<1> QED BY <1>3, <1>6, <1>10, <1>11, <1>12, <1>13, <1>14

\* One conversion is replaced in the store.
LEMMA SetConvDo ==
  ASSUME ConvTyped, NEW j \in Jobs, NEW to, SetConv(j, to)
  PROVE  /\ \A i \in Items, f \in Formats :
              conv'[i][f] = IF <<i, f>> = j /\ stored[i] = "stored" THEN to ELSE conv[i][f]
         /\ to \in [status : Statuses, made : Options \cup {None}, silent : BOOLEAN] => ConvTyped'
<1>1. PICK a \in Items, b \in Formats : j = <<a, b>>
  BY DEF Jobs
<1>2. CASE stored[a] # "stored"
  BY <1>1, <1>2 DEF SetConv, ConvTyped
<1>3. CASE stored[a] = "stored"
  <2>1. conv' = [conv EXCEPT ![a][b] = to]
    BY <1>1, <1>3 DEF SetConv
  <2>2. conv' = [conv EXCEPT ![a] = [conv[a] EXCEPT ![b] = to]]
    BY <2>1
  <2>3. \A i \in Items, f \in Formats : conv'[i][f] = IF i = a /\ f = b THEN to ELSE conv[i][f]
    BY <2>2 DEF ConvTyped
  <2>4. ASSUME to \in [status : Statuses, made : Options \cup {None}, silent : BOOLEAN]
        PROVE  ConvTyped'
    BY <2>2, <2>4 DEF ConvTyped
  <2> QED BY <1>1, <1>3, <2>3, <2>4
<1> QED BY <1>2, <1>3

\* The end of a job: its conversion fails, unless it is ready.
LEMMA SettledIs ==
  ASSUME ConvTyped, NEW j \in Jobs
  PROVE  /\ Settled(j) \in [status : Statuses, made : Options \cup {None}, silent : BOOLEAN]
         /\ Settled(j).status \in {"ready", "failed"}
<1>1. j[1] \in Items /\ j[2] \in Formats
  BY DEF Jobs
<1>2. OnDisk(j) => conv[j[1]][j[2]].status = "ready"
  BY DEF OnDisk
<1>3. conv[j[1]][j[2]] \in [status : Statuses, made : Options \cup {None}, silent : BOOLEAN]
  BY <1>1 DEF ConvTyped
<1> QED BY <1>2, <1>3 DEF Settled, Missing, Statuses

\* What Cancels() does: a job that waits is gone and its conversion has ended.
LEMMA CancelsDo ==
  ASSUME QInv, NEW j \in Jobs, Cancels(j), UNCHANGED stored
  PROVE  /\ queue' \in Seq(Jobs) /\ low' \in Seq(Jobs)
         /\ WorkersTyped' /\ ConvTyped' /\ Unmade' /\ Follows
<1>0. queue \in Seq(Jobs) /\ low \in Seq(Jobs) /\ WorkersTyped /\ ConvTyped
  BY DEF QInv, QParts, QTyped, QueuesTyped
<1>1. worker' = [w \in Workers |-> IF worker[w].job = j /\ worker[w].at \in Running
                                   THEN [worker[w] EXCEPT !.cancel = TRUE] ELSE worker[w]]
  BY DEF Cancels
<1>2. WorkersTyped' /\ \A w \in Workers : /\ worker'[w].at = worker[w].at
                                          /\ worker'[w].job = worker[w].job
  BY <1>0, <1>1 DEF WorkersTyped
<1>3. /\ queue' \in Seq(Jobs) /\ low' \in Seq(Jobs) /\ ConvTyped'
      /\ \A x : Queued(x)' => Queued(x)
      /\ \A x : Queued(x) => Queued(x)' \/ x = j
      /\ \/ conv' = conv /\ UNCHANGED <<queue, low>>
         \/ \A i \in Items, f \in Formats :
              conv'[i][f] = IF <<i, f>> = j /\ stored[i] = "stored" THEN Settled(j) ELSE conv[i][f]
  <2>1. CASE IsRunning(j)
    BY <1>0, <2>1 DEF Cancels, Queued, ConvTyped
  <2>2. CASE ~IsRunning(j)
    <3>1. queue' = Without(queue, j) /\ low' = Without(low, j) /\ SetConv(j, Settled(j))
      BY <2>2 DEF Cancels
    <3>2. /\ queue' \in Seq(Jobs) /\ low' \in Seq(Jobs)
          /\ \A x : Queued(x)' => Queued(x)
          /\ \A x : Queued(x) => Queued(x)' \/ x = j
      BY <1>0, <3>1, WithoutIs DEF Queued
    <3> QED BY <1>0, <3>1, <3>2, SetConvDo, SettledIs
  <2> QED BY <2>1, <2>2
<1>4. /\ \A x : Held(x)' => Held(x)
      /\ \A x : Lives(x) => Lives(x)' \/ x = j
      /\ \A x : AtDone(x)' <=> AtDone(x)
      /\ UNCHANGED <<queue, low>> => \A x : Lives(x) => Lives(x)'
  BY <1>2, <1>3 DEF Held, Lives, AtDone, Has, Queued
<1>5. Settled(j).status \in {"ready", "failed"}
  BY <1>0, SettledIs
<1>6. Unmade'
  BY <1>3 DEF QInv, QParts, Unmade
<1>7. Follows
  <2> SUFFICES ASSUME NEW i \in Items, NEW f \in Formats
               PROVE  /\ stored[i] = "stored" => StillWaits(i, f) /\ StillKnown(i, f)
                      /\ Held(<<i, f>>)' => Held(<<i, f>>) \/ stored[i] # "none"
    BY DEF Follows
  <2>1. ASSUME stored[i] = "stored" PROVE StillWaits(i, f)
    BY <1>3, <1>4, <1>5, <2>1 DEF StillWaits, Waiting
  <2>2. ASSUME stored[i] = "stored" PROVE StillKnown(i, f)
    BY <1>3, <1>4, <1>5, <2>2 DEF StillKnown
  <2> QED BY <1>4, <2>1, <2>2
<1> QED BY <1>2, <1>3, <1>6, <1>7

-----------------------------------------------------------------------------
(* The workers *)

\* A worker goes on with its job.
LEMMA Turns ==
  ASSUME QInv, NEW w \in Workers, NEW to, worker' = [worker EXCEPT ![w] = to],
         to \in [at : Running \cup {"settle"}, job : Jobs \cup {None},
                options : Options \cup {None}, cancel : BOOLEAN, silent : BOOLEAN],
         worker[w].at # "idle", to.job = worker[w].job, UNCHANGED <<queue, low>>
  PROVE  /\ QTyped => WorkersTyped'
         /\ \A j : Held(j)' <=> Held(j)
         /\ \A j : Lives(j) => Lives(j)' \/ (to.at = "done" /\ j = to.job)
         /\ \A j : AtDone(j)' => AtDone(j) \/ (to.at = "done" /\ j = to.job)
<1>1. WorkersTyped
  BY DEF QInv, QParts, QTyped
<1>2. \A v \in Workers : worker'[v] = IF v = w THEN to ELSE worker[v]
  BY <1>1 DEF WorkersTyped
<1>3. to.at # "idle"
  BY DEF Running
<1>4. WorkersTyped'
  BY <1>1, <1>2, <1>3 DEF WorkersTyped
<1>5. \A j : Queued(j)' <=> Queued(j)
  BY DEF Queued
<1>6. \A v \in Workers : \A j : Has(v, j)' <=> Has(v, j)
  BY <1>2, <1>3 DEF Has
<1>7. \A j : Held(j)' <=> Held(j)
  BY <1>5, <1>6 DEF Held
<1>8. \A j : Lives(j) => Lives(j)' \/ (to.at = "done" /\ j = to.job)
  BY <1>2, <1>3, <1>5, <1>6 DEF Lives, Has
<1>9. \A j : AtDone(j)' => AtDone(j) \/ (to.at = "done" /\ j = to.job)
  BY <1>2, <1>6 DEF AtDone, Has
<1> QED BY <1>4, <1>7, <1>8, <1>9

\* The record of a worker that goes to another step.
LEMMA MovesIs ==
  ASSUME QInv, NEW w \in Workers, NEW at \in Running \cup {"settle"}, Moves(w, at),
         worker[w].at # "idle"
  PROVE  \E to : /\ worker' = [worker EXCEPT ![w] = to] /\ to.at = at /\ to.job = worker[w].job
                 /\ to \in [at : Running \cup {"settle"}, job : Jobs \cup {None},
                            options : Options \cup {None}, cancel : BOOLEAN, silent : BOOLEAN]
<1> DEFINE to == [worker[w] EXCEPT !.at = at]
<1>1. worker[w] \in [at : Running \cup {"idle", "settle"}, job : Jobs \cup {None},
                    options : Options \cup {None}, cancel : BOOLEAN, silent : BOOLEAN]
  BY DEF QInv, QParts, QTyped, WorkersTyped
<1>2. worker' = [worker EXCEPT ![w] = to]
  BY DEF Moves
<1>3. /\ to.at = at /\ to.job = worker[w].job
      /\ to \in [at : Running \cup {"settle"}, job : Jobs \cup {None},
                 options : Options \cup {None}, cancel : BOOLEAN, silent : BOOLEAN]
  BY <1>1
<1> QED BY <1>2, <1>3

\* What a worker leaves alone; what is left is the jobs, the conversions and the files.
LEMMA WorkParts ==
  ASSUME QInv, UNCHANGED <<stored, source, options, doomed, upload, rest>>, up,
         UNCHANGED process \/ (UNCHANGED <<stop, up, maker>> /\ killed \subseteq killed'),
         QueuesTyped', WorkersTyped', ConvTyped', AllFilesTyped', Unmade', Follows
  PROVE  QParts'
<1>1. /\ UNCHANGED <<up, stop, maker, format, changing, client, bound, file, intake>>
      /\ killed \subseteq killed'
  BY DEF process, rest
<1>2. ItemsTyped' /\ OthersTyped'
  BY <1>1 DEF QInv, QParts, QTyped, ItemsTyped, OthersTyped
<1>3. Down' /\ Asked'
  BY <1>1 DEF Down, QInv, QParts, Asked
<1>4. HeldKnown' /\ GoOn' /\ NewKnown'
  BY <1>1, JobsFollow
<1> QED BY <1>2, <1>3, <1>4 DEF QParts, QTyped

\* The conversions stay as they are.
LEMMA SameFollows ==
  ASSUME QInv, UNCHANGED <<stored, conv>>, \A j : Held(j)' => Held(j),
         \A j : Lives(j) => Lives(j)', \A j : AtDone(j)' => AtDone(j)
  PROVE  ConvTyped' /\ Unmade' /\ Follows
<1>1. ConvTyped' /\ Unmade'
  BY DEF QInv, QParts, QTyped, ConvTyped, Unmade
<1>2. Follows
  BY DEF Follows, StillWaits, StillKnown
<1> QED BY <1>1, <1>2

\* The steps of a worker that change nothing but where it is, and perhaps its files.
LEMMA GoesOn ==
  ASSUME QInv, NEW w \in Workers, NEW to, worker' = [worker EXCEPT ![w] = to],
         to \in [at : Running \cup {"settle"}, job : Jobs \cup {None},
                options : Options \cup {None}, cancel : BOOLEAN, silent : BOOLEAN],
         worker[w].at # "idle", to.job = worker[w].job, to.at # "done", AllFilesTyped',
         UNCHANGED process \/ (UNCHANGED <<stop, up, maker>> /\ killed \subseteq killed'),
         UNCHANGED <<stored, source, options, conv, waits, upload, rest>>
  PROVE  QParts'
<1>1. UNCHANGED <<queue, low, doomed>> /\ QTyped /\ up
  BY DEF waits, QInv, QParts, Down
<1>2. /\ WorkersTyped' /\ \A j : Held(j)' <=> Held(j)
      /\ \A j : Lives(j) => Lives(j)'
      /\ \A j : AtDone(j)' => AtDone(j)
  BY <1>1, Turns
<1>3. ConvTyped' /\ Unmade' /\ Follows
  BY <1>2, SameFollows
<1>4. QueuesTyped'
  BY <1>1 DEF QTyped, QueuesTyped
<1> QED BY <1>1, <1>2, <1>3, <1>4, WorkParts

LEMMA FilesSame == ASSUME QInv, UNCHANGED files PROVE AllFilesTyped'
BY DEF QInv, QParts, QTyped, AllFilesTyped

\* A file takes its place.
LEMMA PublishesTyped ==
  ASSUME QInv, NEW w \in Workers, worker[w].at # "idle", NEW x \in {"sound", "picture"},
         NEW value \in Options \cup {None}, Publishes(w, x, value)
  PROVE  AllFilesTyped'
<1>1. PICK a \in Items, b \in Formats : worker[w].job = <<a, b>>
  BY DEF QInv, QParts, QTyped, WorkersTyped, Jobs
<1>2. AllFilesTyped
  BY DEF QInv, QParts, QTyped
<1>3. CASE stored[a] = "stored"
  <2> DEFINE new == [files[a][b] EXCEPT ![x] = value]
  <2>1. files' = [files EXCEPT ![a] = [files[a] EXCEPT ![b] = new]]
    BY <1>1, <1>3 DEF Publishes
  <2>2. new \in [sound : Options \cup {None}, picture : Options \cup {None}]
    <3>1. files[a][b] \in [sound : Options \cup {None}, picture : Options \cup {None}]
      BY <1>2 DEF AllFilesTyped
    <3>2. CASE x = "sound"
      BY <3>1, <3>2
    <3>3. CASE x = "picture"
      BY <3>1, <3>3
    <3> QED BY <3>2, <3>3
  <2> HIDE DEF new
  <2> QED BY <1>2, <2>1, <2>2 DEF AllFilesTyped
<1>4. CASE stored[a] # "stored"
  BY <1>1, <1>2, <1>4 DEF Publishes, AllFilesTyped
<1> QED BY <1>3, <1>4

LEMMA TakeKeeps ==
  ASSUME QInv, NEW w \in Workers, Take(w)
  PROVE  QParts'
<1>1. /\ queue \in Seq(Jobs) /\ low \in Seq(Jobs) /\ QTyped /\ WorkersTyped
      /\ up /\ worker[w].at = "idle" /\ queue \o low # << >>
      /\ UNCHANGED <<stored, source, options, conv, files, doomed, upload, process, rest>>
  BY DEF QInv, QParts, QTyped, QueuesTyped, Take, item
<1>2. PICK j \in Jobs : /\ j = Head(queue \o low)
                        /\ worker' = [worker EXCEPT ![w] = [Free EXCEPT !.at = "taken", !.job = j]]
  BY DEF Take
<1>3. /\ queue' \in Seq(Jobs) /\ low' \in Seq(Jobs)
      /\ \A x : Queued(x) <=> Queued(x)' \/ x = j
  <2>1. CASE queue # << >>
    <3>1. j = Head(queue) /\ queue' = Tail(queue) /\ low' = low
      BY <1>1, <1>2, <2>1 DEF Take
    <3>2. \A x : Contains(queue, x) <=> x = Head(queue) \/ Contains(Tail(queue), x)
      BY <1>1, <2>1, ContainsHead
    <3> QED BY <1>1, <2>1, <3>1, <3>2 DEF Queued
  <2>2. CASE queue = << >>
    <3>1. low # << >> /\ j = Head(low) /\ low' = Tail(low) /\ queue' = queue
      BY <1>1, <1>2, <2>2 DEF Take
    <3>2. \A x : Contains(low, x) <=> x = Head(low) \/ Contains(Tail(low), x)
      BY <1>1, <3>1, ContainsHead
    <3> QED BY <1>1, <2>2, <3>1, <3>2 DEF Queued
  <2> QED BY <2>1, <2>2
<1>4. /\ WorkersTyped'
      /\ \A v \in Workers : IF v = w THEN worker'[v].at = "taken" /\ worker'[v].job = j
                                       ELSE worker'[v] = worker[v]
  BY <1>1, <1>2 DEF WorkersTyped, Free, Running
<1>5. /\ \A x : Held(x)' => Held(x)
      /\ \A x : Lives(x) => Lives(x)'
      /\ \A x : AtDone(x)' => AtDone(x)
  BY <1>1, <1>3, <1>4 DEF Held, Lives, AtDone, Has
<1>6. ConvTyped' /\ Unmade' /\ Follows
  BY <1>1, <1>5, SameFollows
<1>7. QueuesTyped'
  BY <1>1, <1>3 DEF QTyped, QueuesTyped
<1> QED BY <1>1, <1>4, <1>6, <1>7, WorkParts, FilesSame

LEMMA BeginKeeps ==
  ASSUME QInv, NEW w \in Workers, Begin(w)
  PROVE  QParts'
<1> DEFINE j == worker[w].job
           Kind1 == [at : Running \cup {"settle"}, job : Jobs \cup {None},
                     options : Options \cup {None}, cancel : BOOLEAN, silent : BOOLEAN]
           to == [worker[w] EXCEPT !.at = "convert", !.options = options[j[1]]]
           value == IF OnDisk(j) THEN conv[j[1]][j[2]]
                    ELSE [conv[j[1]][j[2]] EXCEPT !.status = "converting"]
<1>1. /\ worker[w].at = "taken" /\ worker[w].at # "idle" /\ j \in Jobs /\ up
      /\ QTyped /\ ConvTyped
      /\ UNCHANGED <<stored, source, options, files, waits, upload, process, rest>>
  BY DEF QInv, QParts, QTyped, WorkersTyped, Down, Begin
<1>2. CASE Moves(w, "settle") /\ UNCHANGED conv
  <2>1. "settle" \in Running \cup {"settle"} /\ "settle" # "done"
    OBVIOUS
  <2> QED BY <1>1, <1>2, <2>1, MovesIs, GoesOn, FilesSame
<1>3. CASE worker' = [worker EXCEPT ![w] = to] /\ SetConv(j, value)
  <2>1. worker' = [worker EXCEPT ![w] = to] /\ SetConv(j, value)
    BY <1>3
  <2>2. to \in Kind1 /\ to.at = "convert" /\ to.job = j
    <3>1. worker[w] \in [at : Running \cup {"idle", "settle"}, job : Jobs \cup {None},
                        options : Options \cup {None}, cancel : BOOLEAN, silent : BOOLEAN]
      BY <1>1 DEF QTyped, WorkersTyped
    <3>2. options[j[1]] \in Options \cup {None}
      BY <1>1 DEF QTyped, ItemsTyped, Jobs
    <3> QED BY <3>1, <3>2 DEF Running
  <2>3. /\ value \in [status : Statuses, made : Options \cup {None}, silent : BOOLEAN]
        /\ value.status \in {"ready", "converting"}
    <3>1. j[1] \in Items /\ j[2] \in Formats
      BY <1>1 DEF Jobs
    <3>2. conv[j[1]][j[2]] \in [status : Statuses, made : Options \cup {None}, silent : BOOLEAN]
      BY <1>1, <3>1 DEF ConvTyped
    <3>3. OnDisk(j) => conv[j[1]][j[2]].status = "ready"
      BY DEF OnDisk
    <3> QED BY <3>2, <3>3 DEF Statuses
  <2> HIDE DEF to, value
  <2>4. /\ ConvTyped'
        /\ \A i \in Items, f \in Formats :
             conv'[i][f] = IF <<i, f>> = j /\ stored[i] = "stored" THEN value ELSE conv[i][f]
    BY <1>1, <2>1, <2>3, SetConvDo
  <2>5. UNCHANGED <<queue, low, doomed>>
    BY <1>1 DEF waits
  <2>6. /\ WorkersTyped' /\ \A x : Held(x)' <=> Held(x)
        /\ \A x : Lives(x) => Lives(x)'
        /\ \A x : AtDone(x)' => AtDone(x)
    BY <1>1, <2>1, <2>2, <2>5, Turns
  <2>7. \A x : x = j => Lives(x)'
    <3>1. worker'[w] = to
      BY <1>1, <2>1 DEF QTyped, WorkersTyped
    <3> QED BY <2>2, <3>1 DEF Lives, Has
  <2>8. Unmade'
    BY <1>1, <2>4 DEF QInv, QParts, Unmade
  <2>9. Follows
    <3> SUFFICES ASSUME NEW i \in Items, NEW f \in Formats
                 PROVE  /\ stored'[i] = "stored" => StillWaits(i, f) /\ StillKnown(i, f)
                        /\ Held(<<i, f>>)' => Held(<<i, f>>) \/ stored'[i] # "none"
      BY DEF Follows
    <3>1. CASE conv'[i][f] = conv[i][f]
      BY <2>6, <3>1 DEF StillWaits, StillKnown
    <3>2. CASE conv'[i][f] = value /\ <<i, f>> = j
      BY <2>3, <2>6, <2>7, <3>2 DEF StillWaits, StillKnown
    <3> QED BY <2>4, <3>1, <3>2
  <2>10. QueuesTyped'
    BY <1>1, <2>5 DEF QTyped, QueuesTyped
  <2> QED BY <1>1, <2>4, <2>5, <2>6, <2>8, <2>9, <2>10, WorkParts, FilesSame
<1> QED BY <1>2, <1>3 DEF Begin

LEMMA ConvertKeeps ==
  ASSUME QInv, NEW w \in Workers, ConvertClip(w) \/ ConvertStill(w) \/ ConvertStinger(w)
  PROVE  QParts'
<1>1. PICK kind \in {"clip", "still", "stinger"}, to \in {"sound", "picture"} : Convert(w, kind, to)
  BY DEF ConvertClip, ConvertStill, ConvertStinger
<1>2. PICK at \in {"sound", "picture", "settle"} : Moves(w, at)
  BY <1>1 DEF Convert
<1>3. /\ worker[w].at # "idle"
      /\ UNCHANGED <<stored, source, options, conv, files, waits, upload, process, rest>>
  BY <1>1 DEF Convert, item
<1>4. at \in Running \cup {"settle"} /\ at # "done"
  BY DEF Running
<1> QED BY <1>2, <1>3, <1>4, MovesIs, GoesOn, FilesSame

LEMMA PublishKeeps ==
  ASSUME QInv, NEW w \in Workers, PublishSound(w) \/ PublishPicture(w) \/ PublishStinger(w)
  PROVE  QParts'
<1>1. /\ worker[w].at # "idle" /\ worker[w].options \in Options \cup {None}
      /\ worker[w] \in [at : Running \cup {"idle", "settle"}, job : Jobs \cup {None},
                        options : Options \cup {None}, cancel : BOOLEAN, silent : BOOLEAN]
      /\ UNCHANGED <<stored, source, options, conv, waits, upload, process, rest>>
  BY DEF PublishSound, PublishPicture, PublishStinger, Published, QInv, QParts, QTyped, WorkersTyped
<1>2. CASE PublishSound(w)
  <2>1. AllFilesTyped'
    BY <1>1, <1>2, PublishesTyped, FilesSame DEF PublishSound
  <2>2. PICK at \in {"picture", "settle"} : Moves(w, at)
    BY <1>2 DEF PublishSound
  <2>3. at \in Running \cup {"settle"} /\ at # "done"
    BY DEF Running
  <2> QED BY <1>1, <2>1, <2>2, <2>3, MovesIs, GoesOn
<1>3. CASE PublishPicture(w)
  <2>1. Publishes(w, "picture", worker[w].options) /\ \E at \in {"extra", "finish"} : Moves(w, at)
    BY <1>3 DEF PublishPicture
  <2>2. {"extra", "finish"} \subseteq Running \cup {"settle"}
    BY DEF Running
  <2> QED BY <1>1, <2>1, <2>2, PublishesTyped, MovesIs, GoesOn
<1>4. CASE PublishStinger(w)
  <2>1. PICK silent \in BOOLEAN :
          /\ Publishes(w, "sound", IF silent THEN None ELSE worker[w].options)
          /\ worker' = [worker EXCEPT ![w].at = "finish", ![w].silent = silent]
    BY <1>4 DEF PublishStinger
  <2> DEFINE to == [worker[w] EXCEPT !.at = "finish", !.silent = silent]
  <2>2. worker' = [worker EXCEPT ![w] = to]
    BY <2>1
  <2>3. /\ to \in [at : Running \cup {"settle"}, job : Jobs \cup {None},
                   options : Options \cup {None}, cancel : BOOLEAN, silent : BOOLEAN]
        /\ to.job = worker[w].job /\ to.at # "done"
    BY <1>1 DEF Running
  <2> HIDE DEF to
  <2>4. AllFilesTyped'
    BY <1>1, <2>1, PublishesTyped
  <2> QED BY <1>1, <2>2, <2>3, <2>4, GoesOn
<1> QED BY <1>2, <1>3, <1>4

LEMMA FinishKeeps ==
  ASSUME QInv, NEW w \in Workers, Finish(w)
  PROVE  QParts'
<1> DEFINE j == worker[w].job
           Kind1 == [at : Running \cup {"settle"}, job : Jobs \cup {None},
                     options : Options \cup {None}, cancel : BOOLEAN, silent : BOOLEAN]
           value == [status |-> "ready", made |-> worker[w].options, silent |-> worker[w].silent]
           at == IF stored[j[1]] = "stored" THEN "done" ELSE "settle"
<1>1. /\ worker[w].at = "finish" /\ worker[w].at # "idle" /\ j \in Jobs /\ up
      /\ QTyped /\ ConvTyped /\ SetConv(j, value) /\ Moves(w, at)
      /\ UNCHANGED <<stored, source, options, files, waits, upload, process, rest>>
  BY DEF QInv, QParts, QTyped, WorkersTyped, Down, Finish
<1>2. /\ value \in [status : Statuses, made : Options \cup {None}, silent : BOOLEAN]
      /\ value.status = "ready"
  <2>1. worker[w] \in [at : Running \cup {"idle", "settle"}, job : Jobs \cup {None},
                      options : Options \cup {None}, cancel : BOOLEAN, silent : BOOLEAN]
    BY <1>1 DEF QTyped, WorkersTyped
  <2> QED BY <2>1 DEF Statuses
<1>3. /\ at \in Running \cup {"settle"} /\ (at = "done" => stored[j[1]] = "stored")
  BY DEF Running
<1> HIDE DEF value, at
<1>4. /\ ConvTyped'
      /\ \A i \in Items, f \in Formats :
           conv'[i][f] = IF <<i, f>> = j /\ stored[i] = "stored" THEN value ELSE conv[i][f]
  BY <1>1, <1>2, SetConvDo
<1>5. UNCHANGED <<queue, low, doomed>>
  BY <1>1 DEF waits
<1>6. PICK to \in Kind1 : worker' = [worker EXCEPT ![w] = to] /\ to.at = at /\ to.job = j
  BY <1>1, <1>3, MovesIs
<1>7. /\ WorkersTyped' /\ \A x : Held(x)' <=> Held(x)
      /\ \A x : Lives(x) => Lives(x)' \/ (at = "done" /\ x = j)
      /\ \A x : AtDone(x)' => AtDone(x) \/ (at = "done" /\ x = j)
  BY <1>1, <1>5, <1>6, Turns
<1>8. Unmade'
  BY <1>1, <1>4 DEF QInv, QParts, Unmade
<1>9. Follows
  <2> SUFFICES ASSUME NEW i \in Items, NEW f \in Formats
               PROVE  /\ stored[i] = "stored" => StillWaits(i, f) /\ StillKnown(i, f)
                      /\ Held(<<i, f>>)' => Held(<<i, f>>) \/ stored[i] # "none"
    BY <1>1 DEF Follows
  <2>1. CASE <<i, f>> # j
    BY <1>4, <1>7, <2>1 DEF StillWaits, StillKnown
  <2>2. CASE <<i, f>> = j
    BY <1>2, <1>4, <1>7, <2>2 DEF StillWaits, StillKnown, Waiting
  <2> QED BY <2>1, <2>2
<1>10. QueuesTyped'
  BY <1>1, <1>5 DEF QTyped, QueuesTyped
<1> QED BY <1>1, <1>4, <1>5, <1>7, <1>8, <1>9, <1>10, WorkParts, FilesSame

\* A worker forgets its job.
LEMMA Forgets ==
  ASSUME QInv, NEW w \in Workers, worker[w].at \in {"done", "settle"},
         worker' = [worker EXCEPT ![w] = Free], UNCHANGED <<queue, low>>
  PROVE  /\ WorkersTyped'
         /\ \A x : Held(x)' => Held(x)
         /\ \A x : Lives(x) => Lives(x)' \/ (x = worker[w].job /\ worker[w].at = "settle")
         /\ \A x : AtDone(x)' => AtDone(x)
<1> DEFINE j == worker[w].job
<1>1. WorkersTyped' /\ \A v \in Workers : worker'[v] = IF v = w THEN Free ELSE worker[v]
  BY DEF QInv, QParts, QTyped, WorkersTyped, Free
<1>2. \A x : Queued(x)' <=> Queued(x)
  BY DEF Queued
<1>3. /\ \A v \in Workers : v # w => worker'[v] = worker[v]
      /\ worker'[w].at = "idle"
  BY <1>1 DEF Free
<1>4. \A v \in Workers : \A x :
        /\ Has(v, x)' => Has(v, x) /\ v # w
        /\ Has(v, x) => Has(v, x)' \/ (v = w /\ x = j)
  BY <1>3 DEF Has
<1> QED BY <1>1, <1>2, <1>3, <1>4 DEF Held, Lives, AtDone

\* A worker forgets its job: what it had waits no more, or the process stops.
LEMMA EndsKeep ==
  ASSUME QInv, NEW w \in Workers, Done(w) \/ Settle(w)
  PROVE  QParts'
<1> DEFINE j == worker[w].job
<1>1. /\ worker[w].at \in {"done", "settle"} /\ j \in Jobs /\ up
      /\ QTyped /\ ConvTyped /\ worker' = [worker EXCEPT ![w] = Free]
      /\ UNCHANGED <<stored, source, options, files, waits, upload, process, rest>>
  BY DEF QInv, QParts, QTyped, WorkersTyped, Down, Done, Settle, item
<1>2. UNCHANGED <<queue, low, doomed, up, stop, maker, killed, format, changing, client, bound,
                  file, intake>>
  BY <1>1 DEF waits, process, rest
<1>3. WorkersTyped'
  BY <1>1, <1>2, Forgets
<1>4. /\ \A x : Held(x)' => Held(x)
      /\ \A x : Lives(x) => Lives(x)' \/ (x = j /\ worker[w].at = "settle")
      /\ \A x : AtDone(x)' => AtDone(x)
  BY <1>1, <1>2, Forgets
<1>5. Settled(j) \in [status : Statuses, made : Options \cup {None}, silent : BOOLEAN]
      /\ Settled(j).status \in {"ready", "failed"}
  BY <1>1, SettledIs
<1>6. /\ ConvTyped'
      /\ \/ conv' = conv /\ (stop \/ worker[w].at = "done")
         \/ \A i \in Items, f \in Formats :
              conv'[i][f] = IF <<i, f>> = j /\ stored[i] = "stored" THEN Settled(j) ELSE conv[i][f]
  <2>1. CASE conv' = conv /\ (stop \/ worker[w].at = "done")
    BY <1>1, <2>1 DEF ConvTyped
  <2>2. CASE SetConv(j, Settled(j))
    BY <1>1, <1>5, <2>2, SetConvDo
  <2> QED BY <2>1, <2>2 DEF Done, Settle, item
<1>7. Unmade'
  BY <1>1, <1>6 DEF QInv, QParts, Unmade
<1>8. QueuesTyped'
  BY <1>1, <1>2 DEF QTyped, QueuesTyped
<1>9. CASE stop /\ conv' = conv
  <2>1. HeldKnown'
    BY <1>1, <1>4, <1>9 DEF QInv, QParts, HeldKnown
  <2>2. GoOn'
    BY <1>2, <1>9 DEF GoOn, Going
  <2>3. NewKnown'
    BY <1>1, <1>2, <1>9 DEF QInv, QParts, NewKnown, Coming
  <2>4. ItemsTyped' /\ OthersTyped' /\ Down' /\ Asked'
    BY <1>1, <1>2 DEF QInv, QParts, QTyped, ItemsTyped, OthersTyped, Down, Asked
  <2> QED BY <1>1, <1>3, <1>6, <1>7, <1>8, <2>1, <2>2, <2>3, <2>4, FilesSame DEF QParts, QTyped
<1>10. CASE ~(stop /\ conv' = conv)
  <2>1. Follows
    <3> SUFFICES ASSUME NEW i \in Items, NEW f \in Formats
                 PROVE  /\ stored[i] = "stored" => StillWaits(i, f) /\ StillKnown(i, f)
                        /\ Held(<<i, f>>)' => Held(<<i, f>>) \/ stored[i] # "none"
      BY <1>1 DEF Follows
    <3>1. CASE conv' = conv /\ worker[w].at = "done"
      BY <1>4, <3>1 DEF StillWaits, StillKnown
    <3>2. CASE <<i, f>> # j /\ conv'[i][f] = conv[i][f]
      BY <1>4, <3>2 DEF StillWaits, StillKnown
    <3>3. CASE <<i, f>> = j /\ (stored[i] = "stored" => conv'[i][f] = Settled(j))
      BY <1>4, <1>5, <3>3 DEF StillWaits, StillKnown, Waiting
    <3> QED BY <1>6, <1>10, <3>1, <3>2, <3>3
  <2> QED BY <1>1, <1>2, <1>3, <1>6, <1>7, <1>8, <2>1, WorkParts, FilesSame
<1> QED BY <1>9, <1>10

\* The end of a job is not written: from then on conversions may wait for nothing.
LEMMA SettleFailsKeeps ==
  ASSUME QInv, NEW w \in Workers, SettleFails(w)
  PROVE  QParts'
<1>1. /\ worker[w].at = "settle" /\ worker' = [worker EXCEPT ![w] = Free]
      /\ UNCHANGED <<item, waits, upload, stop, up, maker, rest>>
      /\ killed \subseteq killed' /\ "record" \in killed'
  BY DEF SettleFails, Errs
<1>2. /\ UNCHANGED <<stored, source, options, conv, files, queue, low, doomed>>
      /\ UNCHANGED <<format, changing, client, bound, file, intake>>
  BY <1>1 DEF item, waits, rest
<1>3. WorkersTyped' /\ \A x : Held(x)' => Held(x)
  BY <1>1, <1>2, Forgets
<1>4. up
  BY <1>1 DEF QInv, QParts, Down
<1>5. /\ QueuesTyped' /\ ConvTyped' /\ AllFilesTyped' /\ ItemsTyped' /\ OthersTyped'
      /\ Down' /\ Unmade' /\ Asked'
  BY <1>1, <1>2, <1>4 DEF QInv, QParts, QTyped, QueuesTyped, ConvTyped, AllFilesTyped, ItemsTyped,
                          OthersTyped, Down, Unmade, Asked
<1>6. HeldKnown'
  BY <1>2, <1>3 DEF QInv, QParts, HeldKnown
<1>7. GoOn'
  BY <1>1 DEF GoOn, Going
<1>8. NewKnown'
  BY <1>1, <1>2 DEF QInv, QParts, NewKnown, Coming
<1> QED BY <1>3, <1>5, <1>6, <1>7, <1>8 DEF QParts, QTyped

\* An error ends a job: its worker has still to settle it.
LEMMA WorkFailsKeeps ==
  ASSUME QInv, NEW w \in Workers, WorkFails(w)
  PROVE  QParts'
<1>1. /\ worker[w].at # "idle" /\ Moves(w, "settle") /\ killed \subseteq killed'
      /\ UNCHANGED <<stored, source, options, conv, files, waits, upload, stop, up, maker, rest>>
  BY DEF WorkFails, Between, Errs, item
<1>2. "settle" \in Running \cup {"settle"} /\ "settle" # "done"
  OBVIOUS
<1> QED BY <1>1, <1>2, MovesIs, GoesOn, FilesSame

LEMMA WorkKeeps == ASSUME QInv, NEW w \in Workers, Work(w) PROVE QParts'
BY TakeKeeps, BeginKeeps, ConvertKeeps, PublishKeeps, FinishKeeps, EndsKeep, SettleFailsKeeps,
   WorkFailsKeeps DEF Work

-----------------------------------------------------------------------------
(* The calls *)

\* What a call leaves alone, unless it removes an item.
LEMMA ApiParts ==
  ASSUME QInv, UNCHANGED <<stored, source, files, up, stop, maker, killed, format, changing, file>>,
         UNCHANGED intake, up, options' \in [Items -> Options \cup {None}],
         bound' \in Items \cup {None}, Asked',
         QueuesTyped', WorkersTyped', ConvTyped', Unmade', Follows
  PROVE  QParts'
<1>1. ItemsTyped' /\ OthersTyped' /\ AllFilesTyped'
  BY FilesSame DEF QInv, QParts, QTyped, ItemsTyped, OthersTyped
<1>2. Down'
  BY DEF Down
<1>3. HeldKnown' /\ GoOn' /\ NewKnown'
  BY JobsFollow
<1> QED BY <1>1, <1>2, <1>3 DEF QParts, QTyped

\* A call that asks for a job asks for one of what was stored.
LEMMA AskedCalls ==
  ASSUME QInv, NEW c \in Clients, NEW at, NEW i, Call(c, at, i), UNCHANGED <<stored, intake>>,
         at = "reconvert" => i \in Items /\ stored[i] # "none"
  PROVE  Asked'
<1>1. \A d \in Clients :
        IF d = c THEN client'[d] = (IF at = "idle" THEN Idle ELSE [at |-> at, item |-> i])
                 ELSE client'[d] = client[d]
  BY DEF QInv, NInv, IInv, ClientTyped, Call
<1>2. \A d \in Clients : client'[d].at = "reconvert" =>
        client'[d].item \in Items /\ stored'[client'[d].item] # "none"
  BY <1>1 DEF QInv, QParts, Asked, Idle
<1>3. \A t \in Threads : intake'[t].at = "saved" =>
        intake'[t].item \in Items /\ stored'[intake'[t].item] # "none"
  BY DEF QInv, QParts, Asked
<1> QED BY <1>2, <1>3 DEF Asked

LEMMA JobsSame ==
  ASSUME QInv, UNCHANGED <<stored, conv, queue, low, worker>>,
         doomed' \in [Clients -> SUBSET Jobs]
  PROVE  QueuesTyped' /\ WorkersTyped' /\ ConvTyped' /\ Unmade' /\ Follows
<1>1. QueuesTyped' /\ WorkersTyped'
  BY DEF QInv, QParts, QTyped, QueuesTyped, WorkersTyped
<1>2. \A j : (Held(j)' <=> Held(j)) /\ (Lives(j)' <=> Lives(j)) /\ (AtDone(j)' <=> AtDone(j))
  BY DEF Held, Lives, AtDone, Has, Queued
<1> QED BY <1>1, <1>2, SameFollows

\* The item of one job is finite.
LEMMA OneJob == ASSUME NEW i \in Items, NEW f \in Formats
                PROVE  {<<i, f>>} \in SUBSET Jobs /\ IsFiniteSet({<<i, f>>})
<1>1. {<<i, f>>} \in SUBSET Jobs
  BY DEF Jobs
<1>2. \A x : IsFiniteSet({x})
  BY FS_Singleton
<1> QED BY <1>1, <1>2

LEMMA NoJob == {} \in SUBSET Jobs /\ IsFiniteSet({})
BY FS_EmptySet

\* What is left when items are removed: those that stay keep their conversions.
LEMMA RemainLeaves ==
  ASSUME QInv, NEW gone \in SUBSET Items, NEW half \in SUBSET Items, Remain(gone, half),
         \A i \in gone : stored[i] # "stored"
  PROVE  /\ ConvTyped' /\ AllFilesTyped' /\ Unmade'
         /\ \A i \in Items : /\ stored'[i] = "stored" => stored[i] = "stored" /\ conv'[i] = conv[i]
                             /\ stored[i] # "none" => stored'[i] # "none"
<1>1. PICK out \in SUBSET half, lost \in SUBSET (half \X Formats) :
        /\ stored' = [i \in Items |-> IF i \in gone \cup out THEN "gone" ELSE stored[i]]
        /\ conv' = [i \in Items |-> IF i \in out THEN [f \in Formats |-> Missing] ELSE conv[i]]
        /\ files' = [i \in Items |->
             IF i \in out THEN NoFiles
             ELSE [f \in Formats |-> IF <<i, f>> \in lost THEN NoFiles[f] ELSE files[i][f]]]
  BY DEF Remain
<1>2. \A i \in Items : /\ stored'[i] = IF i \in gone \cup out THEN "gone" ELSE stored[i]
                       /\ conv'[i] = IF i \in out THEN [f \in Formats |-> Missing] ELSE conv[i]
  BY <1>1
<1>3. ConvTyped'
  BY <1>1 DEF QInv, QParts, QTyped, ConvTyped, Missing, Statuses
<1>4. AllFilesTyped'
  <2>1. NoFiles \in [Formats -> [sound : Options \cup {None}, picture : Options \cup {None}]]
    BY DEF NoFiles
  <2>2. AllFilesTyped
    BY DEF QInv, QParts, QTyped
  <2> HIDE DEF NoFiles
  <2> QED BY <1>1, <2>1, <2>2 DEF AllFilesTyped
<1>5. Unmade'
  <2> SUFFICES ASSUME NEW i \in Items, NEW f \in Formats, stored'[i] # "stored"
               PROVE  conv'[i][f].status = "missing"
    BY DEF Unmade
  <2>1. CASE i \in out
    BY <1>2, <2>1 DEF Missing
  <2>2. CASE i \notin out
    BY <1>2, <2>2 DEF QInv, QParts, Unmade
  <2> QED BY <2>1, <2>2
<1> QED BY <1>2, <1>3, <1>4, <1>5

\* A step that removes items, or tries to, and leaves the jobs alone.
LEMMA GoneKeeps ==
  ASSUME QInv, NEW gone \in SUBSET Items, NEW half \in SUBSET Items, Remain(gone, half),
         \A i \in gone : stored[i] # "stored",
         UNCHANGED <<source, options, queue, low, doomed, worker>>,
         UNCHANGED <<stop, up, maker, format, changing, bound>>, killed \subseteq killed',
         file' \in {"none", "dir", "processing", "moved", "item", "failed", "lost"},
         \A d \in Clients : client'[d] = client[d] \/ client'[d].at # "reconvert",
         \A t \in Threads : intake'[t] = intake[t]
                              \/ (intake[t].at # "saved" /\ intake'[t].at # "saved")
  PROVE  QParts'
<1>1. /\ ConvTyped' /\ AllFilesTyped' /\ Unmade'
      /\ \A i \in Items : /\ stored'[i] = "stored" => stored[i] = "stored" /\ conv'[i] = conv[i]
                          /\ stored[i] # "none" => stored'[i] # "none"
  BY RemainLeaves
<1>2. /\ \A j : (Held(j)' <=> Held(j)) /\ (Lives(j)' <=> Lives(j)) /\ (AtDone(j)' <=> AtDone(j))
      /\ QueuesTyped' /\ WorkersTyped'
  BY DEF Held, Lives, AtDone, Has, Queued, QInv, QParts, QTyped, QueuesTyped, WorkersTyped
<1>3. ItemsTyped' /\ OthersTyped' /\ Down'
  BY <1>1 DEF QInv, QParts, QTyped, ItemsTyped, OthersTyped, Down
<1>4. Asked'
  <2>1. \A d \in Clients : client'[d].at = "reconvert" =>
          client'[d].item \in Items /\ stored'[client'[d].item] # "none"
    BY <1>1 DEF QInv, QParts, Asked
  <2>2. \A t \in Threads : intake'[t].at = "saved" =>
          intake'[t].item \in Items /\ stored'[intake'[t].item] # "none"
    BY <1>1 DEF QInv, QParts, Asked
  <2> QED BY <2>1, <2>2 DEF Asked
<1>5. NoneNew
  BY <1>1 DEF NoneNew
<1>6. Follows
  BY <1>1, <1>2 DEF Follows, StillWaits, StillKnown, NoneNew, QInv, QParts, HeldKnown
<1>7. HeldKnown'
  BY <1>5, <1>6, HeldFollows
<1>8. GoOn'
  BY <1>5, <1>6, GoOnFollows DEF Concerns, Going
<1>9. NewKnown'
  <2>1. ASSUME NEW i \in Items, stored'[i] = "stored", Coming(i) PROVE Coming(i)'
    <3>1. source[i] \in Threads /\ intake[source[i]].at = "saved"
      BY <1>1, <2>1 DEF Coming, QInv, QParts, QTyped, ItemsTyped
    <3>2. intake'[source[i]] = intake[source[i]]
      BY <3>1
    <3> QED BY <2>1, <3>2 DEF Coming
  <2> QED BY <1>5, <1>6, <2>1, NewFollows
<1> QED BY <1>1, <1>2, <1>3, <1>4, <1>7, <1>8, <1>9 DEF QParts, QTyped

\* The removal of an item, or the attempt: nobody asks for its jobs any more.
LEMMA RemovesKeep ==
  ASSUME QInv, NEW c \in Clients, DeleteRemoves(c) \/ DeleteFails(c)
  PROVE  QParts'
<1> DEFINE i == client[c].item
<1>1. /\ i \in Items /\ Call(c, "idle", None) /\ killed \subseteq killed'
      /\ UNCHANGED <<source, options, queue, low, doomed, worker, stop, up, maker, format, changing,
                     bound, file, intake>>
  BY DEF DeleteRemoves, DeleteFails, Errs, QInv, NInv, IInv, Deleting, Deletes, jobs, waits, process
<1>2. Remain({}, {i})
  <2>1. CASE DeleteFails(c)
    BY <2>1 DEF DeleteFails
  <2>2. CASE DeleteRemoves(c)
    <3>1. /\ stored' = [stored EXCEPT ![i] = "gone"] /\ files' = [files EXCEPT ![i] = NoFiles]
          /\ conv' = [conv EXCEPT ![i] = [f \in Formats |-> Missing]]
      BY <2>2 DEF DeleteRemoves
    <3> HIDE DEF i
    <3>2. stored' = [k \in Items |-> IF k \in {} \cup {i} THEN "gone" ELSE stored[k]]
      BY <3>1 DEF QInv, NInv, IInv, StoredTyped
    <3>3. conv' = [k \in Items |-> IF k \in {i} THEN [f \in Formats |-> Missing] ELSE conv[k]]
      BY <3>1 DEF QInv, QParts, QTyped, ConvTyped
    <3>4. files' = [k \in Items |->
            IF k \in {i} THEN NoFiles
            ELSE [f \in Formats |-> IF <<k, f>> \in {} THEN NoFiles[f] ELSE files[k][f]]]
      BY <3>1 DEF QInv, QParts, QTyped, AllFilesTyped
    <3>5. {i} \in SUBSET {i} /\ {} \in SUBSET ({i} \X Formats)
      OBVIOUS
    <3> QED BY <3>2, <3>3, <3>4, <3>5 DEF Remain
  <2> QED BY <2>1, <2>2
<1>3. \A d \in Clients : client'[d] = client[d] \/ client'[d].at # "reconvert"
  BY <1>1 DEF Call, Idle, QInv, NInv, IInv, ClientTyped
<1>4. file \in {"none", "dir", "processing", "moved", "item", "failed", "lost"}
  BY DEF QInv, QParts, QTyped, OthersTyped
<1> HIDE DEF i
<1>5. {} \in SUBSET Items /\ {i} \in SUBSET Items
  BY <1>1
<1> QED BY <1>1, <1>2, <1>3, <1>4, <1>5, GoneKeeps

LEMMA ApiKeeps ==
  ASSUME QInv, NEW c \in Clients, Api(c)
  PROVE  QParts'
<1>0. /\ options \in [Items -> Options \cup {None}] /\ bound \in Items \cup {None}
      /\ doomed \in [Clients -> SUBSET Jobs] /\ queue \in Seq(Jobs) /\ low \in Seq(Jobs)
      /\ WorkersTyped /\ ConvTyped /\ format \in Formats
  BY DEF QInv, QParts, QTyped, ItemsTyped, OthersTyped, QueuesTyped, NInv, IInv, FormatTyped
<1>1. CASE ReconvertQueues(c)
  <2> DEFINE i == client[c].item
  <2>1. /\ i \in Items /\ stored[i] # "none" /\ up
        /\ Queues({<<i, format>>}, {}) /\ Call(c, "idle", None)
        /\ UNCHANGED <<stored, source, options, files, worker, up, stop, maker, killed, format,
                       changing, bound, file, intake>>
    BY <1>1 DEF ReconvertQueues, QInv, QParts, Asked, Call, process
  <2> HIDE DEF i
  <2>2. QueuesTyped' /\ ConvTyped' /\ Unmade' /\ Follows
    <3>1. \A j \in {<<i, format>>} \cup {} : stored[j[1]] # "none"
      BY <2>1
    <3>2. {<<i, format>>} \in SUBSET Jobs /\ IsFiniteSet({<<i, format>>})
      BY <1>0, <2>1, OneJob
    <3> QED BY <2>1, <3>1, <3>2, NoJob, QueuesDo
  <2>3. WorkersTyped'
    BY <1>0, <2>1 DEF WorkersTyped
  <2>4. Asked'
    BY <2>1, AskedCalls
  <2> QED BY <1>0, <2>1, <2>2, <2>3, <2>4, ApiParts
<1>2. ASSUME NEW j \in Jobs, CancelJob(c, j) \/ DeleteCancels(c, j)
      PROVE  QParts'
  <2>1. /\ up /\ doomed' \in [Clients -> SUBSET Jobs]
        /\ UNCHANGED <<stored, source, options, files, up, stop, maker, killed, format, changing,
                       bound, file, intake>>
    BY <1>0, <1>2 DEF CancelJob, DeleteCancels, process, rest, Call
  <2>2. CASE Cancels(j)
    <3>1. /\ queue' \in Seq(Jobs) /\ low' \in Seq(Jobs)
          /\ WorkersTyped' /\ ConvTyped' /\ Unmade' /\ Follows
      BY <2>1, <2>2, CancelsDo
    <3>2. QueuesTyped'
      BY <2>1, <3>1 DEF QueuesTyped
    <3>3. Asked'
      <4>1. CASE CancelJob(c, j)
        BY <2>1, <4>1, AskedCalls DEF CancelJob
      <4>2. CASE DeleteCancels(c, j)
        BY <4>2 DEF DeleteCancels, rest, QInv, QParts, Asked
      <4> QED BY <1>2, <4>1, <4>2
    <3> QED BY <1>0, <2>1, <3>1, <3>2, <3>3, ApiParts
  <2>3. CASE UNCHANGED <<queue, low, worker, conv>> /\ DeleteCancels(c, j)
    <3>1. QueuesTyped' /\ WorkersTyped' /\ ConvTyped' /\ Unmade' /\ Follows
      BY <2>1, <2>3, JobsSame
    <3>2. Asked'
      BY <2>3 DEF DeleteCancels, rest, QInv, QParts, Asked
    <3> QED BY <1>0, <2>1, <3>1, <3>2, ApiParts
  <2> QED BY <1>2, <2>2, <2>3 DEF CancelJob, DeleteCancels
<1>3. CASE \/ DeleteReads(c) \/ DeleteRemembers(c) \/ Binds(c)
           \/ \E i \in Items : Delete(c, i) \/ Bind(c, i) \/ \E o \in Options : Reconvert(c, i, o)
  <2>1. /\ up /\ UNCHANGED <<stored, source, conv, files, queue, low, worker, up, stop, maker,
                             killed, format, changing, file, intake>>
    BY <1>3 DEF DeleteReads, DeleteRemembers, Binds, Delete, Bind, Reconvert, item, jobs, waits,
                process, Call
  <2>2. doomed' \in [Clients -> SUBSET Jobs]
    BY <1>0, <1>3 DEF DeleteReads, DeleteRemembers, Binds, Delete, Bind, Reconvert, jobs, waits
  <2>3. options' \in [Items -> Options \cup {None}]
    BY <1>0, <1>3 DEF DeleteReads, DeleteRemembers, Binds, Delete, Bind, Reconvert, item
  <2>4. bound' \in Items \cup {None}
    BY <1>0, <1>3 DEF DeleteReads, DeleteRemembers, Binds, Delete, Bind, Reconvert, QInv, NInv,
                      IInv, ClientTyped
  <2>5. Asked'
    <3>1. \E at, i : Call(c, at, i) /\ (at = "reconvert" => i \in Items /\ stored[i] # "none")
      BY <1>3 DEF DeleteReads, DeleteRemembers, Binds, Delete, Bind, Reconvert
    <3> QED BY <2>1, <3>1, AskedCalls
  <2> QED BY <2>1, <2>2, <2>3, <2>4, <2>5, JobsSame, ApiParts
<1> QED BY <1>1, <1>2, <1>3, RemovesKeep DEF Api

-----------------------------------------------------------------------------
(* The threads that make items, the format, and the process *)

\* A thread that makes items goes on, without coming to or from `saved'.
LEMMA ThreadsGo ==
  ASSUME QInv, UNCHANGED <<item, jobs, process, format, changing, client, bound>>,
         file' \in {"none", "dir", "processing", "moved", "item", "failed", "lost"},
         \A t \in Threads :
           intake[t].at = "saved" \/ intake'[t].at = "saved" => intake'[t] = intake[t]
  PROVE  QParts'
<1>1. UNCHANGED <<stored, source, options, conv, files, queue, low, doomed, worker, up, stop, maker,
                  killed>>
  BY DEF item, jobs, waits, process
<1>2. QueuesTyped' /\ WorkersTyped' /\ ConvTyped' /\ Unmade' /\ Follows
  BY <1>1, JobsSame DEF QInv, QParts, QTyped, QueuesTyped
<1>3. ItemsTyped' /\ OthersTyped' /\ Down' /\ AllFilesTyped'
  BY <1>1, FilesSame DEF QInv, QParts, QTyped, ItemsTyped, OthersTyped, Down
<1>4. Asked'
  <2>1. ASSUME NEW t \in Threads, intake'[t].at = "saved"
        PROVE  intake'[t].item \in Items /\ stored'[intake'[t].item] # "none"
    <3>1. intake'[t] = intake[t]
      BY <2>1
    <3> QED BY <1>1, <2>1, <3>1 DEF QInv, QParts, Asked
  <2>2. client' = client
    OBVIOUS
  <2> QED BY <1>1, <2>1, <2>2 DEF QInv, QParts, Asked
<1>5. NoneNew
  BY <1>1 DEF NoneNew
<1>6. HeldKnown' /\ GoOn'
  BY <1>1, <1>2, <1>5, HeldFollows, GoOnFollows DEF Concerns, Going
<1>7. NewKnown'
  <2>1. ASSUME NEW i \in Items, stored[i] = "stored", Coming(i) PROVE Coming(i)'
    <3>1. source[i] \in Threads /\ intake[source[i]].at = "saved"
      BY <2>1 DEF Coming, QInv, QParts, QTyped, ItemsTyped
    <3>2. intake'[source[i]] = intake[source[i]]
      BY <3>1
    <3> QED BY <1>1, <2>1, <3>2 DEF Coming
  <2> QED BY <1>1, <1>2, <1>5, <2>1, NewFollows
<1> QED BY <1>2, <1>3, <1>4, <1>6, <1>7 DEF QParts, QTyped

\* An upload, or a thread that makes items, but for item.json and its job.
LEMMA UploadKeeps ==
  ASSUME QInv, Upload
  PROVE  QParts'
<1>1. intake \in [Threads -> [at : {"idle", "claimed", "placed", "saved", "queued", "over"},
                            item : Items \cup {None}, format : Formats \cup {None}]]
  BY DEF QInv, NInv, IInv, IntakeTyped
<1>2. file \in {"none", "dir", "processing", "moved", "item", "failed", "lost"}
  BY DEF QInv, QParts, QTyped, OthersTyped
<1>3. CASE \/ CreateUpload \/ Prune
           \/ \E k \in Chunks : ChunkBegins(k) \/ ChunkEnds(k) \/ ChunkFails(k)
  <2>1. UNCHANGED <<item, jobs, process, rest>>
    BY <1>3 DEF CreateUpload, Prune, ChunkBegins, ChunkEnds, ChunkFails, Uploads
  <2>2. UNCHANGED <<format, changing, client, bound, file, intake>>
    BY <2>1 DEF rest
  <2> QED BY <1>2, <2>1, <2>2, ThreadsGo
<1>4. CASE Complete \/ FinishUpload
  <2>1. UNCHANGED <<item, jobs, process, format, changing, client, bound, file>>
    BY <1>4 DEF Complete, FinishUpload
  <2>2. \A t \in Threads :
           intake[t].at = "saved" \/ intake'[t].at = "saved" => intake'[t] = intake[t]
    BY <1>1, <1>4 DEF Complete, FinishUpload, Goes, Resting
  <2> QED BY <1>2, <2>1, <2>2, ThreadsGo
<1> QED BY <1>3, <1>4 DEF Upload

\* item.json is written: an item without conversions, that is known to be coming.
LEMMA SaveKeeps ==
  ASSUME QInv, NEW t \in Threads, Save(t)
  PROVE  QParts'
<1> DEFINE i == intake[t].item
<1>1. /\ up /\ i \in Items /\ stored[i] = "none" /\ intake[t].at = "placed"
      /\ \A u \in Threads \ {t} : intake[u].item # i
      /\ stored' = [stored EXCEPT ![i] = "stored"] /\ source' = [source EXCEPT ![i] = t]
      /\ options' = [options EXCEPT ![i] = CHOOSE o \in Options : TRUE]
      /\ file' = (IF t = "import" THEN "item" ELSE file) /\ Goes(t, "saved")
      /\ UNCHANGED <<conv, files, jobs, process, format, changing, client, bound>>
  BY DEF Save, QInv, NInv, IInv, Placed
<1> HIDE DEF i
<1>2. UNCHANGED <<queue, low, doomed, worker, up, stop, maker, killed, conv, files, format,
                  changing, client, bound>>
  BY <1>1 DEF jobs, waits, process
<1>3. /\ \A k \in Items : stored'[k] = IF k = i THEN "stored" ELSE stored[k]
      /\ \A k \in Items : source'[k] = IF k = i THEN t ELSE source[k]
  BY <1>1 DEF QInv, NInv, IInv, StoredTyped, LegacyPart, Sourced
<1>4. /\ \A u \in Threads : intake'[u].item = intake[u].item /\ (u # t => intake'[u] = intake[u])
      /\ intake'[t].at = "saved" /\ intake'[t].item = i
  BY <1>1 DEF QInv, NInv, IInv, IntakeTyped, Goes, i
<1>5. /\ \A j : (Held(j)' <=> Held(j)) /\ (Lives(j)' <=> Lives(j)) /\ (AtDone(j)' <=> AtDone(j))
      /\ QueuesTyped' /\ WorkersTyped' /\ ConvTyped' /\ AllFilesTyped'
  BY <1>2 DEF Held, Lives, AtDone, Has, Queued, QInv, QParts, QTyped, QueuesTyped, WorkersTyped,
              ConvTyped, AllFilesTyped
<1>6. ItemsTyped'
  <2>1. (CHOOSE o \in Options : TRUE) \in Options
    BY LibraryAssumption
  <2>2. options' \in [Items -> Options \cup {None}]
    BY <1>1, <2>1 DEF QInv, QParts, QTyped, ItemsTyped
  <2> QED BY <1>3, <2>2 DEF QInv, QParts, QTyped, ItemsTyped
<1>7. OthersTyped' /\ Down'
  BY <1>1, <1>2 DEF QInv, QParts, QTyped, OthersTyped, Down
<1>8. Unmade'
  BY <1>2, <1>3 DEF QInv, QParts, Unmade
<1>9. Asked'
  <2>1. \A k \in Items : stored[k] # "none" => stored'[k] # "none"
    BY <1>3
  <2>2. \A u \in Threads : intake'[u].at = "saved" =>
          intake'[u].item \in Items /\ stored'[intake'[u].item] # "none"
    BY <1>1, <1>3, <1>4, <2>1 DEF QInv, QParts, Asked
  <2> QED BY <1>2, <2>1, <2>2 DEF QInv, QParts, Asked
<1>10. \A f \in Formats : conv[i][f].status = "missing" /\ ~Held(<<i, f>>)
  BY <1>1 DEF QInv, QParts, Unmade, HeldKnown
<1>11. HeldKnown'
  BY <1>2, <1>3, <1>5, <1>10 DEF QInv, QParts, HeldKnown
<1>12. GoOn'
  BY <1>2, <1>3, <1>5, <1>10 DEF QInv, QParts, GoOn, Going, Concerns, Waiting
<1>13. NewKnown'
  <2> SUFFICES ASSUME NEW k \in Items, stored'[k] = "stored", k \notin changing,
                      source'[k] \notin killed \cup {"legacy"},
                      killed \cap {"format", "change"} = {}, ~Coming(k)',
                      conv[k][format].status = "missing"
               PROVE  FALSE
    BY <1>2 DEF NewKnown
  <2>1. k # i
    BY <1>3, <1>4 DEF Coming
  <2>2. stored[k] = "stored" /\ source'[k] = source[k] /\ source[k] \in Threads
    BY <1>3, <2>1 DEF QInv, QParts, QTyped, ItemsTyped
  <2>3. ~Coming(k)
    BY <1>1, <1>4, <2>2 DEF Coming
  <2> QED BY <2>2, <2>3 DEF QInv, QParts, NewKnown
<1> QED BY <1>5, <1>6, <1>7, <1>8, <1>9, <1>11, <1>12, <1>13 DEF QParts, QTyped

\* The job of a new item.
LEMMA QueueNewKeeps ==
  ASSUME QInv, NEW t \in Threads, QueueNew(t)
  PROVE  QParts'
<1> DEFINE i == intake[t].item
           there == stored[i] = "stored"
           high == IF there /\ t # "legacy" THEN {<<i, format>>} ELSE {}
           slow == IF there /\ t = "legacy" THEN {<<i, intake[t].format>>} ELSE {}
<1>0. intake \in [Threads -> [at : {"idle", "claimed", "placed", "saved", "queued", "over"},
                            item : Items \cup {None}, format : Formats \cup {None}]]
  BY DEF QInv, NInv, IInv, IntakeTyped
<1>1. /\ up /\ i \in Items /\ stored[i] # "none" /\ intake[t].at = "saved" /\ Queues(high, slow)
      /\ UNCHANGED <<stored, source, options, files, worker, process, format, changing, client,
                     bound, file>>
      /\ format \in Formats
  BY DEF QueueNew, QInv, QParts, Asked, NInv, IInv, FormatTyped
<1>2. /\ \A u \in Threads : u # t => intake'[u] = intake[u]
      /\ intake'[t].at # "saved"
  BY <1>0 DEF QueueNew, Resting
<1>3. high \in SUBSET Jobs /\ IsFiniteSet(high)
  BY <1>1, OneJob, NoJob
<1>4. slow \in SUBSET Jobs /\ IsFiniteSet(slow)
  <2>1. CASE t = "legacy"
    <3>1. intake[t].format \in Formats
      BY <1>1, <2>1 DEF QInv, LegacyFormat
    <3> QED BY <1>1, <3>1, OneJob, NoJob
  <2>2. CASE t # "legacy"
    BY <2>2, NoJob
  <2> QED BY <2>1, <2>2
<1>5. \A j \in high \cup slow : stored[j[1]] # "none"
  BY <1>1
<1>6. there /\ t # "legacy" => <<i, format>> \in high \cup slow
  OBVIOUS
<1> HIDE DEF high, slow
<1>7. /\ QueuesTyped' /\ ConvTyped' /\ Unmade' /\ Follows
      /\ there /\ t # "legacy" => conv'[i][format].status # "missing"
  BY <1>1, <1>3, <1>4, <1>5, <1>6, QueuesDo
<1> HIDE DEF i, there
<1>8. /\ UNCHANGED <<up, stop, maker, killed>>
      /\ ItemsTyped' /\ OthersTyped' /\ Down' /\ AllFilesTyped' /\ WorkersTyped'
  BY <1>1, FilesSame DEF QInv, QParts, QTyped, ItemsTyped, OthersTyped, WorkersTyped, Down, process
<1>9. Asked'
  BY <1>1, <1>2 DEF QInv, QParts, Asked
<1>10. NoneNew
  BY <1>1 DEF NoneNew
<1>11. HeldKnown' /\ GoOn'
  BY <1>1, <1>7, <1>8, <1>10, HeldFollows, GoOnFollows DEF Concerns, Going
<1>12. NewKnown'
  <2> SUFFICES ASSUME NEW k \in Items, stored[k] = "stored", k \notin changing,
                      source[k] \notin killed \cup {"legacy"},
                      killed \cap {"format", "change"} = {}, ~Coming(k)',
                      conv'[k][format].status = "missing"
               PROVE  FALSE
    BY <1>1, <1>8 DEF NewKnown
  <2>1. conv[k][format].status = "missing"
    BY <1>1, <1>7 DEF Follows, StillKnown
  <2>2. Coming(k) /\ source[k] \in Threads
    BY <2>1 DEF QInv, QParts, NewKnown, QTyped, ItemsTyped
  <2>3. source[k] = t /\ k = i
    BY <1>1, <1>2, <2>2 DEF Coming, i
  <2> QED BY <1>7, <2>3 DEF there
<1> QED BY <1>7, <1>8, <1>9, <1>11, <1>12 DEF QParts, QTyped

\* What was moved is deleted: its id has no item.
LEMMA BreakKeeps ==
  ASSUME QInv, NEW t \in Threads, Breaks(t)
  PROVE  QParts'
<1> DEFINE i == intake[t].item
<1>1. /\ i \in Items /\ stored[i] = "none" /\ intake[t].at = "placed"
      /\ stored' = [stored EXCEPT ![i] = "gone"]
      /\ file' = (IF t = "import" THEN "lost" ELSE file)
      /\ UNCHANGED <<source, options, conv, files, jobs, process, format, changing, client, bound>>
  BY DEF Breaks, QInv, NInv, IInv, Placed
<1>2. \A u \in Threads : IF u = t THEN intake'[u].at \in {"idle", "over"}
                                   ELSE intake'[u] = intake[u]
  BY DEF Breaks, Resting, QInv, NInv, IInv, IntakeTyped
<1> HIDE DEF i
<1>3. UNCHANGED <<queue, low, doomed, worker, stop, up, maker, killed>>
  BY <1>1 DEF jobs, waits, process
<1>4. Remain({i}, {})
  <2>1. stored' = [k \in Items |-> IF k \in {i} \cup {} THEN "gone" ELSE stored[k]]
    BY <1>1 DEF QInv, NInv, IInv, StoredTyped
  <2>2. conv' = [k \in Items |-> IF k \in {} THEN [f \in Formats |-> Missing] ELSE conv[k]]
    BY <1>1 DEF QInv, QParts, QTyped, ConvTyped
  <2>3. files' = [k \in Items |->
          IF k \in {} THEN NoFiles
          ELSE [f \in Formats |-> IF <<k, f>> \in {} THEN NoFiles[f] ELSE files[k][f]]]
    BY <1>1 DEF QInv, QParts, QTyped, AllFilesTyped
  <2>4. {} \in SUBSET {} /\ {} \in SUBSET ({} \X Formats)
    OBVIOUS
  <2> QED BY <2>1, <2>2, <2>3, <2>4 DEF Remain
<1>5. file' \in {"none", "dir", "processing", "moved", "item", "failed", "lost"}
  BY <1>1 DEF QInv, QParts, QTyped, OthersTyped
<1>6. {i} \in SUBSET Items /\ {} \in SUBSET Items /\ \A k \in {i} : stored[k] # "stored"
  BY <1>1
<1> QED BY <1>1, <1>2, <1>3, <1>4, <1>5, <1>6, GoneKeeps

LEMMA IntakeKeeps ==
  ASSUME QInv, Intake
  PROVE  QParts'
<1>1. intake \in [Threads -> [at : {"idle", "claimed", "placed", "saved", "queued", "over"},
                            item : Items \cup {None}, format : Formats \cup {None}]]
  BY DEF QInv, NInv, IInv, IntakeTyped
<1>2. file \in {"none", "dir", "processing", "moved", "item", "failed", "lost"}
  BY DEF QInv, QParts, QTyped, OthersTyped
<1>3. CASE Appears \/ Claim \/ BeginLegacy
  <2>1. UNCHANGED <<item, jobs, process, format, changing, client, bound>>
    BY <1>3 DEF Appears, Claim, BeginLegacy, upload
  <2>2. /\ file' \in {"none", "dir", "processing", "moved", "item", "failed", "lost"}
        /\ \A t \in Threads :
           intake[t].at = "saved" \/ intake'[t].at = "saved" => intake'[t] = intake[t]
    <3>1. CASE Appears
      BY <3>1 DEF Appears
    <3>2. CASE Claim
      BY <1>1, <3>2 DEF Claim, Goes, Resting
    <3>3. CASE BeginLegacy
      BY <1>1, <1>2, <3>3 DEF BeginLegacy, Resting
    <3> QED BY <1>3, <3>1, <3>2, <3>3
  <2> QED BY <2>1, <2>2, ThreadsGo
<1>4. ASSUME NEW t \in Threads, Refuse(t) \/ \E i \in Items : Place(t, i) PROVE QParts'
  <2>1. UNCHANGED <<item, jobs, process, format, changing, client, bound>>
    BY <1>4 DEF Refuse, Place
  <2>2. /\ file' \in {"none", "dir", "processing", "moved", "item", "failed", "lost"}
        /\ intake[t].at = "claimed" /\ intake'[t].at # "saved"
        /\ \A u \in Threads : u # t => intake'[u] = intake[u]
    BY <1>1, <1>2, <1>4 DEF Refuse, Place, Resting
  <2> QED BY <2>1, <2>2, ThreadsGo
<1> QED BY <1>3, <1>4, SaveKeeps, QueueNewKeeps, BreakKeeps DEF Intake

\* The format changes: every item has to be looked at.
LEMMA SetFormatKeeps ==
  ASSUME QInv, NEW f \in Formats, SetFormat(f)
  PROVE  QParts'
<1>1. /\ UNCHANGED <<item, jobs, up, stop, maker, killed, client, bound, file, intake>>
      /\ changing' = {i \in Items : stored[i] = "stored"}
  BY DEF SetFormat
<1>2. UNCHANGED <<stored, source, options, conv, files, queue, low, doomed, worker>>
  BY <1>1 DEF item, jobs, waits
<1>3. QueuesTyped' /\ WorkersTyped' /\ ConvTyped' /\ Unmade' /\ Follows
  BY <1>2, JobsSame DEF QInv, QParts, QTyped, QueuesTyped
<1>4. ItemsTyped' /\ OthersTyped' /\ Down' /\ AllFilesTyped' /\ Asked'
  BY <1>1, <1>2, FilesSame DEF QInv, QParts, QTyped, ItemsTyped, OthersTyped, Down, Asked
<1>5. NoneNew
  BY <1>2 DEF NoneNew
<1>6. HeldKnown'
  BY <1>3, <1>5, HeldFollows
<1>7. GoOn'
  <2>1. \A i \in Items, g \in Formats : stored'[i] = "stored" => ~Concerns(i, g)'
    BY <1>1, <1>2 DEF Concerns
  <2>2. \A j : (Lives(j)' <=> Lives(j)) /\ (AtDone(j)' <=> AtDone(j))
    BY <1>2 DEF Lives, AtDone, Has, Queued
  <2> QED BY <1>1, <1>2, <2>1, <2>2 DEF QInv, QParts, GoOn, Going
<1>8. NewKnown'
  BY <1>1, <1>2 DEF NewKnown
<1> QED BY <1>3, <1>4, <1>6, <1>7, <1>8 DEF QParts, QTyped

\* A step of the change of format looks at one item, or a deletion has ended it.
LEMMA ConvertAgainKeeps ==
  ASSUME QInv, NEW i \in Items, ConvertAgain(i)
  PROVE  QParts'
<1>1. /\ up /\ i \in changing /\ format \in Formats /\ changing \subseteq Items
      /\ UNCHANGED <<stored, source, options, files, worker, up, stop, maker, format, client, bound,
                     file, intake>>
  BY DEF ConvertAgain, QInv, QParts, NInv, IInv, FormatTyped, QTyped, OthersTyped
<1>2. NoneNew
  BY <1>1 DEF NoneNew
<1>3. ItemsTyped' /\ Down' /\ AllFilesTyped' /\ WorkersTyped' /\ Asked'
  BY <1>1, FilesSame DEF QInv, QParts, QTyped, ItemsTyped, WorkersTyped, Down, Asked
<1>4. CASE stored[i] # "stored"
  <2>1. /\ changing' = {} /\ killed' = killed \cup {"change"}
        /\ UNCHANGED <<queue, low, doomed, conv>>
    BY <1>4 DEF ConvertAgain, waits
  <2>2. QueuesTyped' /\ ConvTyped' /\ Unmade' /\ Follows
    BY <1>1, <2>1, JobsSame DEF QInv, QParts, QTyped, QueuesTyped
  <2>3. HeldKnown'
    BY <1>2, <2>2, HeldFollows
  <2>4. GoOn'
    BY <1>1, <1>2, <2>1, <2>2, GoOnFollows DEF Concerns, Going
  <2>5. NewKnown'
    BY <2>1 DEF NewKnown
  <2>6. OthersTyped'
    BY <1>1, <2>1 DEF QInv, QParts, QTyped, OthersTyped
  <2> QED BY <1>3, <2>2, <2>3, <2>4, <2>5, <2>6 DEF QParts, QTyped
<1>5. CASE stored[i] = "stored"
  <2> DEFINE high == IF OnDisk(<<i, format>>) THEN {} ELSE {<<i, format>>}
  <2>1. changing' = changing \ {i} /\ Queues(high, {}) /\ UNCHANGED killed
    BY <1>5 DEF ConvertAgain
  <2>2. high \in SUBSET Jobs /\ IsFiniteSet(high)
    BY <1>1, OneJob, NoJob
  <2>3. \A j \in high \cup {} : stored[j[1]] # "none"
    BY <1>5
  <2>4. OnDisk(<<i, format>>) => high = {} /\ conv[i][format].status = "ready"
    BY DEF OnDisk
  <2>5. ~OnDisk(<<i, format>>) => <<i, format>> \in high \cup {}
    OBVIOUS
  <2> HIDE DEF high
  <2>6. /\ QueuesTyped' /\ ConvTyped' /\ Unmade' /\ Follows
        /\ \A k \in Items, f \in Formats : stored[k] = "stored" /\ <<k, f>> \in high \cup {} =>
             /\ conv'[k][f].status # "missing"
             /\ Going /\ conv'[k][f].status \in Waiting => Lives(<<k, f>>)'
    BY <1>1, <2>1, <2>2, <2>3, NoJob, QueuesDo
  <2>7. OnDisk(<<i, format>>) => conv' = conv
    <3>1. ASSUME OnDisk(<<i, format>>) PROVE conv' = conv
      <4>1. conv' = [k \in Items |-> [f \in Formats |-> conv[k][f]]]
        BY <2>1, <2>4, <3>1 DEF Queues
      <4> QED BY <4>1 DEF QInv, QParts, QTyped, ConvTyped
    <3> QED BY <3>1
  <2>8. /\ conv'[i][format].status # "missing"
        /\ Going /\ conv'[i][format].status \in Waiting => Lives(<<i, format>>)'
    BY <1>1, <1>5, <2>4, <2>5, <2>6, <2>7 DEF Waiting
  <2>9. HeldKnown'
    BY <1>2, <2>6, HeldFollows
  <2>10. GoOn'
    <3>1. \A k \in Items, f \in Formats : Concerns(k, f)' =>
            Concerns(k, f) \/ (k = i /\ f = format)
      BY <1>1, <2>1 DEF Concerns
    <3>2. Going' <=> Going
      BY <1>1, <2>1 DEF Going
    <3> QED BY <1>1, <1>2, <2>6, <2>8, <3>1, <3>2, GoOnFollows
  <2>11. NewKnown'
    <3>1. \A k \in Items : Coming(k) => Coming(k)'
      BY <1>1 DEF Coming
    <3>2. \A k \in Items : k \notin changing' => k \notin changing \/ k = i
      BY <2>1
    <3> QED BY <1>1, <1>2, <2>1, <2>6, <2>8, <3>1, <3>2, NewFollows
  <2>12. OthersTyped'
    BY <1>1, <2>1 DEF QInv, QParts, QTyped, OthersTyped
  <2> QED BY <1>3, <2>6, <2>9, <2>10, <2>11, <2>12 DEF QParts, QTyped
<1> QED BY <1>4, <1>5

LEMMA StopKeeps ==
  ASSUME QInv, Stop
  PROVE  QParts'
<1>1. /\ worker' = [w \in Workers |-> [worker[w] EXCEPT !.cancel = worker[w].at \in Running]]
      /\ UNCHANGED <<item, waits, upload, up, maker, killed, rest>> /\ stop' /\ up
  BY DEF Stop
<1>2. UNCHANGED <<stored, source, options, conv, files, queue, low, doomed, format, changing,
                  client, bound, file, intake>>
  BY <1>1 DEF item, waits, rest
<1>3. /\ WorkersTyped'
      /\ \A w \in Workers : worker'[w].at = worker[w].at /\ worker'[w].job = worker[w].job
  <2>1. WorkersTyped
    BY DEF QInv, QParts, QTyped
  <2>2. ASSUME NEW w \in Workers
        PROVE  /\ worker'[w].at = worker[w].at /\ worker'[w].job = worker[w].job
               /\ worker'[w] \in [at : Running \cup {"idle", "settle"}, job : Jobs \cup {None},
                                 options : Options \cup {None}, cancel : BOOLEAN, silent : BOOLEAN]
    <3>1. PICK r : r = worker[w]
      OBVIOUS
    <3>2. PICK b : b = (r.at \in Running)
      OBVIOUS
    <3>3. b \in BOOLEAN
      BY <3>2
    <3>4. r \in [at : Running \cup {"idle", "settle"}, job : Jobs \cup {None},
                options : Options \cup {None}, cancel : BOOLEAN, silent : BOOLEAN]
      BY <2>1, <3>1 DEF WorkersTyped
    <3>5. worker'[w] = [r EXCEPT !.cancel = b]
      BY <1>1, <3>1, <3>2
    <3> QED BY <3>1, <3>3, <3>4, <3>5
  <2>3. WorkersTyped'
    BY <1>1, <2>1, <2>2 DEF WorkersTyped
  <2> QED BY <2>2, <2>3
<1>4. \A j : (Held(j)' <=> Held(j)) /\ (Lives(j)' <=> Lives(j)) /\ (AtDone(j)' <=> AtDone(j))
  BY <1>2, <1>3 DEF Held, Lives, AtDone, Has, Queued
<1>5. ConvTyped' /\ Unmade' /\ Follows
  BY <1>2, <1>4, SameFollows
<1>6. HeldKnown' /\ GoOn' /\ NewKnown'
  BY <1>1, <1>2, <1>5, JobsFollow
<1>7. QueuesTyped' /\ AllFilesTyped' /\ ItemsTyped' /\ OthersTyped' /\ Down' /\ Asked'
  BY <1>1, <1>2, FilesSame
     DEF QInv, QParts, QTyped, QueuesTyped, ItemsTyped, OthersTyped, Down, Asked
<1> QED BY <1>3, <1>5, <1>6, <1>7 DEF QParts, QTyped

\* The process ends: a change of format, or a new item, that it ends in the middle of is known.
LEMMA ExitKeeps ==
  ASSUME QInv, Exit
  PROVE  QParts'
<1>1. /\ up' = FALSE /\ format' = kept /\ changing' = {}
      /\ queue' = << >> /\ low' = << >> /\ worker' = [w \in Workers |-> Free]
      /\ doomed' = [c \in Clients |-> {}] /\ client' = [c \in Clients |-> Idle]
      /\ intake' = [t \in Threads |-> Resting]
      /\ UNCHANGED <<source, options, maker, bound, file>>
  BY DEF Exit
<1>2. /\ killed \subseteq killed'
      /\ {t \in Threads : intake[t].at \in {"placed", "saved"}} \subseteq killed'
      /\ changing # {} \/ kept # format => "format" \in killed'
  BY DEF Exit
<1>3. /\ ConvTyped' /\ AllFilesTyped' /\ Unmade'
      /\ \A i \in Items : stored'[i] = "stored" => stored[i] = "stored" /\ conv'[i] = conv[i]
  <2> DEFINE gone == {i \in Items : stored[i] = "none" /\ \E t \in Threads : intake[t].item = i}
             half == {i \in Items : \E c \in Clients : client[c] = [at |-> "remove", item |-> i]}
  <2>1. Remain(gone, half)
    BY DEF Exit
  <2>2. /\ gone \in SUBSET Items /\ half \in SUBSET Items
        /\ \A i \in gone : stored[i] # "stored"
    OBVIOUS
  <2> QED BY <2>1, <2>2, RemainLeaves
<1>4. /\ QueuesTyped' /\ Down' /\ \A w \in Workers : worker'[w].at = "idle"
      /\ \A j : ~Held(j)'
  BY <1>1 DEF QueuesTyped, Down, Held, Has, Queued, Contains, Free
<1>5. WorkersTyped'
  BY <1>1 DEF WorkersTyped, Free
<1>6. ItemsTyped' /\ OthersTyped'
  BY <1>1, <1>3 DEF QInv, QParts, QTyped, ItemsTyped, OthersTyped
<1>7. Asked'
  BY <1>1 DEF Asked, Idle, Resting
<1>8. HeldKnown' /\ GoOn'
  BY <1>1, <1>4 DEF HeldKnown, GoOn, Going
<1>9. NewKnown'
  <2> SUFFICES ASSUME NEW i \in Items, stored'[i] = "stored",
                      source'[i] \notin killed' \cup {"legacy"},
                      killed' \cap {"format", "change"} = {}, conv'[i][format'].status = "missing"
               PROVE  FALSE
    BY DEF NewKnown
  <2>1. changing = {} /\ format' = format /\ source' = source
    BY <1>1, <1>2
  <2>2. stored[i] = "stored" /\ source[i] \in Threads /\ conv'[i] = conv[i]
    BY <1>3 DEF QInv, QParts, QTyped, ItemsTyped
  <2>3. ~Coming(i)
    BY <1>2, <2>1, <2>2 DEF Coming
  <2>4. source[i] \notin killed \cup {"legacy"} /\ killed \cap {"format", "change"} = {}
    BY <1>2, <2>1
  <2> QED BY <2>1, <2>2, <2>3, <2>4 DEF QInv, QParts, NewKnown
<1> QED BY <1>3, <1>4, <1>5, <1>6, <1>7, <1>8, <1>9 DEF QParts, QTyped

\* The jobs a start queues are finite.
LEMMA SomeJobs ==
  ASSUME NEW S \in SUBSET Items, NEW f \in Formats
  PROVE  {<<i, f>> : i \in S} \in SUBSET Jobs /\ IsFiniteSet({<<i, f>> : i \in S})
<1>1. IsFiniteSet(Items) /\ IsFiniteSet({f})
  BY LibraryAssumption, FS_Singleton
<1>2. IsFiniteSet(Items \X {f})
  BY <1>1, FS_Product
<1>3. {<<i, f>> : i \in S} \subseteq Items \X {f}
  OBVIOUS
<1>4. IsFiniteSet({<<i, f>> : i \in S})
  BY <1>2, <1>3, FS_Subset
<1>5. {<<i, f>> : i \in S} \in SUBSET Jobs
  BY DEF Jobs
<1> QED BY <1>4, <1>5

\* A start queues what waits for the format.
LEMMA StartKeeps ==
  ASSUME QInv, Start
  PROVE  QParts'
<1> DEFINE urgent == {i \in Pending : source[i] # "legacy" /\ conv[i][format].status # "ready"}
           high == {<<i, format>> : i \in urgent}
           slow == {<<i, format>> : i \in Pending \ urgent}
<1>1. /\ ~up /\ Queues(high, slow) /\ file' = (IF file = "processing" THEN "dir" ELSE file)
      /\ UNCHANGED <<stored, source, options, files, worker, upload, stop, maker, killed, format,
                     changing, client, bound, intake>>
      /\ format \in Formats
  BY DEF Start, QInv, NInv, IInv, FormatTyped
<1>2. Pending \subseteq Items /\ urgent \subseteq Pending /\ \A i \in Pending : stored[i] = "stored"
  BY DEF Pending
<1>3. /\ high \in SUBSET Jobs /\ IsFiniteSet(high)
      /\ slow \in SUBSET Jobs /\ IsFiniteSet(slow)
  <2>1. urgent \in SUBSET Items /\ Pending \ urgent \in SUBSET Items
    BY <1>2
  <2> QED BY <1>1, <2>1, SomeJobs
<1>4. \A j \in high \cup slow : stored[j[1]] # "none"
  BY <1>2
<1>5. \A i \in Pending : <<i, format>> \in high \cup slow
  OBVIOUS
<1> HIDE DEF high, slow, urgent
<1>6. /\ QueuesTyped' /\ ConvTyped' /\ Unmade' /\ Follows
      /\ \A j : Queued(j)' <=> Queued(j) \/ (j \in high \cup slow /\ ~Active(j))
  BY <1>1, <1>3, <1>4, QueuesDo
<1>7. /\ \A w \in Workers : worker[w].at = "idle"
      /\ \A j : ~Held(j)
  BY <1>1 DEF QInv, QParts, Down, Held, Has, Queued, Contains
<1>8. \A j : ~Active(j)
  BY <1>7, ActiveLives DEF QInv, QParts, QTyped
<1>9. WorkersTyped' /\ AllFilesTyped' /\ ItemsTyped' /\ OthersTyped' /\ Asked'
  BY <1>1, FilesSame DEF QInv, QParts, QTyped, WorkersTyped, ItemsTyped, OthersTyped, Asked
<1>10. up'
  BY DEF Start
<1>11. NoneNew
  BY <1>1 DEF NoneNew
<1>12. HeldKnown'
  BY <1>6, <1>11, HeldFollows
<1>13. GoOn'
  <2> SUFFICES ASSUME NEW i \in Items, NEW f \in Formats, stored[i] = "stored",
                      conv'[i][f].status \in Waiting, Concerns(i, f)' \/ AtDone(<<i, f>>)',
                      ~Lives(<<i, f>>)'
               PROVE  FALSE
    BY <1>1 DEF GoOn, Going, Waiting
  <2>1. f = format
    BY <1>1, <1>7 DEF Concerns, AtDone, Has
  <2>2. conv[i][f].status \in Waiting
    BY <1>1, <1>6 DEF Follows, StillWaits
  <2>3. i \in Pending
    BY <2>1, <2>2 DEF Pending, Waiting, OnDisk
  <2>4. Queued(<<i, f>>)'
    BY <1>5, <1>6, <1>8, <2>1, <2>3
  <2> QED BY <2>4 DEF Lives
<1>14. NewKnown'
  BY <1>1, <1>6, <1>11, NewFollows DEF Coming
<1> QED BY <1>6, <1>9, <1>10, <1>12, <1>13, <1>14 DEF QParts, QTyped, Down

LEMMA StutterKeeps ==
  ASSUME QInv, UNCHANGED <<item, jobs, process, format, changing, client, bound, file, intake>>
  PROVE  QParts'
<1>1. file \in {"none", "dir", "processing", "moved", "item", "failed", "lost"}
  BY DEF QInv, QParts, QTyped, OthersTyped
<1> QED BY <1>1, ThreadsGo

\* Only the import of the legacy storage claims it, and it reads the format.
LEMMA LegacyFormatKeeps ==
  ASSUME QInv, [Next]_vars
  PROVE  LegacyFormat'
<1>1. intake \in [Threads -> [at : {"idle", "claimed", "placed", "saved", "queued", "over"},
                            item : Items \cup {None}, format : Formats \cup {None}]]
  BY DEF QInv, NInv, IInv, IntakeTyped
<1>2. "legacy" \in Threads /\ "upload" \in Threads /\ "import" \in Threads
  BY DEF Threads
<1>3. CASE UNCHANGED intake
  BY <1>3 DEF QInv, LegacyFormat
<1>4. CASE Complete \/ FinishUpload \/ Claim
  <2>1. intake'["legacy"] = intake["legacy"]
    BY <1>1, <1>2, <1>4 DEF Complete, FinishUpload, Claim, Goes
  <2> QED BY <2>1 DEF QInv, LegacyFormat
<1>5. CASE BeginLegacy
  BY <1>1, <1>2, <1>5 DEF BeginLegacy, LegacyFormat, QInv, NInv, IInv, FormatTyped
<1>6. ASSUME NEW t \in Threads,
             \/ Refuse(t) \/ Breaks(t) \/ Save(t) \/ QueueNew(t)
             \/ \E i \in Items : Place(t, i)
      PROVE  LegacyFormat'
  <2>1. CASE t # "legacy"
    <3>1. intake'["legacy"] = intake["legacy"]
      BY <1>1, <1>2, <1>6, <2>1 DEF Refuse, Breaks, Save, QueueNew, Place, Goes
    <3> QED BY <3>1 DEF QInv, LegacyFormat
  <2>2. CASE t = "legacy" /\ (Save(t) \/ \E i \in Items : Place(t, i))
    <3>1. /\ intake["legacy"].at \in {"claimed", "placed"}
          /\ intake'["legacy"].format = intake["legacy"].format
      BY <1>1, <1>2, <2>2 DEF Save, Place, Goes
    <3> QED BY <3>1 DEF QInv, LegacyFormat
  <2>3. CASE t = "legacy" /\ (QueueNew(t) \/ Breaks(t))
    BY <1>1, <1>2, <2>3 DEF QueueNew, Breaks, LegacyFormat, Resting
  <2> QED BY <1>6, <2>1, <2>2, <2>3 DEF Refuse
<1>7. CASE Exit
  BY <1>2, <1>7 DEF Exit, LegacyFormat, Resting
<1>8. CASE \/ \E w \in Workers : Work(w)
           \/ KeepFormat \/ Stop
           \/ \E f \in Formats : SetFormat(f)
           \/ \E i \in Items : ConvertAgain(i)
  BY <1>3, <1>8, WorkLeaves
<1>9. CASE \E c \in Clients : Api(c)
  BY <1>3, <1>9, ApiLeaves
<1>10. CASE Start
  BY <1>3, <1>10 DEF Start
<1>11. CASE UNCHANGED vars
  BY <1>3, <1>11 DEF vars, rest
<1>12. CASE Upload
  <2>1. CASE \/ CreateUpload \/ Prune
             \/ \E k \in Chunks : ChunkBegins(k) \/ ChunkEnds(k) \/ ChunkFails(k)
    BY <1>3, <2>1 DEF CreateUpload, Prune, ChunkBegins, ChunkEnds, ChunkFails, Uploads, rest
  <2> QED BY <1>4, <1>12, <2>1 DEF Upload
<1>13. CASE Intake
  BY <1>3, <1>4, <1>5, <1>6, <1>13 DEF Intake, Appears
<1> QED BY <1>7, <1>8, <1>9, <1>10, <1>11, <1>12, <1>13 DEF Next

LEMMA QNext == ASSUME QInv, [Next]_vars PROVE QInv'
<1>1. NInv' /\ LegacyFormat'
  BY NNext, LegacyFormatKeeps DEF QInv
<1>2. CASE UNCHANGED vars
  <2>1. UNCHANGED <<item, jobs, process, format, changing, client, bound, file, intake>>
    BY <1>2 DEF vars, rest
  <2> QED BY <1>1, <2>1, StutterKeeps DEF QInv
<1>3. CASE KeepFormat
  <2>1. UNCHANGED <<item, jobs, process, format, changing, client, bound, file, intake>>
    BY <1>3 DEF KeepFormat
  <2> QED BY <1>1, <2>1, StutterKeeps DEF QInv
<1>4. QParts'
  BY <1>2, <1>3, WorkKeeps, ApiKeeps, SetFormatKeeps, ConvertAgainKeeps, UploadKeeps, IntakeKeeps,
     StopKeeps, ExitKeeps, StartKeeps DEF Next, QInv
<1> QED BY <1>1, <1>4 DEF QInv

\* What the invariant says of the queue and of every type.
LEMMA QInvIs == QInv => QueueInv
<1> SUFFICES ASSUME QInv PROVE QueueInv
  OBVIOUS
<1>1. TypeOK
  <2>1. /\ QTyped /\ StoredTyped /\ FormatTyped /\ IntakeTyped /\ SessionTyped /\ Sourced
    BY DEF QInv, QParts, NInv, IInv, UploadPart, LegacyPart
  <2>2. \A j \in Range(queue \o low) : j \in Jobs
    <3>1. queue \o low \in Seq(Jobs)
      BY <2>1, ContainsBoth DEF QTyped, QueuesTyped
    <3> QED BY <3>1 DEF Range
  <2> QED BY <2>1, <2>2 DEF TypeOK, QTyped, QueuesTyped, WorkersTyped, ConvTyped, AllFilesTyped,
          ItemsTyped, OthersTyped, StoredTyped, FormatTyped, IntakeTyped, SessionTyped, Sourced
<1>2. ConversionsGoOn
  <2> SUFFICES ASSUME up, ~stop, {"change", "record"} \cap killed = {}, NEW i \in Items \ changing,
                      stored[i] = "stored", conv[i][format].status \in {"queued", "converting"},
                      ~Active(<<i, format>>)
               PROVE  \E w \in Workers : worker[w].job = <<i, format>> /\ worker[w].at = "settle"
    BY DEF ConversionsGoOn, Now
  <2>1. format \in Formats /\ WorkersTyped
    BY DEF QInv, QParts, QTyped, NInv, IInv, FormatTyped
  <2>2. Lives(<<i, format>>)
    BY <2>1 DEF QInv, QParts, GoOn, Going, Concerns, Waiting
  <2> QED BY <2>1, <2>2 DEF Lives, Has, Active, IsRunning, WorkersTyped
<1>3. NewItemsConvert
  BY DEF QInv, QParts, NewKnown, Coming, NewItemsConvert, Now
<1> QED BY <1>1, <1>2, <1>3 DEF QueueInv

\* No conversion is forgotten, whatever is cancelled, deleted, failed, stopped or killed: what
\* waits has a job, with any number of workers, calls and items.
THEOREM QueueHolds == Spec => []QueueInv
BY QInit, QNext, QInvIs, PTL DEF Spec

=============================================================================
