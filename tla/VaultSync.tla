----------------------------- MODULE VaultSync -----------------------------
(***************************************************************************)
(* Vault synchronization between devices through one shared target         *)
(* (crates/aipass-agent/src/vault_sync.rs and vault_sync/storage.rs): an   *)
(* append-only set of immutable whole-vault snapshots with parent links,   *)
(* which every device downloads, merges into its own vault and extends.    *)
(*                                                                         *)
(* One run of a device's sync loop is a sequence of steps: queue local     *)
(* changes, flush the outbox, list and download, then, with the session    *)
(* mutex held, merge and publish into the outbox, and flush again.  Edits, *)
(* locking and unlocking happen between the steps that do not hold the     *)
(* mutex; a disk or network error ends the run; a crash also locks.        *)
(*                                                                         *)
(* Replacing a vault by a snapshot is one step here: that is what          *)
(* VaultJournal implements.  Snapshots are authentic (others are           *)
(* quarantined before they reach the graph).                               *)
(***************************************************************************)
EXTENDS Naturals, Sequences, FiniteSets

CONSTANTS
  Devices,
  Creator,     \* the device whose vault it is; the others restore from the target
  Recs,        \* record files
  None,        \* no vault, no checkpoint, no revision, no journal, no snapshot
  Restored,    \* devices that have synchronized before the behaviour starts
  Lockers,     \* bound: devices whose session is locked and unlocked
  CloudKit,    \* the target is CloudKit, whose history the devices bound
  MaxEdits,    \* bound: edits and key rotations made
  MaxSnaps,    \* bound: snapshots exported
  MaxFaults    \* bound: errors and crashes

ASSUME Bounds ==
  /\ Creator \in Devices
  /\ Restored \subseteq Devices /\ (Restored # {} => Creator \in Restored)
  /\ CloudKit \in BOOLEAN
  /\ MaxEdits \in Nat /\ MaxSnaps \in Nat \ {0} /\ MaxFaults \in Nat

VARIABLES
  snaps,    \* every snapshot ever exported, by id: [parents, content]
  remote,   \* ids at the target
  vault,    \* per device: the vault's content, or None before it is restored
  open,     \* per device: the session is unlocked
  disk,     \* per device: the sync files, see DiskType
  run,      \* per device: the sync run in progress, see RunType
  prior,    \* history: per edit, in order, the value it was made on top of;
            \* each edit writes its own number
  dropped,  \* history: edits given up by choosing a version in a conflict
  faults    \* errors and crashes so far

vars == <<snaps, remote, vault, open, disk, run, prior, dropped, faults>>

Ids == 1 .. MaxSnaps

\* A vault's content: the key header and each record.  The revision of a
\* content is its hash, so here the content itself.
Content == [Recs \cup {"header"} -> 0 .. MaxEdits]
Fields == Recs \cup {"header"}

Checkpoint == [heads : SUBSET Ids, rev : Content \cup {None}]
Compaction == [old_head : SUBSET Ids, old_ids : SUBSET Ids, new_id : Ids]

\* None is none of the values it stands beside.
ASSUME NoneIsNothing ==
  None \notin Content /\ None \notin Checkpoint /\ None \notin Compaction /\ None \notin Ids

DiskType ==
  [ck : Checkpoint \cup {None},    \* sync-state/<target>.json
   cache : SUBSET Ids,             \* sync-cache
   outbox : SUBSET Ids,            \* sync-outbox/<target>
   tx : Compaction \cup {None},    \* sync-outbox/<target>/compaction.json
   conflicts : SUBSET Ids]         \* sync-state/<target>-conflicts.json

\* pc: "merge" and "save" hold the session mutex, the others do not.
RunType ==
  [pc : {"idle", "flush", "list", "synchronize", "merge", "save", "prune", "delete"},
   last : BOOLEAN,                 \* the flush that ends the run
   todo : SUBSET Ids,              \* flush: not sent yet; merge: incoming heads;
                                   \* delete: what may be deleted
   listed : SUBSET Ids,            \* what the target listed
   heads : SUBSET Ids,             \* heads of the listed and checkpointed graph;
                                   \* last flush: the conflicts it reported
   local : Ids \cup {None},         \* the head this device's vault stands on
   ck : Checkpoint \cup {None},     \* synchronize's copy of the checkpoint
   sending : Ids \cup {None}]       \* the pending snapshot flush_outbox has read

NoRun == [pc |-> "idle", last |-> FALSE, todo |-> {}, listed |-> {}, heads |-> {},
          local |-> None, ck |-> None, sending |-> None]

\* Besides the types: a pending snapshot's body is in the cache as well, and
\* everything named exists.
TypeOK ==
  /\ \A i \in DOMAIN snaps :
       snaps[i].parents \subseteq 1 .. (i - 1) /\ snaps[i].content \in Content
  /\ Len(snaps) <= MaxSnaps
  /\ remote \subseteq DOMAIN snaps
  /\ vault \in [Devices -> Content \cup {None}]
  /\ open \in [Devices -> BOOLEAN]
  /\ disk \in [Devices -> DiskType]
  /\ \A d \in Devices :
       disk[d].outbox \subseteq disk[d].cache /\ disk[d].cache \subseteq DOMAIN snaps
  /\ run \in [Devices -> RunType]
  /\ Len(prior) <= MaxEdits /\ dropped \subseteq DOMAIN prior
  /\ \A e \in DOMAIN prior : prior[e] \in 0 .. (e - 1)
  /\ faults \in 0 .. MaxFaults

-----------------------------------------------------------------------------
(* The snapshot graph *)

Parents(S) == UNION {snaps[i].parents : i \in S}

HeadsOf(S) == S \ Parents(S)

\* Ids reached from i in at most n parent links, following only the links of
\* known snapshots.
Within(i, n, known) ==
  LET R[k \in 0 .. n] ==
        IF k = 0 THEN {i} ELSE R[k - 1] \cup Parents(R[k - 1] \cap known)
  IN  R[n]

Ancestors(i) == Within(i, MaxSnaps, DOMAIN snaps)

Distance(i, j, known) ==
  CHOOSE n \in 0 .. MaxSnaps :
    j \in Within(i, n, known) /\ \A m \in 0 .. n - 1 : j \notin Within(i, m, known)

\* Mutant: the base of the merge is this device's own head.
CommonAncestors_OwnHead(l, r, known) == {l}

\* common_ancestor: the known common ancestors with the least total distance;
\* the code breaks ties by id, a hash, so any of them.
CommonAncestors(l, r, known) ==
  LET both == Within(l, MaxSnaps, known) \cap Within(r, MaxSnaps, known) \cap known
      dist(j) == Distance(l, j, known) + Distance(r, j, known)
  IN  {j \in both : \A k \in both : dist(j) <= dist(k)}

\* merge_sync_snapshot: None if a header differs or one file changed on both
\* sides since the base.
CanMerge(l, r, b) ==
  /\ r["header"] = l["header"] /\ b["header"] = l["header"]
  /\ \A f \in Recs : l[f] = r[f] \/ r[f] = b[f] \/ l[f] = b[f]

Merged(l, r, b) ==
  [f \in Fields |-> IF l[f] = r[f] \/ r[f] = b[f] THEN l[f] ELSE r[f]]

-----------------------------------------------------------------------------
(* Staging: the compaction journal and the outbox *)

\* finish_compaction
Finished(D) ==
  [D EXCEPT !.outbox = @ \ D.tx.old_ids, !.cache = @ \ D.tx.old_ids, !.tx = None]

\* recover_compaction
CompactionBails(D) ==
  D.tx # None /\ D.ck.heads \notin {{D.tx.new_id}, D.tx.old_head}

Recovered(D) ==
  IF D.tx = None THEN D
  ELSE IF D.ck.heads = {D.tx.new_id} THEN Finished(D)
  ELSE [D EXCEPT !.outbox = @ \ {D.tx.new_id}, !.cache = @ \ {D.tx.new_id}, !.tx = None]

\* pending_base
Roots(D) == {i \in D.outbox : snaps[i].parents \cap D.outbox = {}}

PendingBails(D) ==
  /\ D.outbox # {}
  /\ \/ Cardinality(D.ck.heads) # 1
     \/ ~ D.ck.heads \subseteq D.outbox
     \/ \E h \in D.ck.heads : ~ D.outbox \subseteq Within(h, MaxSnaps, D.outbox)
     \/ Cardinality(Roots(D)) # 1

PendingBase(D) == IF D.outbox = {} THEN D.ck.heads ELSE Parents(Roots(D))

\* queue_local_changes with content v: nothing to queue, after recovery.
NothingToQueue(D, v) ==
  \/ D.ck.rev = None
  \/ D.ck.rev = v /\ Cardinality(D.outbox) <= 1

QueueBails(D, v) ==
  /\ D.ck # None
  /\ \/ CompactionBails(D)
     \/ LET E == Recovered(D) IN ~NothingToQueue(E, v) /\ PendingBails(E)

\* The disk after the first n of the writes that replace the outbox of D by
\* snapshot i of content v.
Queued(D, v, i, n) ==
  LET tx == [old_head |-> D.ck.heads, old_ids |-> D.outbox, new_id |-> i]
      journalled == [D EXCEPT !.tx = tx]
      staged == [journalled EXCEPT !.cache = @ \cup {i}, !.outbox = @ \cup {i}]
      committed == [staged EXCEPT !.ck = [heads |-> {i}, rev |-> v]]
  IN  <<journalled, staged, committed, Finished(committed)>>[n]

AllWrites == 4

\* queue_local_changes on device d.  ok: it returned without an error.
queue_local_changes(d, ok) ==
  LET D == disk[d]
      E == Recovered(D)
      i == Len(snaps) + 1
  IN  \/ /\ D.ck = None
         /\ ok
         /\ UNCHANGED <<snaps, disk, faults>>
      \/ /\ QueueBails(D, vault[d])
         /\ ~ok
         /\ disk' = [disk EXCEPT ![d] = IF CompactionBails(D) THEN D ELSE E]
         /\ UNCHANGED <<snaps, faults>>
      \/ /\ D.ck # None /\ ~QueueBails(D, vault[d])
         /\ NothingToQueue(E, vault[d])
         /\ ok
         /\ disk' = [disk EXCEPT ![d] = E]
         /\ UNCHANGED <<snaps, faults>>
      \/ /\ D.ck # None /\ ~QueueBails(D, vault[d])
         /\ ~NothingToQueue(E, vault[d])
         /\ i <= MaxSnaps
         /\ snaps' = Append(snaps, [parents |-> PendingBase(E), content |-> vault[d]])
         /\ \E n \in 1 .. AllWrites :
              /\ disk' = [disk EXCEPT ![d] = Queued(E, vault[d], i, n)]
              /\ ok <=> n = AllWrites
              /\ n < AllWrites => faults < MaxFaults
              /\ faults' = IF n = AllWrites THEN faults ELSE faults + 1

-----------------------------------------------------------------------------
(* A sync run *)

\* with_vault: the session mutex is free unless synchronize is at work.
MutexFree(d) == run[d].pc \notin {"merge", "save"}

\* While one device is inside its own mutex it touches nothing the others see,
\* and where nothing is deleted listing follows the flush at once: their steps
\* wait.
Turn(d) ==
  \A e \in Devices \ {d} :
    run[e].pc \notin {"merge", "save"} \cup (IF CloudKit THEN {} ELSE {"list"})

End(d) == run' = [run EXCEPT ![d] = NoRun]

\* A run r that has nothing left to flush goes on to list, or ends; with
\* CloudKit and no conflict it bounds the history first.
Flushed(r) ==
  IF r.todo # {} \/ r.sending # None THEN r
  ELSE IF ~r.last THEN [r EXCEPT !.pc = "list"]
  ELSE IF CloudKit /\ r.heads = {} THEN [r EXCEPT !.pc = "prune"]
  ELSE NoRun

\* Remote::connect lists CloudKit's snapshots once for the whole run.
FirstFlush(ids) ==
  Flushed([NoRun EXCEPT !.pc = "flush", !.todo = ids,
                        !.listed = IF CloudKit THEN remote ELSE {}])

LastFlush(d, conflicts) ==
  Flushed([NoRun EXCEPT !.pc = "flush", !.todo = disk[d].outbox, !.last = TRUE,
                        !.listed = IF CloudKit THEN run[d].listed ELSE {},
                        !.heads = IF CloudKit THEN conflicts ELSE {}])

\* run_inner begins: queue what changed, then flush what is pending.
BeginRun(d) ==
  /\ Turn(d)
  /\ run[d].pc = "idle"
  /\ \/ /\ open[d]
        /\ \/ /\ queue_local_changes(d, TRUE)
              /\ run' = [run EXCEPT ![d] = FirstFlush(disk'[d].outbox)]
           \/ queue_local_changes(d, FALSE) /\ UNCHANGED run
     \/ /\ ~open[d]
        /\ run' = [run EXCEPT ![d] = FirstFlush(disk[d].outbox)]
        /\ UNCHANGED <<snaps, disk, faults>>
  /\ UNCHANGED <<remote, vault, open, prior, dropped>>

\* flush_outbox reads one pending snapshot.  One that lock_session compacted
\* away meanwhile is missing: the run ends.
FlushRead(d) ==
  /\ Turn(d)
  /\ run[d].pc = "flush" /\ run[d].sending = None
  /\ \E i \in run[d].todo :
       run' = [run EXCEPT ![d] = IF i \in disk[d].outbox
                                 THEN [run[d] EXCEPT !.sending = i, !.todo = @ \ {i}]
                                 ELSE NoRun]
  /\ UNCHANGED <<snaps, remote, vault, open, disk, prior, dropped, faults>>

\* It publishes what it has read and removes it from the outbox.  The target
\* may store it and the answer be lost: then the run ends before the removal.
FlushSend(d) ==
  /\ Turn(d)
  /\ run[d].sending # None
  /\ remote' = remote \cup {run[d].sending}
  /\ \/ /\ disk' = [disk EXCEPT ![d].outbox = @ \ {run[d].sending}]
        /\ run' = [run EXCEPT ![d] = Flushed([@ EXCEPT !.sending = None])]
        /\ UNCHANGED faults
     \/ /\ faults < MaxFaults /\ faults' = faults + 1
        /\ End(d)
        /\ UNCHANGED disk
  /\ UNCHANGED <<snaps, vault, open, prior, dropped>>

\* List the target and download what is not cached.  A listing may lag: it
\* may miss a snapshot.
List(d) ==
  LET ids == IF CloudKit THEN run[d].listed ELSE remote IN
  /\ Turn(d)
  /\ run[d].pc = "list"
  /\ \E miss \in {{}} \cup {{i} : i \in ids} :
       /\ miss # {} => faults < MaxFaults
       /\ faults' = IF miss = {} THEN faults ELSE faults + 1
       /\ ids \ miss \subseteq remote \cup disk[d].cache
       /\ disk' = [disk EXCEPT ![d].cache = @ \cup (ids \ miss)]
       /\ run' = [run EXCEPT ![d].pc = "synchronize", ![d].listed = ids \ miss]
  /\ UNCHANGED <<snaps, remote, vault, open, prior, dropped>>

\* Another device has deleted a listed snapshot meanwhile: the run ends.
SnapshotGone(d) ==
  /\ Turn(d)
  /\ run[d].pc = "list"
  /\ ~ run[d].listed \subseteq remote \cup disk[d].cache
  /\ disk' = [disk EXCEPT ![d].cache = @ \cup (run[d].listed \cap remote)]
  /\ End(d)
  /\ UNCHANGED <<snaps, remote, vault, open, prior, dropped, faults>>

\* What synchronize knows: the listing and its own checkpoint's heads.
Known(d) ==
  run[d].listed \cup (IF disk[d].ck = None THEN {} ELSE disk[d].ck.heads)

LoadedCheckpoint(d) ==
  IF disk[d].ck = None THEN [heads |-> {}, rev |-> None] ELSE disk[d].ck

\* A head of the checkpoint is neither listed nor cached: synchronize fails.
HeadMissing(d) ==
  /\ Turn(d)
  /\ run[d].pc = "synchronize"
  /\ ~ Known(d) \subseteq disk[d].cache
  /\ End(d)
  /\ UNCHANGED <<snaps, remote, vault, open, disk, prior, dropped, faults>>

\* Mutant: an existing vault is replaced without being unlocked.
MayRestore_Existing(d, heads) == Cardinality(heads) = 1

\* A locked device takes a version only if it has no vault and there is one.
MayRestore(d, heads) == vault[d] = None /\ Cardinality(heads) = 1

\* synchronize on a locked device: restore an absent vault from the only head,
\* then write the checkpoint; that write may fail, and the vault stays.
SynchronizeLocked(d) ==
  /\ Turn(d)
  /\ run[d].pc = "synchronize" /\ ~open[d]
  /\ Known(d) \subseteq disk[d].cache
  /\ LET heads == HeadsOf(Known(d))
         ck == [heads |-> heads, rev |-> LoadedCheckpoint(d).rev]
     IN  IF MayRestore(d, heads)
         THEN /\ \E i \in heads : vault' = [vault EXCEPT ![d] = snaps[i].content]
              /\ \/ /\ disk' = [disk EXCEPT ![d].ck = ck]
                    /\ run' = [run EXCEPT ![d] = LastFlush(d, {})]
                    /\ UNCHANGED faults
                 \/ /\ faults < MaxFaults /\ faults' = faults + 1
                    /\ End(d)
                    /\ UNCHANGED disk
         ELSE /\ run' = [run EXCEPT ![d] =
                            LastFlush(d, IF vault[d] = None THEN heads ELSE {})]
              /\ UNCHANGED <<vault, disk, faults>>
  /\ UNCHANGED <<snaps, remote, open, prior, dropped>>

\* The checkpoint's revision, or that of its only head when it is not set.
AuthenticatedRev(ck) ==
  IF ck.rev = None /\ Cardinality(ck.heads) = 1
  THEN snaps[CHOOSE h \in ck.heads : TRUE].content
  ELSE ck.rev

\* Mutant: local edits do not stop it.
CanFastForward_Dirty(d, i) ==
  /\ snaps[i].content # vault[d]
  /\ LoadedCheckpoint(d).heads # {i}

\* The single head i can be taken over whole: this device has not edited.
CanFastForward(d, i) ==
  /\ snaps[i].content # vault[d]
  /\ AuthenticatedRev(LoadedCheckpoint(d)) = vault[d]
  /\ LoadedCheckpoint(d).heads # {i}

FastForward(d, heads) ==
  \E i \in heads : heads = {i} /\ CanFastForward(d, i)

\* The checkpoint after the single-head cases of synchronize.
HeadCheckpoint(d, heads) ==
  LET ck == LoadedCheckpoint(d)
      i == CHOOSE h \in heads : TRUE
  IN  IF Cardinality(heads) = 1
         /\ (snaps[i].content = vault[d] \/ CanFastForward(d, i))
      THEN [heads |-> heads, rev |-> snaps[i].content]
      ELSE [heads |-> ck.heads, rev |-> AuthenticatedRev(ck)]

\* What the vault holds after them.
Forwarded(d, heads) ==
  IF FastForward(d, heads) THEN snaps[CHOOSE i \in heads : TRUE].content ELSE vault[d]

\* The first head of the checkpoint, if it has one.
LocalHead(ck) == IF ck.heads = {} THEN None ELSE CHOOSE h \in ck.heads : TRUE

SynchronizeUnlocked(d) ==
  /\ Turn(d)
  /\ run[d].pc = "synchronize" /\ open[d]
  /\ Known(d) \subseteq disk[d].cache
  /\ LET heads == HeadsOf(Known(d))
         ck == HeadCheckpoint(d, heads)
         todo == IF Cardinality(ck.heads) = 1 THEN heads \ ck.heads ELSE {}
     IN  /\ vault' = [vault EXCEPT ![d] = Forwarded(d, heads)]
         /\ run' = [run EXCEPT ![d] =
                      [run[d] EXCEPT !.pc = "merge", !.heads = heads, !.ck = ck,
                                     !.local = LocalHead(ck), !.todo = todo]]
  /\ UNCHANGED <<snaps, remote, open, disk, prior, dropped, faults>>

\* One incoming head: joined if it has this vault's content, merged if the
\* changes are independent, otherwise left as a conflict.
MergeHead(d) ==
  /\ Turn(d)
  /\ run[d].pc = "merge"
  /\ \E i \in run[d].todo :
       LET v == vault[d]
           r == snaps[i].content
           bases == CommonAncestors(run[d].local, i, Known(d))
           Taken(c) == /\ vault' = [vault EXCEPT ![d] = c]
                       /\ run' = [run EXCEPT ![d] = [run[d] EXCEPT !.todo = @ \ {i},
                                 !.ck = [heads |-> run[d].ck.heads \cup {i}, rev |-> None]]]
           Left == run' = [run EXCEPT ![d].todo = @ \ {i}] /\ UNCHANGED vault
       IN  \/ r = v /\ Taken(v)
           \/ r # v /\ bases = {} /\ Left
           \/ r # v /\ \E b \in bases :
                IF CanMerge(v, r, snaps[b].content)
                THEN Taken(Merged(v, r, snaps[b].content))
                ELSE Left
  /\ UNCHANGED <<snaps, remote, open, disk, prior, dropped, faults>>

\* Publish an immutable branch on what this device has incorporated, if the
\* vault differs from the checkpoint: cache and outbox, still under the mutex.
Publish(d) ==
  /\ Turn(d)
  /\ run[d].pc = "merge" /\ run[d].todo = {}
  /\ LET ck == run[d].ck
         i == Len(snaps) + 1
     IN  IF ck.rev = vault[d]
         THEN /\ run' = [run EXCEPT ![d].pc = "save"]
              /\ UNCHANGED <<snaps, disk>>
         ELSE /\ i <= MaxSnaps
              /\ snaps' = Append(snaps, [parents |-> ck.heads, content |-> vault[d]])
              /\ disk' = [disk EXCEPT ![d] =
                            [disk[d] EXCEPT !.cache = @ \cup {i}, !.outbox = @ \cup {i}]]
              /\ run' = [run EXCEPT ![d] =
                           [run[d] EXCEPT !.pc = "save", !.heads = (@ \ ck.heads) \cup {i},
                                          !.ck = [heads |-> {i}, rev |-> vault[d]]]]
  /\ UNCHANGED <<remote, vault, open, prior, dropped, faults>>

\* Mutant: a conflict of two versions is not shown.
ConflictList_Short(heads) == IF Cardinality(heads) > 2 THEN heads ELSE {}

ConflictList(heads) == IF Cardinality(heads) > 1 THEN heads ELSE {}

\* The conflict list, then the checkpoint; then the mutex is released and the
\* outbox flushed once more.
Save(d) ==
  /\ Turn(d)
  /\ run[d].pc = "save"
  /\ LET conflicts == ConflictList(run[d].heads) IN
     \/ /\ disk' = [disk EXCEPT ![d].conflicts = conflicts, ![d].ck = run[d].ck]
        /\ run' = [run EXCEPT ![d] = LastFlush(d, conflicts)]
        /\ UNCHANGED faults
     \/ /\ faults < MaxFaults /\ faults' = faults + 1
        /\ disk' = [disk EXCEPT ![d].conflicts = conflicts]
        /\ End(d)
  /\ UNCHANGED <<snaps, remote, vault, open, prior, dropped>>

-----------------------------------------------------------------------------
(* cloudkit_retention.rs and storage/cache_retention.rs *)

\* Mutant: the parents of a head are not protected.
Protected_HeadsOnly(known, heads) == HeadsOf(known) \cup heads

\* expired_ids deletes neither a head, nor a head of the checkpoint, nor a
\* parent of one of those.
Protected(known, heads) ==
  LET top == HeadsOf(known) \cup heads IN top \cup Parents(top)

\* prune works out what is old: everything there was when the run began and is
\* not protected may be, for its age or for the number and size of the rest.
Prune(d) ==
  LET known == Known(d) IN
  /\ Turn(d)
  /\ run[d].pc = "prune"
  /\ IF /\ open[d] /\ disk[d].ck # None /\ disk[d].ck.rev # None
        /\ known \subseteq disk[d].cache
     THEN run' = [run EXCEPT ![d].pc = "delete", ![d].listed = known,
                    ![d].todo = known \ Protected(known, disk[d].ck.heads)]
     ELSE End(d)
  /\ UNCHANGED <<snaps, remote, vault, open, disk, prior, dropped, faults>>

\* remote.delete
Delete(d) ==
  /\ Turn(d)
  /\ run[d].pc = "delete"
  /\ \E i \in run[d].todo :
       /\ remote' = remote \ {i}
       /\ run' = [run EXCEPT ![d].todo = @ \ {i}, ![d].listed = @ \ {i}]
  /\ UNCHANGED <<snaps, vault, open, disk, prior, dropped, faults>>

\* Mutant: unsent snapshots are not kept.
Retained_Roots(d) ==
  LET roots == disk[d].ck.heads \cup disk[d].conflicts
  IN run[d].listed \cup Parents(roots \cap disk[d].cache)

\* prune_cache keeps what is at the target, acknowledged, in conflict, unsent,
\* or a parent of one of the last three.
Retained(d) ==
  LET roots == disk[d].ck.heads \cup disk[d].conflicts
  IN run[d].listed \cup roots \cup disk[d].outbox
       \cup Parents((roots \cap disk[d].cache) \cup disk[d].outbox)

\* The local cache follows, under the session mutex.
PruneCache(d) ==
  /\ Turn(d)
  /\ run[d].pc = "delete"
  /\ disk' = IF open[d] THEN [disk EXCEPT ![d].cache = @ \cap Retained(d)] ELSE disk
  /\ End(d)
  /\ UNCHANGED <<snaps, remote, vault, open, prior, dropped, faults>>

\* A network or disk error ends the run where it is.
RunFails(d) ==
  /\ Turn(d)
  /\ run[d].pc # "idle"
  /\ faults < MaxFaults /\ faults' = faults + 1
  /\ End(d)
  /\ UNCHANGED <<snaps, remote, vault, open, disk, prior, dropped>>

Crash(d) ==
  /\ Turn(d)
  /\ faults < MaxFaults /\ faults' = faults + 1
  /\ open' = [open EXCEPT ![d] = FALSE]
  /\ End(d)
  /\ UNCHANGED <<snaps, remote, vault, disk, prior, dropped>>

-----------------------------------------------------------------------------
(* The user *)

\* An edit of a record, or a key rotation; each writes a value of its own.
Edit(d) ==
  /\ Turn(d)
  /\ open[d] /\ MutexFree(d)
  /\ Len(prior) < MaxEdits
  /\ \E f \in Fields :
       /\ prior' = Append(prior, vault[d][f])
       /\ vault' = [vault EXCEPT ![d][f] = Len(prior) + 1]
  /\ UNCHANGED <<snaps, remote, open, disk, run, dropped, faults>>

\* lock_session stages the latest ciphertext first; if that fails it is
\* logged and the session locks all the same.
lock_session(d) ==
  /\ Turn(d)
  /\ open[d] /\ MutexFree(d) /\ d \in Lockers
  /\ \E ok \in BOOLEAN : queue_local_changes(d, ok)
  /\ open' = [open EXCEPT ![d] = FALSE]
  /\ UNCHANGED <<remote, vault, run, prior, dropped>>

Unlock(d) ==
  /\ Turn(d)
  /\ ~open[d] /\ MutexFree(d) /\ vault[d] # None
  /\ open' = [open EXCEPT ![d] = TRUE]
  /\ UNCHANGED <<snaps, remote, vault, disk, run, prior, dropped, faults>>

Values(c) == {c[f] : f \in Fields}

\* What value e replaced, directly and through earlier edits.
Overwritten(e) ==
  LET Below[n \in 0 .. Len(prior)] ==
        IF n = 0 THEN {} ELSE {prior[n]} \cup Below[prior[n]]
  IN  Below[e]

\* Edits nobody has overwritten on top of them or given up.
Live == DOMAIN prior \ ({prior[e] : e \in DOMAIN prior} \cup dropped)

\* resolve: choose version i for the whole vault, or keep the local one, and
\* acknowledge every version in the conflict list.  The sync mutex keeps runs
\* out.  A disk error can leave the vault replaced and the list in place, or
\* the checkpoint written and the list in place.
resolve(d) ==
  /\ Turn(d)
  /\ run[d].pc = "idle" /\ open[d]
  /\ \E i \in disk[d].conflicts, accept \in BOOLEAN :
       /\ accept => i \in disk[d].cache
       /\ LET list == disk[d].conflicts
              chosen == IF accept THEN snaps[i].content ELSE vault[d]
              lost == ((UNION {Values(snaps[j].content) : j \in list})
                         \cup Values(vault[d])) \ Values(chosen)
              acknowledged == [disk[d] EXCEPT !.ck = [heads |-> list, rev |-> None]]
          IN  /\ vault' = [vault EXCEPT ![d] = chosen]
              /\ dropped' = dropped \cup (lost \ {0})
              /\ \/ /\ disk' = [disk EXCEPT ![d] = [acknowledged EXCEPT !.conflicts = {}]]
                    /\ UNCHANGED faults
                 \/ /\ faults < MaxFaults /\ faults' = faults + 1
                    /\ disk' \in {disk, [disk EXCEPT ![d] = acknowledged]}
  /\ UNCHANGED <<snaps, remote, open, run, prior>>

-----------------------------------------------------------------------------
\* The restored devices stand on the first snapshot; the creator has a vault.
Init ==
  LET blank == [f \in Fields |-> 0]
      first == IF Restored = {} THEN {} ELSE {1}
  IN  /\ snaps = IF Restored = {} THEN <<>> ELSE <<[parents |-> {}, content |-> blank]>>
      /\ remote = first
      /\ vault = [d \in Devices |-> IF d \in Restored \cup {Creator} THEN blank ELSE None]
      /\ open = [d \in Devices |-> d \in Restored \cup {Creator}]
      /\ disk = [d \in Devices |->
                   [ck |-> IF d \in Restored THEN [heads |-> first, rev |-> blank] ELSE None,
                    cache |-> IF d \in Restored THEN first ELSE {},
                    outbox |-> {}, tx |-> None, conflicts |-> {}]]
      /\ run = [d \in Devices |-> NoRun]
      /\ prior = <<>>
      /\ dropped = {}
      /\ faults = 0

SyncStep(d) ==
  \/ BeginRun(d) \/ FlushRead(d) \/ FlushSend(d) \/ List(d)
  \/ HeadMissing(d) \/ SynchronizeLocked(d) \/ SynchronizeUnlocked(d)
  \/ MergeHead(d) \/ Publish(d) \/ Save(d)
  \/ SnapshotGone(d) \/ Prune(d) \/ Delete(d) \/ PruneCache(d)

Next ==
  \E d \in Devices :
    \/ SyncStep(d) \/ RunFails(d) \/ Crash(d)
    \/ Edit(d) \/ lock_session(d) \/ Unlock(d) \/ resolve(d)

Spec == Init /\ [][Next]_vars

\* The watch loop polls its target at least every minute and runs again after
\* an error, so a device whose agent is up keeps taking sync steps.  (Strong
\* fairness only because Turn makes the devices wait for each other here.)
FairSpec == Spec /\ \A d \in Devices : SF_vars(SyncStep(d))

-----------------------------------------------------------------------------
(* Properties *)

\* No edit disappears silently: an edit that nobody overwrote on top of it and
\* nobody gave up in a conflict is in some device's vault or in a snapshot
\* that no other snapshot has replaced.
NoSilentLoss ==
  LET sent == remote \cup UNION {disk[d].outbox : d \in Devices} IN
  \A e \in Live :
    \/ \E d \in Devices : vault[d] # None /\ e \in Values(vault[d])
    \/ \E i \in HeadsOf(sent) : e \in Values(snaps[i].content)

\* The edits given up, and those under them.
GivenUp == dropped \cup UNION {Overwritten(e) : e \in dropped}

\* Synchronization never takes a device back: a run never replaces a value by
\* one that it was an edit of, unless the user gave that edit up.
NeverUndone ==
  [][\A d \in Devices, f \in Fields :
       vault[d] # None /\ vault[d][f] \notin GivenUp' =>
         vault'[d][f] \notin Overwritten(vault[d][f])]_vars

\* Retention deletes a snapshot only if a version built on it is at the target
\* and stays there: whatever is published, staged or deleted since the listing
\* it goes by, a device that restores finds the newest version of every branch
\* (expired_ids).
NewestStays ==
  [][\A i \in remote \ remote' : \E j \in remote' : i \in Ancestors(j)]_vars

Agreed == \A d, e \in Devices : vault[d] = vault[e]

ConflictShown == \E d \in Devices : disk[d].conflicts # {}

\* Once all devices stay unlocked and online they end up with the same vault,
\* or a conflict is on display.  (Behaviours that use up the snapshot bound
\* say nothing.)
Convergence ==
  <>[](\A d \in Devices : open[d]) /\ [](Len(snaps) < MaxSnaps)
    => <>[](Agreed \/ ConflictShown)

\* The checkpoint only names snapshots this device holds or the target can
\* still give it, although compaction and retention delete on both sides;
\* otherwise every later synchronize fails.
CheckpointReachable ==
  \A d \in Devices :
    disk[d].ck # None => disk[d].ck.heads \subseteq disk[d].cache \cup remote

\* Local changes can be queued whenever the vault is unlocked.
QueueNeverBails ==
  \A d \in Devices : open[d] /\ MutexFree(d) => ~QueueBails(disk[d], vault[d])
=============================================================================
