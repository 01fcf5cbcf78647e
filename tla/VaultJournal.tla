---------------------------- MODULE VaultJournal ----------------------------
(***************************************************************************)
(* The on-disk vault of one device and the journal that makes a change of  *)
(* the whole vault atomic (crates/aipass-vault/src/sync_snapshot.rs): the  *)
(* journal is written before any record, the manifest after every record,  *)
(* and the journal is removed last.  Any step may fail, the process may    *)
(* die between any two steps, and the next unlock replays the journal.     *)
(*                                                                         *)
(* Every operation runs with the agent's session mutex held, so at most    *)
(* one is in progress (stage # "idle"); a request that finds the mutex     *)
(* taken simply starts later.                                              *)
(***************************************************************************)
CONSTANTS
  Records,     \* record, grant and device files: replicated between devices
  Audits,      \* audit event files: local to the device
  Keys,        \* epoch keys (VaultEpoch.key_id)
  Passwords,   \* master passwords
  Values,      \* plaintexts
  Absent,      \* no file at a path
  Tombstone,   \* a deletion marker: never encrypted, so under no key
  NoSnapshot,  \* no journal on disk
  Locked,      \* SessionState::Locked
  NoPassword,  \* the running operation sets no new password
  RecoverWhileUnlocked  \* may recover_vault be called on an unlocked session?

Paths == Records \cup Audits

Envelope == [key : Keys, val : Values]
File == Envelope \cup {Tombstone}
FileOrNone == File \cup {Absent}

\* The manifest, reduced to the epoch key and the password it wraps.
Header == [key : Keys, pw : Passwords]

\* Version 1 carries the audit files too and stays on this device; version 2
\* is what peers exchange.
Snapshot == [version : {1, 2}, header : Header, files : [Paths -> FileOrNone]]

ASSUME ConstantsDiffer ==
  /\ Records \cap Audits = {}
  /\ Absent \notin File
  /\ Tombstone \notin Envelope
  /\ NoSnapshot \notin Snapshot
  /\ Locked \notin Header
  /\ NoPassword \notin Passwords
  /\ RecoverWhileUnlocked \in BOOLEAN

VARIABLES
  manifest,    \* manifest.aipmanifest
  files,       \* the encrypted files on disk
  pending,     \* pending-sync.aipsnapshot, or NoSnapshot
  session,     \* Locked, or the header (and so the key) the session's Vault holds
  stage,       \* what the holder of the session mutex is doing
  phase,       \* how far its finish_pending_sync has come
  fresh,       \* it works on a Vault it is opening, not on the session's
  self,        \* the header its Vault holds
  original,    \* apply_sync_snapshot's rollback copy
  newPassword, \* the password recover_master_password will set
  settled,     \* history: the content when the vault was last readable
  attempted    \* history: the header of the transaction tried since then

disk == <<manifest, files, pending>>
oper == <<stage, phase, fresh, self, original, newPassword>>
vars == <<manifest, files, pending, session, stage, phase, fresh, self,
          original, newPassword, settled, attempted>>

-----------------------------------------------------------------------------
(* Content *)

Plain(f) == IF f \in Envelope THEN f.val ELSE f

ContentOf(h, fs) == [header |-> h, vals |-> [p \in Paths |-> Plain(fs[p])]]
\* Mutant: a peer's version replaces the audit log too.
Covered_Everything(s) == Paths

\* The paths a snapshot replaces: version 2 leaves the audit log alone.
Covered(s) == IF s.version = 1 THEN Paths ELSE Records

\* The content the vault has once the journal, if there is one, is replayed.
Logical ==
  IF pending = NoSnapshot
  THEN ContentOf(manifest, files)
  ELSE ContentOf(pending.header,
         [p \in Paths |-> IF p \in Covered(pending) THEN pending.files[p]
                                                    ELSE files[p]])

UnderKey(fs, k) == \A p \in Paths : fs[p] \in Envelope => fs[p].key = k

\* decode_snapshot accepts s: every envelope opens under the header's key.
Authentic(s) ==
  /\ UnderKey(s.files, s.header.key)
  /\ s.version = 2 => \A a \in Audits : s.files[a] = Absent

\* export_sync_snapshot: the rollback copy, audit events included.
export_sync_snapshot(h) == [version |-> 1, header |-> h, files |-> files]

Reencrypt(f, k) == IF f \in Envelope THEN [key |-> k, val |-> f.val] ELSE f

\* prepare_epoch_rotation: every envelope under the next key k, a new audit
\* event at a, and, when a device is revoked, its record r rewritten to v.
prepare_epoch_rotation(h, k, a, v, r) ==
  [version |-> 1,
   header  |-> h,
   files   |-> [p \in Paths |->
                  IF p = a \/ (p = r /\ files[r] \in Envelope)
                  THEN [key |-> k, val |-> v]
                  ELSE Reencrypt(files[p], k)]]

-----------------------------------------------------------------------------
(* States *)

Idle == stage = "idle"
Unlocked == session # Locked
\* Mutant: requests are let through while a journal is on disk.
Ready_Ungated == Idle /\ Unlocked

\* with_vault and with_vault_mut: an unlocked session and no journal on disk.
Ready == Idle /\ Unlocked /\ pending = NoSnapshot

\* A new vault: its manifest and this device's record, r.
Created ==
  /\ pending = NoSnapshot
  /\ \E r \in Records, v \in Values :
       files = [p \in Paths |-> IF p = r THEN [key |-> manifest.key, val |-> v]
                                         ELSE Absent]

\* A vault restored from a sync target: VaultSyncSnapshot::bootstrap has
\* written the journal and the manifest, and no record yet.
Bootstrapped ==
  /\ \E fs \in [Records -> FileOrNone] :
       pending = [version |-> 2, header |-> manifest,
                  files |-> [p \in Paths |-> IF p \in Records THEN fs[p]
                                                              ELSE Absent]]
  /\ Authentic(pending)
  /\ files = [p \in Paths |-> Absent]

Init ==
  /\ manifest \in Header
  /\ Created \/ Bootstrapped
  /\ session = Locked
  /\ stage = "idle"
  /\ phase = "files"
  /\ fresh = FALSE
  /\ self = manifest
  /\ original = NoSnapshot
  /\ newPassword = NoPassword
  /\ settled = Logical
  /\ attempted = manifest

Return ==
  /\ stage' = "idle"
  /\ phase' = "files"
  /\ fresh' = FALSE
  /\ self' = manifest
  /\ original' = NoSnapshot
  /\ newPassword' = NoPassword

\* The vault is readable after this step exactly if no journal is left.
Settle ==
  /\ settled' = IF pending' = NoSnapshot THEN Logical' ELSE settled
  /\ attempted' = IF pending' = NoSnapshot THEN manifest'
                  ELSE IF pending = NoSnapshot THEN pending'.header
                  ELSE attempted

-----------------------------------------------------------------------------
(* finish_pending_sync, one disk operation at a time *)

Working == stage \in {"apply", "rollback", "replay"} /\ pending # NoSnapshot

Unwritten == {p \in Paths : pending.files[p] # Absent /\ files[p] # pending.files[p]}
Unremoved == {p \in Covered(pending) : pending.files[p] = Absent /\ files[p] # Absent}

\* rewrap_local_audit's work list: events not yet under the next epoch key.
Unwrapped ==
  IF pending.version = 2 /\ pending.header.key # self.key
  THEN {a \in Audits : files[a] \in Envelope /\ files[a].key # pending.header.key}
  ELSE {}

WriteRecord ==
  /\ Working /\ phase = "files"
  /\ \E p \in Unwritten : files' = [files EXCEPT ![p] = pending.files[p]]
  /\ UNCHANGED <<manifest, pending, session, oper>> /\ Settle

RemoveRecord ==
  /\ Working /\ phase = "files"
  /\ Unwritten = {}
  /\ \E p \in Unremoved : files' = [files EXCEPT ![p] = Absent]
  /\ UNCHANGED <<manifest, pending, session, oper>> /\ Settle
RewrapAudit ==
  /\ Working /\ phase = "files"
  /\ Unwritten = {} /\ Unremoved = {}
  /\ \E a \in Unwrapped :
       /\ files[a].key = self.key
       /\ files' = [files EXCEPT ![a] = Reencrypt(files[a], pending.header.key)]
  /\ UNCHANGED <<manifest, pending, session, oper>> /\ Settle
\* Mutant: the manifest is written before the last record.
WriteManifest_Early ==
  /\ Working /\ phase = "files"
  /\ Unwrapped = {}
  /\ manifest' = pending.header
  /\ phase' = "reload"
  /\ UNCHANGED <<files, pending, session, stage, fresh, self, original, newPassword>>
  /\ Settle

WriteManifest ==
  /\ Working /\ phase = "files"
  /\ Unwritten = {} /\ Unremoved = {} /\ Unwrapped = {}
  /\ manifest' = pending.header
  /\ phase' = "reload"
  /\ UNCHANGED <<files, pending, session, stage, fresh, self, original, newPassword>>
  /\ Settle
\* Mutant: the session keeps the keys it was unlocked with.
reload_from_disk_Stale ==
  /\ Working /\ phase = "reload"
  /\ self' = manifest
  /\ phase' = "unlink"
  /\ UNCHANGED <<disk, session, stage, fresh, original, newPassword>> /\ Settle

\* reload_from_disk: the header and the keys of the Vault at hand.
reload_from_disk ==
  /\ Working /\ phase = "reload"
  /\ self' = manifest
  /\ session' = IF fresh THEN session ELSE manifest
  /\ phase' = "unlink"
  /\ UNCHANGED <<disk, stage, fresh, original, newPassword>> /\ Settle

\* The journal is gone: the operation that waited for it goes on.  A Vault
\* just opened replaces the session's; recover_master_password first rotates;
\* a rolled back apply returns its error.
RemoveJournal ==
  /\ Working /\ phase = "unlink"
  /\ pending' = NoSnapshot
  /\ IF stage = "replay" /\ newPassword # NoPassword
     THEN /\ stage' = "rotate"
          /\ phase' = "files"
          /\ UNCHANGED <<session, fresh, self, original, newPassword>>
     ELSE /\ session' = IF fresh /\ stage # "rollback" THEN self ELSE session
          /\ Return
  /\ UNCHANGED <<manifest, files>> /\ Settle

FinishStep ==
  \/ WriteRecord \/ RemoveRecord \/ RewrapAudit
  \/ WriteManifest \/ reload_from_disk \/ RemoveJournal

\* rewrap_local_audit cannot open an event under either key.
RewrapRefused ==
  /\ Working /\ phase = "files"
  /\ Unwritten = {} /\ Unremoved = {}
  /\ \E a \in Unwrapped : files[a].key # self.key

\* finish_pending_sync returns an error.  apply_sync_snapshot answers it by
\* writing its rollback copy to the journal and replaying that; the write may
\* be refused, or reported as failed although the rename happened.  Any other
\* caller returns the error and leaves the journal.
FinishFails ==
  /\ Working
  /\ \/ /\ stage = "apply"
        /\ pending' = original
        /\ \/ /\ stage' = "rollback"
              /\ phase' = "files"
              /\ UNCHANGED <<fresh, self, original, newPassword>>
           \/ Return
     \/ /\ UNCHANGED pending
        /\ Return
  /\ UNCHANGED <<manifest, files, session>> /\ Settle

-----------------------------------------------------------------------------
(* Operations *)

\* apply_sync_snapshot's journal write: s replaces the vault v is open on.
\* An error reported after the rename leaves the journal and ends the call.
Journal(s, onFresh, v) ==
  /\ pending' = s
  /\ \/ /\ stage' = "apply"
        /\ phase' = "files"
        /\ fresh' = onFresh
        /\ self' = v
        /\ original' = export_sync_snapshot(v)
        /\ newPassword' = NoPassword
     \/ Return
  /\ UNCHANGED <<manifest, files, session>> /\ Settle

\* Any version a peer can have published: records only, all under one key.
PeerSnapshots ==
  {s \in [version : {2}, header : Header, files : [Paths -> FileOrNone]] : Authentic(s)}

\* A peer's version, a merge, or the version chosen in a conflict.
apply_sync_snapshot ==
  /\ Ready
  /\ \E s \in PeerSnapshots : Journal(s, FALSE, session)

\* commit_epoch_rotation of the Vault v, to password pw, through the journal.
commit_epoch_rotation(v, pw, onFresh) ==
  /\ UnderKey(files, v.key)
  /\ \E k \in Keys \ {v.key}, a \in Audits, x \in Values, r \in Paths :
       /\ files[a] = Absent /\ (r \in Records \/ r = a)
       /\ Journal(prepare_epoch_rotation([key |-> k, pw |-> pw], k, a, x, r),
                  onFresh, v)

\* change_master_password, advance_epoch_and_rewrap, revoke_device.
Rotate ==
  /\ Ready
  /\ \E pw \in Passwords : commit_epoch_rotation(session, pw, FALSE)

\* write_envelope, or a deletion marker, through with_vault_mut; and the
\* audit events of the same requests.
Edit ==
  /\ Ready
  /\ \E p \in Paths, f \in [key : {session.key}, val : Values] \cup {Tombstone} :
       /\ f = Tombstone => p \in Records /\ files[p] \in Envelope
       /\ p \in Audits => files[p] = Absent
       /\ files' = [files EXCEPT ![p] = f]
  /\ UNCHANGED <<manifest, pending, session, oper>> /\ Settle

\* audit_retention::maintain drops old events.
ExpireAudit ==
  /\ Ready
  /\ \E a \in Audits : files[a] # Absent /\ files' = [files EXCEPT ![a] = Absent]
  /\ UNCHANGED <<manifest, pending, session, oper>> /\ Settle

lock_session ==
  /\ Idle /\ Unlocked
  /\ session' = Locked
  /\ UNCHANGED <<disk, oper>> /\ Settle

\* Mutant: the journal is left for later.
Open_SkipsReplay(pw) ==
  /\ IF pw = NoPassword
     THEN session' = manifest /\ UNCHANGED oper
     ELSE stage' = "rotate" /\ fresh' = TRUE /\ self' = manifest
          /\ newPassword' = pw /\ UNCHANGED <<session, phase, original>>
  /\ UNCHANGED disk /\ Settle

\* open_with_root_key on a Vault just made from the manifest: replay the
\* journal, or, without one, hand the Vault over at once.
Open(pw) ==
  /\ IF pending # NoSnapshot
     THEN stage' = "replay" /\ phase' = "files" /\ fresh' = TRUE
          /\ self' = manifest /\ newPassword' = pw
          /\ UNCHANGED <<session, original>>
     ELSE IF pw = NoPassword
     THEN session' = manifest /\ UNCHANGED oper
     ELSE stage' = "rotate" /\ fresh' = TRUE /\ self' = manifest
          /\ newPassword' = pw /\ UNCHANGED <<session, phase, original>>
  /\ UNCHANGED disk /\ Settle

\* unlock_with_password with the password the manifest wraps; any other is
\* refused without an effect.
unlock_with_password ==
  /\ Idle
  /\ Open(NoPassword)

\* recover_vault: the recovery key opens the vault, then sets a password.
recover_vault ==
  /\ Idle
  /\ RecoverWhileUnlocked \/ ~Unlocked
  /\ \E pw \in Passwords : Open(pw)

RecoverRotates ==
  /\ stage = "rotate"
  /\ commit_epoch_rotation(self, newPassword, TRUE)

\* The rotation fails before its journal is written.
RecoverFails ==
  /\ stage = "rotate"
  /\ Return
  /\ UNCHANGED <<disk, session>> /\ Settle
\* Mutant: a journal is only retried once its manifest has been written.
recover_local_pending_Late ==
  /\ Idle /\ Unlocked /\ pending # NoSnapshot
  /\ manifest = pending.header
  /\ stage' = "replay"
  /\ phase' = "files"
  /\ self' = session
  /\ UNCHANGED <<disk, session, fresh, original, newPassword>> /\ Settle

\* recover_local_pending: every background sync retries the journal with the
\* keys of the unlocked session.
recover_local_pending ==
  /\ Idle /\ Unlocked /\ pending # NoSnapshot
  /\ stage' = "replay"
  /\ phase' = "files"
  /\ self' = session
  /\ UNCHANGED <<disk, session, fresh, original, newPassword>> /\ Settle

\* The process dies: memory is lost, the disk stays as it is.
Crash ==
  /\ session' = Locked
  /\ Return
  /\ UNCHANGED disk /\ Settle

Next ==
  \/ FinishStep \/ FinishFails \/ Crash
  \/ apply_sync_snapshot \/ Rotate \/ Edit \/ ExpireAudit
  \/ lock_session \/ unlock_with_password \/ recover_local_pending
  \/ recover_vault \/ RecoverRotates \/ RecoverFails

Spec == Init /\ [][Next]_vars

\* The holder of the mutex keeps running and, on a device with a sync target,
\* the watcher's loop keeps calling run_configured, which begins with
\* recover_local_pending.
LiveSpec == Spec /\ WF_vars(FinishStep) /\ WF_vars(recover_local_pending)

-----------------------------------------------------------------------------
(* Properties *)

\* Each variable holds a value of its kind, and the journal, when there is
\* one, is a snapshot decode_snapshot accepts.
TypeOK ==
  /\ manifest \in Header
  /\ files \in [Paths -> FileOrNone]
  /\ pending \in Snapshot \cup {NoSnapshot}
  /\ session \in Header \cup {Locked}
  /\ stage \in {"idle", "apply", "rollback", "replay", "rotate"}
  /\ phase \in {"files", "reload", "unlink"}
  /\ fresh \in BOOLEAN
  /\ self \in Header
  /\ original \in Snapshot \cup {NoSnapshot}
  /\ newPassword \in Passwords \cup {NoPassword}

\* Whenever with_vault lets a request through, the vault on disk is one whole
\* version: every record opens under the manifest's key, and the session
\* holds exactly the manifest's keys (no stale epoch key writes records that
\* other devices cannot read).
WholeWhenReady ==
  Idle /\ pending = NoSnapshot =>
    UnderKey(files, manifest.key) /\ session \in {Locked, manifest}

\* Replaying the journal can fail for want of disk only: whatever half-applied
\* state a crash or a failed rollback left, every audit event still opens
\* under the key of the Vault that replays it or under the journal's.
ReplayNeverRefused == ~RewrapRefused

\* A user is never shut out: whatever failed half-way, the manifest wraps the
\* password of the last readable version or that of the one transaction tried
\* since, and the journal holds one of the same two.
OldOrNewPasswordOpens ==
  {manifest, Logical.header} \subseteq {settled.header, attempted}

\* The comment on reload_from_disk: "without reloading, this session would
\* keep writing records other devices can no longer read".
SessionKeyCurrent == Ready => session.key = manifest.key

-----------------------------------------------------------------------------
(* Why it holds: the inductive invariant *)

\* Audit events a version 2 journal leaves in place open under h's key or
\* under the key the journal moves to.
AuditsOpenUnder(h) ==
  \A a \in Audits : files[a] \in Envelope => files[a].key \in {h.key, pending.header.key}

\* The journal can be replayed by the session, by whoever opens the manifest,
\* and by the operation under way.
JournalOK ==
  pending # NoSnapshot =>
    /\ Authentic(pending)
    /\ pending.version = 2 =>
         /\ AuditsOpenUnder(manifest)
         /\ AuditsOpenUnder(self)
         /\ Unlocked => AuditsOpenUnder(session)

\* Without a journal the disk is whole and its content is the settled one.
DiskOK ==
  pending = NoSnapshot =>
    /\ UnderKey(files, manifest.key)
    /\ settled = ContentOf(manifest, files)
    /\ stage \in {"idle", "rotate"}
    /\ Idle => session \in {Locked, manifest}

\* What the operation under way keeps in memory.
OperOK ==
  /\ Idle => ~fresh /\ newPassword = NoPassword
  /\ ~Idle /\ stage # "rotate" => pending # NoSnapshot
  /\ ~Idle /\ ~fresh => session = self
  /\ stage = "rotate" => /\ pending = NoSnapshot /\ self = manifest
                         /\ fresh /\ newPassword # NoPassword
  /\ newPassword # NoPassword => fresh /\ stage \in {"replay", "rotate"}
  /\ fresh /\ (newPassword # NoPassword \/ stage # "replay") => session = Locked
  /\ stage = "apply" =>
       /\ original \in Snapshot /\ original.version = 1 /\ Authentic(original)
       /\ settled = ContentOf(original.header, original.files)
  /\ stage = "rollback" => Logical = settled

\* Past the record phase, disk and journal agree.
PhaseOK ==
  /\ phase # "files" =>
       /\ Working
       /\ manifest = pending.header
       /\ \A p \in Covered(pending) : files[p] = pending.files[p]
       /\ UnderKey(files, pending.header.key)
  /\ phase = "unlink" => self = manifest

\* The headers in play are the settled one and the one being tried.
HeadersOK ==
  /\ OldOrNewPasswordOpens
  /\ pending = NoSnapshot => attempted = manifest
  /\ stage = "apply" => attempted = pending.header

JournalInv == TypeOK /\ JournalOK /\ DiskOK /\ OperOK /\ PhaseOK /\ HeadersOK

-----------------------------------------------------------------------------
(* What it implements, and progress *)

\* The vault is the atomic vault: whatever fails, its logical content changes
\* in whole transactions, is only taken back before anyone could read it,
\* and no transaction loses a local audit event.
Atomic == INSTANCE AtomicVault WITH
  AuditLog <- Audits, Headers <- Header,
  Plains <- Values \cup {Tombstone}, NoRecord <- Absent,
  content <- Logical, settled <- settled, doubt <- (pending # NoSnapshot)

IsAtomic == Atomic!Spec

\* Once disk errors and crashes stop, a journal left on disk is replayed and
\* the unlocked session becomes usable again without a new unlock.
JournalDrains ==
  <>[][~FinishFails /\ ~Crash]_vars =>
    (pending # NoSnapshot /\ Unlocked ~> Ready \/ ~Unlocked)
=============================================================================
