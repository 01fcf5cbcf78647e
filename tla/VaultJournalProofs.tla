------------------------- MODULE VaultJournalProofs -------------------------
(***************************************************************************)
(* Proofs about VaultJournal, for any sets of files, keys and passwords.   *)
(***************************************************************************)
EXTENDS VaultJournal, TLAPS

-----------------------------------------------------------------------------
(* Facts about files and snapshots *)

\* A file's plaintext is a value, a deletion marker or nothing.
LEMMA PlainType ==
  ASSUME NEW f \in FileOrNone
  PROVE  Plain(f) \in Values \cup {Tombstone} \cup {Absent}
BY DEF Plain, FileOrNone, File, Envelope

\* Re-encrypting a file gives a file with the same plaintext, and only an
\* absent file is absent afterwards.
LEMMA ReencryptFile ==
  ASSUME NEW f \in FileOrNone, NEW k \in Keys
  PROVE  /\ Reencrypt(f, k) \in FileOrNone
         /\ Plain(Reencrypt(f, k)) = Plain(f)
         /\ Reencrypt(f, k) \in Envelope => Reencrypt(f, k).key = k
         /\ f \in Envelope <=> Reencrypt(f, k) \in Envelope
BY ConstantsDiffer DEF Reencrypt, Plain, FileOrNone, File, Envelope

\* The rotation prepared from the files on disk is a version 1 snapshot that
\* decodes, and it keeps every audit event that exists.
LEMMA RotationAuthentic ==
  ASSUME TypeOK,
         NEW k \in Keys, NEW pw \in Passwords, NEW a \in Audits, NEW x \in Values,
         NEW r \in Paths, files[a] = Absent, r \in Records \/ r = a
  PROVE  LET s == prepare_epoch_rotation([key |-> k, pw |-> pw], k, a, x, r) IN
         /\ s \in Snapshot
         /\ s.version = 1
         /\ s.header = [key |-> k, pw |-> pw]
         /\ Authentic(s)
         /\ \A b \in Audits : files[b] # Absent => Plain(s.files[b]) = Plain(files[b])
<1> DEFINE s == prepare_epoch_rotation([key |-> k, pw |-> pw], k, a, x, r)
<1> DEFINE e == [key |-> k, val |-> x]
<1>e. e \in Envelope /\ e \in FileOrNone /\ e.key = k
  BY DEF Envelope, FileOrNone, File
<1>0. /\ s.version = 1
      /\ s.header = [key |-> k, pw |-> pw]
      /\ s.files = [p \in Paths |-> IF p = a \/ (p = r /\ files[r] \in Envelope)
                                    THEN e ELSE Reencrypt(files[p], k)]
      /\ s = [version |-> s.version, header |-> s.header, files |-> s.files]
  BY DEF prepare_epoch_rotation
<1>1. \A p \in Paths : /\ s.files[p] \in FileOrNone
                       /\ s.files[p] \in Envelope => s.files[p].key = k
  BY <1>0, <1>e, ReencryptFile DEF TypeOK
<1>2. s \in Snapshot
  BY <1>0, <1>1 DEF Snapshot, Header
<1>3. Authentic(s)
  BY <1>0, <1>1 DEF Authentic, UnderKey
<1>4. ASSUME NEW b \in Audits, files[b] # Absent
      PROVE  Plain(s.files[b]) = Plain(files[b])
  <2>1. b # a /\ b # r /\ b \in Paths
    BY <1>4, ConstantsDiffer DEF Paths
  <2> QED BY <2>1, <1>0, ReencryptFile DEF TypeOK
<1> HIDE DEF s
<1> QED BY <1>0, <1>2, <1>3, <1>4 DEF s

-----------------------------------------------------------------------------
(* The inductive invariant: one lemma per action *)

\* A vault just created, or bootstrapped from a target, satisfies the invariant.
LEMMA InitInv == Init => JournalInv
<1> SUFFICES ASSUME Init PROVE JournalInv OBVIOUS
<1> USE ConstantsDiffer DEF Init
<1>1. CASE Created
  <2>1. PICK r \in Records, v \in Values :
          files = [p \in Paths |-> IF p = r THEN [key |-> manifest.key, val |-> v]
                                            ELSE Absent]
    BY <1>1 DEF Created
  <2>2. pending = NoSnapshot
    BY <1>1 DEF Created
  <2>3. /\ files \in [Paths -> FileOrNone]
        /\ UnderKey(files, manifest.key)
    BY <2>1 DEF FileOrNone, File, Envelope, Header, UnderKey
  <2>4. TypeOK
    BY <2>2, <2>3 DEF TypeOK
  <2>5. settled = ContentOf(manifest, files)
    BY <2>2 DEF Logical
  <2>6. JournalOK /\ DiskOK /\ OperOK /\ PhaseOK
    BY <2>2, <2>3, <2>5 DEF JournalOK, DiskOK, OperOK, PhaseOK, Idle
  <2>7. HeadersOK
    BY <2>2, <2>5 DEF HeadersOK, OldOrNewPasswordOpens, Logical, ContentOf
  <2> QED BY <2>4, <2>6, <2>7 DEF JournalInv
<1>2. CASE Bootstrapped
  <2>1. PICK fs \in [Records -> FileOrNone] :
          pending = [version |-> 2, header |-> manifest,
                     files |-> [p \in Paths |-> IF p \in Records THEN fs[p] ELSE Absent]]
    BY <1>2 DEF Bootstrapped
  <2>2. /\ pending \in Snapshot
        /\ pending.header = manifest
        /\ pending # NoSnapshot
    BY <2>1 DEF Snapshot, FileOrNone
  <2>3. files = [p \in Paths |-> Absent] /\ Authentic(pending)
    BY <1>2 DEF Bootstrapped
  <2>4. TypeOK
    BY <2>2, <2>3 DEF TypeOK, FileOrNone
  <2>5. JournalOK
    BY <2>2, <2>3 DEF JournalOK, AuditsOpenUnder, Paths, File, Unlocked
  <2>6. DiskOK /\ OperOK /\ PhaseOK
    BY <2>2 DEF DiskOK, OperOK, PhaseOK, Idle
  <2>7. HeadersOK
    BY <2>2 DEF HeadersOK, OldOrNewPasswordOpens, Logical, ContentOf
  <2> QED BY <2>4, <2>5, <2>6, <2>7 DEF JournalInv
<1> QED BY <1>1, <1>2

\* Writing, removing or re-encrypting a file at a path the journal replaces,
\* or re-encrypting an audit event, leaves the logical content alone.
LEMMA FileStepInv ==
  ASSUME JournalInv, Working, phase = "files",
         NEW p \in Paths, NEW f \in FileOrNone,
         files' = [files EXCEPT ![p] = f],
         p \notin Covered(pending) =>
           /\ Plain(f) = Plain(files[p])
           /\ f \in Envelope => f.key = pending.header.key,
         UNCHANGED <<manifest, pending, session, oper>>, Settle
  PROVE  JournalInv' /\ Logical' = Logical /\ settled' = settled
<1> USE ConstantsDiffer DEF JournalInv, oper
<1>1. /\ pending # NoSnapshot /\ pending \in Snapshot
      /\ settled' = settled /\ attempted' = attempted
  BY DEF Working, Settle, TypeOK
<1>2. files' \in [Paths -> FileOrNone] /\ \A q \in Paths : files'[q] = IF q = p THEN f ELSE files[q]
  BY DEF TypeOK
<1>3. Logical' = Logical
  BY <1>1, <1>2 DEF Logical, ContentOf, Covered
<1>4. TypeOK'
  BY <1>2 DEF TypeOK
<1>5. JournalOK'
  <2>1. ASSUME NEW h \in Header, AuditsOpenUnder(h), pending.version = 2
        PROVE  AuditsOpenUnder(h)'
    BY <2>1, <1>1, <1>2 DEF AuditsOpenUnder, Covered, Paths
  <2> QED BY <2>1, <1>1 DEF JournalOK, TypeOK, Unlocked, AuditsOpenUnder
<1>6. DiskOK' /\ OperOK' /\ PhaseOK'
  BY <1>1, <1>3 DEF DiskOK, OperOK, PhaseOK, Idle, Working, Authentic, UnderKey, ContentOf
<1>7. HeadersOK'
  BY <1>1, <1>3 DEF HeadersOK, OldOrNewPasswordOpens
<1> QED BY <1>1, <1>3, <1>4, <1>5, <1>6, <1>7

\* finish_pending_sync writes a file the journal holds.
LEMMA WriteRecordInv ==
  JournalInv /\ WriteRecord => JournalInv' /\ Logical' = Logical /\ settled' = settled
<1> SUFFICES ASSUME JournalInv, WriteRecord
             PROVE  JournalInv' /\ Logical' = Logical /\ settled' = settled
  OBVIOUS
<1>1. PICK p \in Unwritten : files' = [files EXCEPT ![p] = pending.files[p]]
  BY DEF WriteRecord
<1>2. pending \in Snapshot /\ Authentic(pending)
  BY DEF WriteRecord, Working, JournalInv, JournalOK, TypeOK
<1>3. p \in Paths /\ pending.files[p] \in FileOrNone
  BY <1>1, <1>2 DEF Unwritten, Snapshot
<1>4. p \in Covered(pending)
  BY <1>1, <1>2, ConstantsDiffer DEF Unwritten, Covered, Authentic, Snapshot, Paths
<1> QED BY <1>1, <1>3, <1>4, FileStepInv DEF WriteRecord

\* finish_pending_sync removes a file the journal does not hold.
LEMMA RemoveRecordInv ==
  JournalInv /\ RemoveRecord => JournalInv' /\ Logical' = Logical /\ settled' = settled
<1> SUFFICES ASSUME JournalInv, RemoveRecord
             PROVE  JournalInv' /\ Logical' = Logical /\ settled' = settled
  OBVIOUS
<1>1. PICK p \in Unremoved : files' = [files EXCEPT ![p] = Absent]
  BY DEF RemoveRecord
<1>2. p \in Paths /\ p \in Covered(pending) /\ Absent \in FileOrNone
  BY <1>1 DEF Unremoved, Covered, Paths, FileOrNone
<1> QED BY <1>1, <1>2, FileStepInv DEF RemoveRecord

\* rewrap_local_audit moves one event to the journal's key.
LEMMA RewrapAuditInv ==
  JournalInv /\ RewrapAudit => JournalInv' /\ Logical' = Logical /\ settled' = settled
<1> SUFFICES ASSUME JournalInv, RewrapAudit
             PROVE  JournalInv' /\ Logical' = Logical /\ settled' = settled
  OBVIOUS
<1>1. PICK a \in Unwrapped :
        files' = [files EXCEPT ![a] = Reencrypt(files[a], pending.header.key)]
  BY DEF RewrapAudit
<1>2. a \in Paths /\ files[a] \in FileOrNone /\ pending.header.key \in Keys
  BY <1>1, ConstantsDiffer
     DEF Unwrapped, Paths, JournalInv, TypeOK, RewrapAudit, Working, Snapshot, Header
<1> QED BY <1>1, <1>2, ReencryptFile, FileStepInv DEF RewrapAudit

\* The manifest is written once every file is in place.
LEMMA WriteManifestInv ==
  JournalInv /\ WriteManifest => JournalInv' /\ Logical' = Logical /\ settled' = settled
<1> SUFFICES ASSUME JournalInv, WriteManifest
             PROVE  JournalInv' /\ Logical' = Logical /\ settled' = settled
  OBVIOUS
<1> USE ConstantsDiffer DEF JournalInv, WriteManifest
<1>1. /\ pending # NoSnapshot /\ pending \in Snapshot /\ Authentic(pending)
      /\ settled' = settled /\ attempted' = attempted
      /\ manifest' = pending.header /\ pending.header \in Header
  BY DEF Working, Settle, TypeOK, JournalOK, Snapshot
<1>2. Logical' = Logical
  BY <1>1 DEF Logical, ContentOf, Covered
<1>3. \A p \in Covered(pending) : files[p] = pending.files[p]
  BY DEF Unwritten, Unremoved, Covered, Paths
<1>4. UnderKey(files, pending.header.key)
  <2>1. CASE pending.version = 1
    BY <2>1, <1>1, <1>3 DEF Covered, Authentic, UnderKey
  <2>2. CASE pending.version = 2
    <3>1. \A a \in Audits : files[a] \in Envelope => files[a].key = pending.header.key
      BY <2>2, <1>1 DEF Unwrapped, JournalOK, AuditsOpenUnder
    <3> QED BY <3>1, <2>2, <1>1, <1>3 DEF Covered, Authentic, UnderKey, Paths
  <2> QED BY <1>1, <2>1, <2>2 DEF Snapshot
<1>5. TypeOK'
  BY <1>1 DEF TypeOK
<1>6. JournalOK'
  BY <1>1, <1>4 DEF JournalOK, AuditsOpenUnder, UnderKey, Unlocked, Paths, Authentic
<1>7. DiskOK' /\ OperOK'
  BY <1>1, <1>2 DEF DiskOK, OperOK, Idle, Working, Authentic, UnderKey, ContentOf
<1>8. PhaseOK'
  BY <1>1, <1>3, <1>4 DEF PhaseOK, Working, Covered, UnderKey
<1>9. HeadersOK'
  BY <1>1, <1>2 DEF HeadersOK, OldOrNewPasswordOpens, Logical, ContentOf
<1> QED BY <1>1, <1>2, <1>5, <1>6, <1>7, <1>8, <1>9

\* reload_from_disk takes over the journal's header.
LEMMA ReloadInv ==
  JournalInv /\ reload_from_disk => JournalInv' /\ Logical' = Logical /\ settled' = settled
<1> SUFFICES ASSUME JournalInv, reload_from_disk
             PROVE  JournalInv' /\ Logical' = Logical /\ settled' = settled
  OBVIOUS
<1> USE ConstantsDiffer DEF JournalInv, reload_from_disk, disk
<1>1. /\ pending # NoSnapshot /\ pending \in Snapshot
      /\ settled' = settled /\ attempted' = attempted
  BY DEF Working, Settle, TypeOK
<1>2. Logical' = Logical
  BY <1>1 DEF Logical, ContentOf, Covered
<1>3. TypeOK'
  BY DEF TypeOK
<1>4. JournalOK'
  BY DEF JournalOK, AuditsOpenUnder, Unlocked, Authentic, UnderKey
<1>5. DiskOK' /\ OperOK'
  BY <1>1, <1>2 DEF DiskOK, OperOK, Idle, Working, Authentic, UnderKey, ContentOf
<1>6. PhaseOK'
  BY <1>1 DEF PhaseOK, Working, Covered, UnderKey
<1>7. HeadersOK'
  BY <1>1, <1>2 DEF HeadersOK, OldOrNewPasswordOpens
<1> QED BY <1>1, <1>2, <1>3, <1>4, <1>5, <1>6, <1>7

\* Removing the journal settles the logical content.
LEMMA RemoveJournalInv ==
  JournalInv /\ RemoveJournal => JournalInv' /\ Logical' = Logical /\ settled' = Logical
<1> SUFFICES ASSUME JournalInv, RemoveJournal
             PROVE  JournalInv' /\ Logical' = Logical /\ settled' = Logical
  OBVIOUS
<1> USE ConstantsDiffer DEF JournalInv, RemoveJournal
<1>1. /\ pending # NoSnapshot /\ pending \in Snapshot /\ pending' = NoSnapshot
      /\ manifest' = manifest /\ files' = files
      /\ settled' = Logical' /\ attempted' = manifest
  BY DEF Working, Settle, TypeOK
<1>2. /\ manifest = pending.header /\ self = manifest
      /\ \A p \in Covered(pending) : files[p] = pending.files[p]
      /\ UnderKey(files, manifest.key)
  BY DEF PhaseOK
<1>3. Logical' = ContentOf(manifest, files)
  BY <1>1 DEF Logical, ContentOf
<1>4. Logical' = Logical
  BY <1>1, <1>2, <1>3 DEF Logical, ContentOf, Covered
<1>5. TypeOK'
  BY <1>1 DEF TypeOK, Return
<1>6. JournalOK' /\ PhaseOK'
  BY <1>1 DEF JournalOK, PhaseOK, Return
<1>7. /\ stage' = "idle" \/ stage' = "rotate"
      /\ Idle' => session' \in {Locked, manifest} /\ ~fresh' /\ newPassword' = NoPassword
      /\ stage' = "rotate" => /\ self' = manifest /\ fresh' /\ session' = Locked
                            /\ newPassword' # NoPassword
  BY <1>1, <1>2 DEF Return, OperOK, Idle, Working
<1>8. DiskOK'
  BY <1>1, <1>2, <1>3, <1>7 DEF DiskOK, UnderKey, ContentOf
<1>9. OperOK'
  BY <1>1, <1>7 DEF OperOK, Idle
<1>10. HeadersOK'
  BY <1>1, <1>3, <1>7 DEF HeadersOK, OldOrNewPasswordOpens, ContentOf, Idle
<1> QED BY <1>1, <1>4, <1>5, <1>6, <1>8, <1>9, <1>10

\* The rollback copy is a whole version 1 snapshot of the settled content.
LEMMA ExportWhole ==
  ASSUME JournalInv, pending = NoSnapshot
  PROVE  LET o == export_sync_snapshot(manifest) IN
         /\ o \in Snapshot /\ o.version = 1 /\ o.header = manifest
         /\ Authentic(o)
         /\ settled = ContentOf(o.header, o.files)
BY DEF export_sync_snapshot, JournalInv, DiskOK, TypeOK, Snapshot, Authentic

\* Beginning a transaction on a readable vault.
LEMMA JournalStepInv ==
  ASSUME JournalInv, pending = NoSnapshot,
         NEW s \in Snapshot, Authentic(s),
         NEW onFresh \in BOOLEAN,
         session \in {Locked, manifest},
         session = IF onFresh THEN Locked ELSE manifest,
         Journal(s, onFresh, manifest)
  PROVE  JournalInv' /\ settled' = settled /\ pending' = s /\ files' = files
<1> USE ConstantsDiffer DEF JournalInv, Journal
<1>1. /\ pending' = s /\ s # NoSnapshot
      /\ manifest' = manifest /\ files' = files /\ session' = session
      /\ settled' = settled /\ attempted' = s.header
      /\ self' = manifest /\ phase' = "files" /\ newPassword' = NoPassword
  BY DEF Settle, Return
<1>2. UnderKey(files, manifest.key) /\ settled = ContentOf(manifest, files)
  BY DEF DiskOK
<1>3. \/ stage' = "idle" /\ fresh' = FALSE /\ original' = NoSnapshot
      \/ stage' = "apply" /\ fresh' = onFresh /\ original' = export_sync_snapshot(manifest)
  BY DEF Return
<1>4. TypeOK'
  BY <1>1, <1>3, ExportWhole DEF TypeOK
<1>5. JournalOK'
  BY <1>1, <1>2 DEF JournalOK, AuditsOpenUnder, UnderKey, Paths, Unlocked
<1>6. DiskOK' /\ PhaseOK'
  BY <1>1 DEF DiskOK, PhaseOK
<1>7. OperOK'
  <2>1. CASE stage' = "idle" /\ fresh' = FALSE
    BY <2>1, <1>1 DEF OperOK, Idle
  <2>2. CASE stage' = "apply" /\ fresh' = onFresh /\ original' = export_sync_snapshot(manifest)
    <3>1. /\ (original \in Snapshot)' /\ original'.version = 1 /\ Authentic(original')
          /\ settled = ContentOf(original'.header, original'.files)
      BY <2>2, ExportWhole
    <3>2. Authentic(original)' /\ settled' = ContentOf(original.header, original.files)'
      BY <3>1, <1>1 DEF Authentic, UnderKey, ContentOf
    <3> QED BY <2>2, <3>1, <3>2, <1>1 DEF OperOK, Idle
  <2> QED BY <1>3, <2>1, <2>2
<1>8. HeadersOK'
  BY <1>1, <1>2 DEF HeadersOK, OldOrNewPasswordOpens, Logical, ContentOf
<1> QED BY <1>1, <1>4, <1>5, <1>6, <1>7, <1>8

\* apply_sync_snapshot of any authentic peer version.
LEMMA ApplyInv ==
  JournalInv /\ apply_sync_snapshot =>
    /\ JournalInv' /\ settled' = settled /\ files' = files
    /\ pending = NoSnapshot
    /\ pending' \in Snapshot /\ pending'.version = 2
<1> SUFFICES ASSUME JournalInv, apply_sync_snapshot
             PROVE  /\ JournalInv' /\ settled' = settled /\ files' = files
                    /\ pending = NoSnapshot
                    /\ pending' \in Snapshot /\ pending'.version = 2
  OBVIOUS
<1>1. PICK s \in PeerSnapshots : Journal(s, FALSE, session)
  BY DEF apply_sync_snapshot
<1>2. s \in Snapshot /\ Authentic(s) /\ s.version = 2
  BY DEF PeerSnapshots, Snapshot
<1>3. pending = NoSnapshot /\ session = manifest
  BY DEF apply_sync_snapshot, Ready, JournalInv, DiskOK, Unlocked
<1> QED BY <1>1, <1>2, <1>3, JournalStepInv

\* A key rotation, of the session's vault or of one just opened.
LEMMA RotationInv ==
  ASSUME JournalInv, pending = NoSnapshot,
         NEW pw \in Passwords, NEW onFresh \in BOOLEAN,
         session = IF onFresh THEN Locked ELSE manifest,
         commit_epoch_rotation(manifest, pw, onFresh)
  PROVE  /\ JournalInv' /\ settled' = settled /\ files' = files
         /\ pending' \in Snapshot /\ pending'.version = 1
         /\ \A b \in Audits :
              files[b] # Absent => Plain(pending'.files[b]) = Plain(files[b])
<1>1. PICK k \in Keys \ {manifest.key}, a \in Audits, x \in Values, r \in Paths :
        /\ files[a] = Absent /\ (r \in Records \/ r = a)
        /\ Journal(prepare_epoch_rotation([key |-> k, pw |-> pw], k, a, x, r),
                   onFresh, manifest)
  BY DEF commit_epoch_rotation
<1> DEFINE s == prepare_epoch_rotation([key |-> k, pw |-> pw], k, a, x, r)
<1>2. /\ s \in Snapshot /\ s.version = 1 /\ Authentic(s)
      /\ \A b \in Audits : files[b] # Absent => Plain(s.files[b]) = Plain(files[b])
  BY <1>1, RotationAuthentic DEF JournalInv
<1>3. Journal(s, onFresh, manifest)
  BY <1>1
<1> HIDE DEF s
<1> QED BY <1>2, <1>3, JournalStepInv

\* A rotation asked for by the unlocked session.
LEMMA RotateInv ==
  JournalInv /\ Rotate =>
    /\ JournalInv' /\ settled' = settled /\ files' = files
    /\ pending = NoSnapshot
    /\ pending' \in Snapshot /\ pending'.version = 1
    /\ \A b \in Audits : files[b] # Absent => Plain(pending'.files[b]) = Plain(files[b])
<1> SUFFICES ASSUME JournalInv, Rotate
             PROVE  /\ JournalInv' /\ settled' = settled /\ files' = files
                    /\ pending = NoSnapshot
                    /\ pending' \in Snapshot /\ pending'.version = 1
                    /\ \A b \in Audits :
                         files[b] # Absent => Plain(pending'.files[b]) = Plain(files[b])
  OBVIOUS
<1>1. pending = NoSnapshot /\ session = manifest
  BY DEF Rotate, Ready, JournalInv, DiskOK, Unlocked
<1>2. PICK pw \in Passwords : commit_epoch_rotation(manifest, pw, FALSE)
  BY <1>1 DEF Rotate
<1> QED BY <1>1, <1>2, RotationInv

\* The rotation recover_master_password ends with.
LEMMA RecoverRotatesInv ==
  JournalInv /\ RecoverRotates =>
    /\ JournalInv' /\ settled' = settled /\ files' = files
    /\ pending = NoSnapshot
    /\ pending' \in Snapshot /\ pending'.version = 1
    /\ \A b \in Audits : files[b] # Absent => Plain(pending'.files[b]) = Plain(files[b])
<1> SUFFICES ASSUME JournalInv, RecoverRotates
             PROVE  /\ JournalInv' /\ settled' = settled /\ files' = files
                    /\ pending = NoSnapshot
                    /\ pending' \in Snapshot /\ pending'.version = 1
                    /\ \A b \in Audits :
                         files[b] # Absent => Plain(pending'.files[b]) = Plain(files[b])
  OBVIOUS
<1>1. pending = NoSnapshot /\ session = Locked /\ self = manifest
      /\ newPassword \in Passwords
  BY DEF RecoverRotates, JournalInv, OperOK, TypeOK
<1>2. commit_epoch_rotation(manifest, newPassword, TRUE)
  BY <1>1 DEF RecoverRotates
<1> QED BY <1>1, <1>2, RotationInv

\* A finish that fails: the journal becomes the rollback copy, or stays.
LEMMA FinishFailsInv ==
  JournalInv /\ FinishFails =>
    JournalInv' /\ settled' = settled /\ Logical' \in {Logical, settled}
    /\ pending # NoSnapshot /\ pending' # NoSnapshot
<1> SUFFICES ASSUME JournalInv, FinishFails
             PROVE  /\ JournalInv' /\ settled' = settled /\ Logical' \in {Logical, settled}
                    /\ pending # NoSnapshot /\ pending' # NoSnapshot
  OBVIOUS
<1> USE ConstantsDiffer DEF JournalInv, FinishFails
<1>1. /\ pending # NoSnapshot /\ pending' # NoSnapshot
      /\ settled' = settled /\ attempted' = attempted
      /\ manifest' = manifest /\ files' = files /\ session' = session
      /\ self' \in {self, manifest} /\ phase' = "files"
  BY DEF Working, Settle, TypeOK, OperOK, Return
<1>2. TypeOK'
  BY <1>1 DEF TypeOK, Return
<1>3. CASE pending' = pending /\ Return
  <2>1. Logical' = Logical
    BY <1>1, <1>3 DEF Logical, ContentOf, Covered
  <2>2. JournalOK'
    BY <1>1, <1>3 DEF JournalOK, AuditsOpenUnder, Unlocked, Authentic, UnderKey, Return
  <2>3. DiskOK' /\ OperOK' /\ PhaseOK'
    BY <1>1, <1>3 DEF DiskOK, OperOK, PhaseOK, Idle, Return
  <2>4. HeadersOK'
    BY <1>1, <1>3, <2>1 DEF HeadersOK, OldOrNewPasswordOpens, Return
  <2> QED BY <1>1, <1>2, <2>1, <2>2, <2>3, <2>4
<1>4. CASE stage = "apply" /\ pending' = original
  <2>1. /\ original \in Snapshot /\ original.version = 1 /\ Authentic(original)
        /\ settled = ContentOf(original.header, original.files)
    BY <1>4 DEF OperOK
  <2>2. Logical' = settled
    BY <1>1, <1>4, <2>1 DEF Logical, ContentOf, Covered
  <2>3. JournalOK'
    BY <1>4, <2>1 DEF JournalOK, Authentic, UnderKey
  <2>4. DiskOK' /\ PhaseOK'
    BY <1>1 DEF DiskOK, PhaseOK
  <2>5. \/ stage' = "rollback" /\ fresh' = fresh /\ self' = self /\ newPassword' = newPassword
        \/ Return
    BY <1>1, <1>4
  <2>6. OperOK'
    BY <1>1, <1>4, <2>2, <2>5 DEF OperOK, Idle, Return
  <2>7. HeadersOK'
    BY <1>1, <1>4, <2>1, <2>2, <2>5 DEF HeadersOK, OldOrNewPasswordOpens, ContentOf, Return
  <2> QED BY <1>1, <1>2, <2>2, <2>3, <2>4, <2>6, <2>7
<1> QED BY <1>3, <1>4

\* Content c with plaintext v at path p.
Rewritten(c, p, v) == [header |-> c.header, vals |-> [c.vals EXCEPT ![p] = v]]

\* A readable vault is edited one file at a time.
LEMMA EditStepInv ==
  ASSUME JournalInv, Ready, NEW p \in Paths, NEW f \in FileOrNone,
         f \in Envelope => f.key = session.key,
         files' = [files EXCEPT ![p] = f],
         UNCHANGED <<manifest, pending, session, oper>>, Settle
  PROVE  /\ JournalInv' /\ settled' = Logical'
         /\ Logical' = Rewritten(Logical, p, Plain(f))
<1> USE ConstantsDiffer DEF JournalInv, oper, Ready
<1>1. /\ pending = NoSnapshot /\ Idle /\ session = manifest
      /\ settled' = Logical' /\ attempted' = manifest
      /\ UnderKey(files, manifest.key)
  BY DEF DiskOK, Unlocked, Settle
<1>2. /\ files' \in [Paths -> FileOrNone]
      /\ \A q \in Paths : files'[q] = IF q = p THEN f ELSE files[q]
  BY DEF TypeOK
<1>3. TypeOK'
  BY <1>2 DEF TypeOK
<1>4. Logical' = ContentOf(manifest, files)'
  BY <1>1 DEF Logical
<1>5. DiskOK'
  BY <1>1, <1>2, <1>4 DEF DiskOK, UnderKey, Idle
<1>6. JournalOK' /\ OperOK' /\ PhaseOK'
  BY <1>1 DEF JournalOK, OperOK, PhaseOK, Idle, Working
<1>7. HeadersOK'
  BY <1>1, <1>4 DEF HeadersOK, OldOrNewPasswordOpens, ContentOf, Idle
<1>8. Logical' = Rewritten(Logical, p, Plain(f))
  BY <1>1, <1>2, <1>4 DEF Logical, ContentOf, Rewritten
<1> QED BY <1>1, <1>3, <1>5, <1>6, <1>7, <1>8

\* write_envelope, a deletion marker, and audit_retention::maintain.
LEMMA EditInv ==
  JournalInv /\ (Edit \/ ExpireAudit) =>
    /\ JournalInv' /\ settled' = Logical'
    /\ pending = NoSnapshot /\ pending' = NoSnapshot
    /\ \E p \in Paths, v \in Values \cup {Tombstone} \cup {Absent} :
         Logical' = Rewritten(Logical, p, v)
<1> SUFFICES ASSUME JournalInv, Edit \/ ExpireAudit
             PROVE  /\ JournalInv' /\ settled' = Logical'
                    /\ pending = NoSnapshot /\ pending' = NoSnapshot
                    /\ \E p \in Paths, v \in Values \cup {Tombstone} \cup {Absent} :
                         Logical' = Rewritten(Logical, p, v)
  OBVIOUS
<1>1. Ready /\ UNCHANGED <<manifest, pending, session, oper>> /\ Settle
  BY DEF Edit, ExpireAudit
<1>2. session \in Header /\ pending = NoSnapshot
  BY <1>1 DEF Ready, Unlocked, JournalInv, TypeOK
<1>3. PICK p \in Paths, f \in FileOrNone :
        /\ f \in Envelope => f.key = session.key
        /\ files' = [files EXCEPT ![p] = f]
  <2>1. CASE Edit
    <3>1. PICK p \in Paths, f \in [key : {session.key}, val : Values] \cup {Tombstone} :
            files' = [files EXCEPT ![p] = f]
      BY <2>1 DEF Edit
    <3>2. f \in FileOrNone /\ (f \in Envelope => f.key = session.key)
      BY <1>2, ConstantsDiffer DEF FileOrNone, File, Envelope, Header
    <3> QED BY <3>1, <3>2
  <2>2. CASE ExpireAudit
    BY <2>2, ConstantsDiffer DEF ExpireAudit, Paths, FileOrNone, File
  <2> QED BY <2>1, <2>2
<1>4. JournalInv' /\ settled' = Logical' /\ Logical' = Rewritten(Logical, p, Plain(f))
  BY <1>1, <1>3, EditStepInv
<1> QED BY <1>1, <1>2, <1>4, PlainType

\* Steps that touch memory only.
LEMMA MemoryStepInv ==
  ASSUME ~RecoverWhileUnlocked
  PROVE  JournalInv /\ (\/ lock_session \/ unlock_with_password \/ recover_vault
                        \/ recover_local_pending \/ RecoverFails \/ Crash) =>
           JournalInv' /\ Logical' = Logical /\ settled' = settled /\ UNCHANGED pending
<1> SUFFICES ASSUME JournalInv,
                    \/ lock_session \/ unlock_with_password \/ recover_vault
                    \/ recover_local_pending \/ RecoverFails \/ Crash
             PROVE  JournalInv' /\ Logical' = Logical /\ settled' = settled
                    /\ UNCHANGED pending
  OBVIOUS
<1> USE ConstantsDiffer DEF JournalInv
<1>1. UNCHANGED disk /\ Settle
  BY DEF lock_session, unlock_with_password, recover_vault, Open,
         recover_local_pending, RecoverFails, Crash
<1>2. Logical' = Logical
  BY <1>1 DEF Logical, disk, ContentOf, Covered
<1>3. settled' = settled /\ attempted' = attempted
  <2>1. CASE pending = NoSnapshot
    BY <1>1, <1>2, <2>1 DEF Settle, disk, DiskOK, HeadersOK, Logical
  <2>2. CASE pending # NoSnapshot
    BY <1>1, <2>2 DEF Settle, disk
  <2> QED BY <2>1, <2>2
<1>4. CASE lock_session
  <2> USE <1>4 DEF lock_session, disk, oper
  <2>1. TypeOK'
    BY DEF TypeOK
  <2>2. JournalOK' /\ DiskOK' /\ PhaseOK'
    BY <1>1, <1>3 DEF JournalOK, DiskOK, PhaseOK, AuditsOpenUnder, Unlocked, Idle, Working,
                      Authentic, UnderKey, ContentOf
  <2>3. OperOK' /\ HeadersOK'
    BY <1>1, <1>2, <1>3 DEF OperOK, HeadersOK, OldOrNewPasswordOpens, Idle, Unlocked
  <2> QED BY <1>1, <1>2, <1>3, <2>1, <2>2, <2>3
<1>5. CASE Crash \/ RecoverFails
  <2>0. session' = Locked /\ Return
    BY <1>5 DEF Crash, RecoverFails, OperOK
  <2> USE <2>0 DEF Return, disk
  <2>1. TypeOK'
    BY <1>1 DEF TypeOK
  <2>2. JournalOK' /\ DiskOK' /\ PhaseOK'
    BY <1>1, <1>3 DEF JournalOK, DiskOK, PhaseOK, AuditsOpenUnder, Unlocked, Idle,
                      Authentic, UnderKey, ContentOf
  <2>3. OperOK' /\ HeadersOK'
    BY <1>1, <1>2, <1>3 DEF OperOK, HeadersOK, OldOrNewPasswordOpens, Idle
  <2> QED BY <1>1, <1>2, <1>3, <2>1, <2>2, <2>3
<1>6. CASE recover_local_pending
  <2> USE <1>6 DEF recover_local_pending, disk
  <2>1. TypeOK'
    BY DEF TypeOK, Unlocked
  <2>2. JournalOK' /\ DiskOK' /\ PhaseOK'
    BY <1>1, <1>3 DEF JournalOK, DiskOK, PhaseOK, AuditsOpenUnder, Unlocked, Idle,
                      Authentic, UnderKey
  <2>3. OperOK' /\ HeadersOK'
    BY <1>1, <1>2, <1>3 DEF OperOK, HeadersOK, OldOrNewPasswordOpens, Idle
  <2> QED BY <1>1, <1>2, <1>3, <2>1, <2>2, <2>3
<1>7. CASE unlock_with_password \/ recover_vault
  <2>0. PICK pw \in Passwords \cup {NoPassword} :
          Open(pw) /\ Idle /\ (pw # NoPassword => session = Locked)
    BY <1>7 DEF unlock_with_password, recover_vault, Unlocked
  <2> USE <2>0 DEF Open, disk, oper
  <2>1. TypeOK'
    BY <1>1 DEF TypeOK
  <2>2. JournalOK'
    BY <1>1 DEF JournalOK, AuditsOpenUnder, Unlocked, Authentic, UnderKey
  <2>3. DiskOK'
    BY <1>1, <1>3 DEF DiskOK, UnderKey, ContentOf, Idle
  <2>4. OperOK'
    BY <1>1, <1>2, <1>3 DEF OperOK, Idle
  <2>5. PhaseOK' /\ HeadersOK'
    BY <1>1, <1>2, <1>3 DEF PhaseOK, HeadersOK, OldOrNewPasswordOpens, Idle, Working
  <2> QED BY <1>1, <1>2, <1>3, <2>1, <2>2, <2>3, <2>4, <2>5
<1> QED BY <1>4, <1>5, <1>6, <1>7

\* A step that changes nothing keeps the invariant.
LEMMA StutterInv ==
  JournalInv /\ UNCHANGED vars => JournalInv'
BY DEF JournalInv, vars, TypeOK, JournalOK, DiskOK, OperOK, PhaseOK, HeadersOK,
       AuditsOpenUnder, Unlocked, Idle, Working, Covered, Authentic, UnderKey,
       ContentOf, Logical, OldOrNewPasswordOpens

\* Every step keeps the invariant.
LEMMA StepInv ==
  ASSUME ~RecoverWhileUnlocked
  PROVE  JournalInv /\ [Next]_vars => JournalInv'
<1> SUFFICES ASSUME JournalInv, [Next]_vars PROVE JournalInv'
  OBVIOUS
<1>1. CASE FinishStep
  BY <1>1, WriteRecordInv, RemoveRecordInv, RewrapAuditInv, WriteManifestInv,
     ReloadInv, RemoveJournalInv DEF FinishStep
<1>2. CASE FinishFails
  BY <1>2, FinishFailsInv
<1>3. CASE apply_sync_snapshot
  BY <1>3, ApplyInv
<1>4. CASE Rotate
  BY <1>4, RotateInv
<1>5. CASE Edit \/ ExpireAudit
  BY <1>5, EditInv
<1>6. CASE RecoverRotates
  BY <1>6, RecoverRotatesInv
<1>7. CASE \/ lock_session \/ unlock_with_password \/ recover_vault
           \/ recover_local_pending \/ RecoverFails \/ Crash
  BY <1>7, MemoryStepInv
<1>8. CASE UNCHANGED vars
  BY <1>8, StutterInv
<1> QED BY <1>1, <1>2, <1>3, <1>4, <1>5, <1>6, <1>7, <1>8 DEF Next

\* The invariant behind every safety property: disk, journal, session and the
\* operation under way fit together after any number of crashes and disk
\* errors in apply_sync_snapshot and finish_pending_sync.
THEOREM JournalInvariant ==
  ASSUME ~RecoverWhileUnlocked
  PROVE  Spec => []JournalInv
<1>1. Init => JournalInv
  BY InitInv
<1>2. JournalInv /\ [Next]_vars => JournalInv'
  BY StepInv
<1> QED BY <1>1, <1>2, PTL DEF Spec

\* A request that ensure_sync_ready lets through sees one whole version of
\* the vault, with the session holding that version's keys.
THEOREM VaultIsWhole ==
  ASSUME ~RecoverWhileUnlocked
  PROVE  Spec => []WholeWhenReady
<1>1. JournalInv => WholeWhenReady
  BY DEF JournalInv, DiskOK, WholeWhenReady
<1> QED BY <1>1, JournalInvariant, PTL

\* rewrap_local_audit never meets an event it cannot open, so the journal can
\* always be replayed once the disk works.
THEOREM ReplayIsTotal ==
  ASSUME ~RecoverWhileUnlocked
  PROVE  Spec => []ReplayNeverRefused
<1>1. JournalInv => ReplayNeverRefused
  <2> SUFFICES ASSUME JournalInv, RewrapRefused PROVE FALSE
    BY DEF ReplayNeverRefused
  <2>1. PICK a \in Unwrapped : files[a].key # self.key
    BY DEF RewrapRefused
  <2>2. /\ pending # NoSnapshot /\ pending.version = 2
        /\ a \in Audits /\ files[a] \in Envelope /\ files[a].key # pending.header.key
    BY <2>1 DEF Unwrapped, RewrapRefused, Working
  <2> QED BY <2>1, <2>2 DEF JournalInv, JournalOK, AuditsOpenUnder
<1> QED BY <1>1, JournalInvariant, PTL

\* The password that opens the vault is the last settled one or that of the
\* single transaction tried since.
THEOREM NobodyShutOut ==
  ASSUME ~RecoverWhileUnlocked
  PROVE  Spec => []OldOrNewPasswordOpens
<1>1. JournalInv => OldOrNewPasswordOpens
  BY DEF JournalInv, HeadersOK
<1> QED BY <1>1, JournalInvariant, PTL

-----------------------------------------------------------------------------
(* Refinement: the journal implements the atomic vault *)

\* The logical content is a content of the abstract vault.
LEMMA LogicalType ==
  ASSUME TypeOK
  PROVE  Logical \in Atomic!Contents
<1> USE DEF Atomic!Contents
<1>1. CASE pending = NoSnapshot
  <2>1. \A p \in Paths : Plain(files[p]) \in Values \cup {Tombstone} \cup {Absent}
    BY PlainType DEF TypeOK
  <2> QED BY <1>1, <2>1 DEF Logical, ContentOf, TypeOK
<1>2. CASE pending # NoSnapshot
  <2>1. pending \in Snapshot
    BY <1>2 DEF TypeOK
  <2>2. \A p \in Paths :
          Plain(IF p \in Covered(pending) THEN pending.files[p] ELSE files[p])
            \in Values \cup {Tombstone} \cup {Absent}
    BY <2>1, PlainType DEF TypeOK, Snapshot
  <2> QED BY <1>2, <2>1, <2>2 DEF Logical, ContentOf, Snapshot
<1> QED BY <1>1, <1>2

\* Beginning a transaction is the abstract Apply.
LEMMA BeginIsApply ==
  ASSUME JournalInv, JournalInv', pending = NoSnapshot,
         pending' \in Snapshot, files' = files, settled' = settled,
         pending'.version = 1 =>
           \A b \in Audits : files[b] # Absent => Plain(pending'.files[b]) = Plain(files[b])
  PROVE  Atomic!Apply
<1> USE ConstantsDiffer DEF JournalInv
<1>1. (Logical \in Atomic!Contents)'
  BY LogicalType, PTL
<1>2. pending' # NoSnapshot
  OBVIOUS
<1>3. \A p \in Paths :
        /\ Logical.vals[p] = Plain(files[p])
        /\ Logical'.vals[p] = Plain(IF p \in Covered(pending')
                                    THEN pending'.files[p] ELSE files[p])
  BY <1>2 DEF Logical, ContentOf, Covered
<1>4. ASSUME NEW a \in Audits, Logical.vals[a] # Absent
      PROVE  Logical'.vals[a] = Logical.vals[a]
  <2>1. a \in Paths /\ a \notin Records
    BY DEF Paths
  <2>2. files[a] # Absent
    BY <1>3, <1>4, <2>1 DEF Plain, File
  <2> QED BY <1>3, <2>1, <2>2 DEF Covered, Snapshot
<1> QED BY <1>1, <1>2, <1>4 DEF Atomic!Apply

\* Every behaviour of the journaled vault is one of the atomic vault: the
\* journal write is the commit point, the rollback copy takes it back, and
\* removing the journal makes the outcome visible.
THEOREM JournalRefinesAtomicVault ==
  ASSUME ~RecoverWhileUnlocked
  PROVE  Spec => IsAtomic
<1>1. Init => Atomic!Init
  BY InitInv, LogicalType DEF Init, Atomic!Init, JournalInv
<1>2. ASSUME JournalInv, JournalInv', [Next]_vars
      PROVE  [Atomic!Next]_Atomic!vars
  <2> USE <1>2 DEF Atomic!Next, Atomic!vars
  <2>1. CASE WriteRecord \/ RemoveRecord \/ RewrapAudit \/ WriteManifest \/ reload_from_disk
    <3>1. Logical' = Logical /\ settled' = settled /\ pending' = pending
      BY <2>1, WriteRecordInv, RemoveRecordInv, RewrapAuditInv, WriteManifestInv, ReloadInv
         DEF WriteRecord, RemoveRecord, RewrapAudit, WriteManifest, reload_from_disk, disk
    <3> QED BY <3>1
  <2>2. CASE RemoveJournal
    <3>1. Logical' = Logical /\ settled' = Logical
      BY <2>2, RemoveJournalInv
    <3>2. pending # NoSnapshot /\ pending' = NoSnapshot
      BY <2>2 DEF RemoveJournal, Working
    <3> QED BY <3>1, <3>2 DEF Atomic!Settle
  <2>3. CASE FinishFails
    <3>1. /\ settled' = settled /\ Logical' \in {Logical, settled}
          /\ pending # NoSnapshot /\ pending' # NoSnapshot
      BY <2>3, FinishFailsInv
    <3> QED BY <3>1 DEF Atomic!Revert
  <2>4. CASE apply_sync_snapshot \/ Rotate \/ RecoverRotates
    <3>1. Atomic!Apply
      BY <2>4, ApplyInv, RotateInv, RecoverRotatesInv, BeginIsApply
    <3> QED BY <3>1
  <2>5. CASE Edit \/ ExpireAudit
    <3>1. /\ settled' = Logical' /\ pending = NoSnapshot /\ pending' = NoSnapshot
          /\ \E p \in Paths, v \in Values \cup {Tombstone} \cup {Absent} :
               Logical' = Rewritten(Logical, p, v)
      BY <2>5, EditInv
    <3>2. Atomic!Edit
      BY <3>1 DEF Atomic!Edit, Rewritten
    <3> QED BY <3>2
  <2>6. CASE \/ lock_session \/ unlock_with_password \/ recover_vault
             \/ recover_local_pending \/ RecoverFails \/ Crash
    BY <2>6, MemoryStepInv
  <2>7. CASE UNCHANGED vars
    BY <2>7 DEF vars, Logical, ContentOf, Covered
  <2> QED BY <2>1, <2>2, <2>3, <2>4, <2>5, <2>6, <2>7 DEF Next, FinishStep
<1> QED BY <1>1, <1>2, JournalInvariant, PTL DEF Spec, IsAtomic, Atomic!Spec
=============================================================================
