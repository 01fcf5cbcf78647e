---------------------------- MODULE AtomicVault ----------------------------
(***************************************************************************)
(* What a vault promises to the code above it, whatever crashes and disk   *)
(* errors happen below: its whole content (the key header and every        *)
(* encrypted record) changes in one step.  While a transaction is in doubt *)
(* nobody may read or edit the vault, and the transaction may still be     *)
(* taken back; once it is settled it stays.                                *)
(***************************************************************************)
CONSTANTS
  Paths,     \* every encrypted file the vault may hold
  AuditLog,  \* the paths, among them, of this device's own audit events
  Headers,   \* key and password wrappers: the manifest
  Plains,    \* plaintexts a record may hold
  NoRecord   \* no file at a path

VARIABLES
  content,   \* the logical content of the vault
  settled,   \* the content when the vault was last readable
  doubt      \* a transaction has begun and is not settled

vars == <<content, settled, doubt>>

Contents == [header : Headers, vals : [Paths -> Plains \cup {NoRecord}]]

Init ==
  /\ content \in Contents
  /\ settled = content
  /\ doubt \in BOOLEAN

\* An edit of one record of a readable vault.
Edit ==
  /\ ~doubt
  /\ \E p \in Paths, v \in Plains \cup {NoRecord} :
       content' = [header |-> content.header, vals |-> [content.vals EXCEPT ![p] = v]]
  /\ settled' = content'
  /\ UNCHANGED doubt

\* A whole-vault transaction: a peer's version, a merge, a password change,
\* a key rotation.  It never drops an event of the device's own audit log.
Apply ==
  /\ ~doubt
  /\ content' \in Contents
  /\ \A a \in AuditLog :
       content.vals[a] # NoRecord => content'.vals[a] = content.vals[a]
  /\ doubt' = TRUE
  /\ UNCHANGED settled

\* A transaction in doubt is taken back as a whole.
Revert ==
  /\ doubt
  /\ content' = settled
  /\ UNCHANGED <<settled, doubt>>

\* The outcome becomes visible.
Settle ==
  /\ doubt
  /\ settled' = content
  /\ doubt' = FALSE
  /\ UNCHANGED content

Next == Edit \/ Apply \/ Revert \/ Settle

Spec == Init /\ [][Next]_vars
=============================================================================
