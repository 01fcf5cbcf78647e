--------------------------- MODULE ToolSwitchProofs ---------------------------
(***************************************************************************)
(* Proofs about ToolSwitch, for every set of accounts and any number of    *)
(* transactions, when a first switch is not rolled back over a pending     *)
(* one: the inductive invariant SwitchInv, from which a switch is atomic,  *)
(* recovery is never refused and the user's edits are kept; and, when      *)
(* nobody writes between a check and the write it guards, GrantInv, from   *)
(* which no grant is lost and every account is found at its home.          *)
(***************************************************************************)
EXTENDS ToolSwitch, SequenceTheorems, TLAPS

\* Every account at its own home, but for the selected one.
HomesFor(c) == [a \in Managed |-> IF a = c THEN Active ELSE a]

Before(t, r) == t.changes[r].before
After(t, r) == t.changes[r].after

\* Each account has one home before a transaction, and an update that would
\* undo an earlier one of the same transaction is not applicable after it.
RefsSound(us) ==
  \A i, j \in DOMAIN us : us[i].id = us[j].id =>
    /\ us[i].before = us[j].before
    /\ i < j => us[i].after \notin {us[j].before, us[j].after}

\* A transaction keeps what the user wrote; the binding it sets, if any, is its
\* own and selects the account that it brings to the active home.
TxSound(t) ==
  /\ {Grant(Active), Profile(Active), Config, Binding} \subseteq Covers(t)
  /\ Before(t, Config).user = After(t, Config).user
  /\ After(t, Binding) # Absent =>
       /\ After(t, Binding).op = t.op
       /\ After(t, Binding).config = After(t, Config)
       /\ \A i \in DOMAIN t.refs : t.refs[i].after = Active => t.refs[i].id = After(t, Binding).who
  /\ RefsSound(t.refs)

FilesSound ==
  \A op \in Ops : txs[op] # NoTx => TxSound(txs[op]) /\ txs[op].op = op

-----------------------------------------------------------------------------
(* What the files say *)

\* One transaction is pending at a time; what nobody else touched is one of its
\* images, and the binding always is.
PendingSound ==
  /\ \A p, q \in Pending : p = q
  /\ \A op \in Pending :
       /\ Known(txs[op], Binding)
       /\ op \notin disturbed => Restorable(txs[op])

\* The binding, once a pending transaction has been undone.
Rooted(b) ==
  b # Absent => /\ b.op \in Ops /\ txs[b.op] # NoTx
                /\ txs[b.op].committed /\ After(txs[b.op], Binding) = b

OldBinding ==
  IF Pending = {} THEN store[Binding] ELSE Before(txs[CHOOSE op \in Pending : TRUE], Binding)

\* The binding is that of a committed transaction, and the references, once a
\* pending one has been undone, follow it.
ChoiceSound ==
  /\ Rooted(OldBinding)
  /\ \E c \in Managed \cup {Gateway, Absent} :
       /\ Home = HomesFor(c)
       /\ OldBinding # Absent => c = OldBinding.who

-----------------------------------------------------------------------------
(* What the holder of SWITCH_LOCK knows *)

Early == {"renew", "prepare", "restore", "save"}
Applying == {"check", "write", "put"}
Undoing == {"undo", "unwrite", "unput", "unrefs"}

\* What a transaction switches to.
Aim(t) == IF After(t, Binding) = Absent THEN Absent ELSE After(t, Binding).who

\* Its updates, if they can all be applied, lead to what it switches to.
Leads(t) ==
  (\A i, j \in DOMAIN t.refs : t.refs[i].id = t.refs[j].id => i = j) =>
    \A a \in Managed :
      /\ \A i \in DOMAIN t.refs : t.refs[i].id = a => t.refs[i].after = HomesFor(Aim(t))[a]
      /\ (\A i \in DOMAIN t.refs : t.refs[i].id # a) => refs[a] = HomesFor(Aim(t))[a]

\* The committed switch a rollback takes back, which archived no account.
RollbackSound ==
  /\ Bound /\ tx # NoTx
  /\ tx = txs[store[Binding].op] /\ tx.op = store[Binding].op
  /\ Before(tx, Binding) = Absent
  /\ \A i \in DOMAIN tx.refs : tx.refs[i].before = Active => tx.refs[i].after = Active

SaveSound ==
  /\ tx # NoTx /\ txs[tx.op] = NoTx /\ ~tx.committed
  /\ TxSound(tx)
  /\ store[Binding] = Before(tx, Binding)
  /\ \A i \in DOMAIN tx.refs : tx.refs[i].before = refs[tx.refs[i].id]
  /\ tx.op \notin disturbed => \A r \in Covers(tx) : store[r] = Before(tx, r)

\* The binding and the references, as far as they are written or taken back.
Progress ==
  /\ stage = "check" => store[Binding] = Before(tx, Binding)
  /\ stage \in {"write", "put"} =>
       /\ store[Binding] = IF Binding \in todo THEN Before(tx, Binding) ELSE After(tx, Binding)
       /\ \A i \in 1 .. step : refs[tx.refs[i].id] = tx.refs[i].after
  /\ stage \in {"unwrite", "unput"} /\ Binding \notin todo => store[Binding] = Before(tx, Binding)
  /\ stage = "unrefs" =>
       /\ store[Binding] = Before(tx, Binding)
       /\ \A i \in 1 .. step : refs[tx.refs[i].id] = tx.refs[i].before
  /\ stage \in {"write", "put", "unwrite", "unput"} => todo \subseteq Writes(tx)
  /\ stage \in {"put", "unput"} => todo # {}

WorkSound ==
  /\ stage \in {"idle"} \cup Early \cup Applying \cup Undoing
  /\ stage \in {"idle", "check"} \cup Early => step = 0
  /\ stage \in {"write", "put", "unrefs"} => step <= Len(tx.refs)
  /\ stage \in Early => Pending = {}
  /\ (stage = "renew" => goal \in Managed) /\ (stage = "prepare" => goal # Absent)
  /\ stage = "restore" => RollbackSound
  /\ stage = "save" => SaveSound
  /\ stage \in {"save"} \cup Applying => Leads(tx)
  /\ stage \in Applying \cup Undoing =>
       tx # NoTx /\ txs[tx.op] = tx /\ ~tx.committed
  /\ Progress

\* What was read right before a write is still there when nobody else writes
\* in between.
ReadSound ==
  ~Racing =>
    /\ stage = "put" => store[FirstOf(todo)] = Before(tx, FirstOf(todo))
    /\ stage = "unput" => Known(tx, LastOf(todo))

DiskSound == FilesSound /\ PendingSound /\ ChoiceSound

SwitchInv == TypeOK /\ DiskSound /\ WorkSound /\ ReadSound

-----------------------------------------------------------------------------
(* Resources, transactions *)

LEMMA ResourceFacts ==
  /\ Config \in Resources /\ Binding \in Resources
  /\ \A h \in Homes : Grant(h) \in Resources /\ Profile(h) \in Resources
  /\ Active \in Homes /\ Managed \subseteq Homes
  /\ Config # Binding
  /\ \A h \in Homes : /\ Grant(h) \notin {Config, Binding}
                      /\ Profile(h) \notin {Config, Binding}
                      /\ \A i \in Homes : Grant(h) # Profile(i)
  /\ Content(Config) = Configs /\ Content(Binding) = Bindings \cup {Absent}
  /\ \A h \in Homes : /\ Content(Grant(h)) = Grants \cup {Absent}
                      /\ Content(Profile(h)) = Profiles \cup {Absent}
<1>1. /\ Config \in Resources /\ Binding \in Resources
      /\ \A h \in Homes : Grant(h) \in Resources /\ Profile(h) \in Resources
      /\ Active \in Homes /\ Managed \subseteq Homes
  BY DEF Resources, Homes
<1>2. /\ Config[2] = "config" /\ Binding[2] = "binding"
      /\ \A h \in Homes : Grant(h)[2] = "grant" /\ Profile(h)[2] = "profile"
  BY DEF Config, Binding, Grant, Profile
<1>3. /\ Config # Binding
      /\ \A h \in Homes : /\ Grant(h) \notin {Config, Binding}
                          /\ Profile(h) \notin {Config, Binding}
                          /\ \A i \in Homes : Grant(h) # Profile(i)
  <2>1. "config" # "binding" /\ "grant" \notin {"config", "binding", "profile"}
        /\ "profile" \notin {"config", "binding"}
    OBVIOUS
  <2> QED
    BY <1>2, <2>1
<1>4. /\ Content(Config) = Configs /\ Content(Binding) = Bindings \cup {Absent}
      /\ \A h \in Homes : /\ Content(Grant(h)) = Grants \cup {Absent}
                          /\ Content(Profile(h)) = Profiles \cup {Absent}
  BY <1>2 DEF Content
<1> QED
  BY <1>1, <1>3, <1>4

LEMMA RankFacts ==
  ASSUME NEW r \in Resources
  PROVE  Rank(r) \in 1 .. 6
<1>1. \/ \E h \in Homes : r = <<h, "grant">> \/ r = <<h, "profile">>
      \/ r = <<Active, "config">> \/ r = <<Active, "binding">>
  BY DEF Resources, Grant, Profile, Config, Binding
<1>2. CASE r = <<Active, "config">> \/ r = <<Active, "binding">>
  BY <1>2 DEF Rank, Config, Binding, Grant, Profile
<1>3. ASSUME NEW h \in Homes, r = <<h, "grant">> \/ r = <<h, "profile">>
      PROVE  Rank(r) \in 1 .. 6
  BY <1>3 DEF Rank, Config, Binding, Grant, Profile
<1> QED
  BY <1>1, <1>2, <1>3

\* Of several resources one comes first, and one last.
LEMMA OrderFacts ==
  ASSUME NEW S \in SUBSET Resources, S # {}
  PROVE  /\ FirstOf(S) \in S /\ LastOf(S) \in S
         /\ \A q \in S : Rank(FirstOf(S)) <= Rank(q) /\ Rank(q) <= Rank(LastOf(S))
<1>1. \A r \in S : Rank(r) \in 1 .. 6
  BY RankFacts
<1> DEFINE Below(n) == \A q \in S : n <= Rank(q)
           Above(n) == \A q \in S : Rank(q) <= n
<1>2. \E r \in S : \A q \in S : Rank(r) <= Rank(q)
  <2>1. CASE \E r \in S : Rank(r) = 1
    BY <1>1, <2>1
  <2>2. CASE ~\E r \in S : Rank(r) = 1
    <3>1. Below(2)
      BY <1>1, <2>2
    <3>2. CASE \E r \in S : Rank(r) = 2
      BY <3>1, <3>2
    <3>3. CASE ~\E r \in S : Rank(r) = 2
      <4>1. Below(3)
        BY <1>1, <3>1, <3>3
      <4>2. CASE \E r \in S : Rank(r) = 3
        BY <4>1, <4>2
      <4>3. CASE ~\E r \in S : Rank(r) = 3
        <5>1. Below(4)
          BY <1>1, <4>1, <4>3
        <5>2. CASE \E r \in S : Rank(r) = 4
          BY <5>1, <5>2
        <5>3. CASE ~\E r \in S : Rank(r) = 4
          <6>1. Below(5)
            BY <1>1, <5>1, <5>3
          <6>2. CASE \E r \in S : Rank(r) = 5
            BY <6>1, <6>2
          <6>3. CASE ~\E r \in S : Rank(r) = 5
            <7>1. Below(6)
              BY <1>1, <6>1, <6>3
            <7> QED
              BY <1>1, <7>1
          <6> QED
            BY <6>2, <6>3
        <5> QED
          BY <5>2, <5>3
      <4> QED
        BY <4>2, <4>3
    <3> QED
      BY <3>2, <3>3
  <2> QED
    BY <2>1, <2>2
<1>3. \E r \in S : \A q \in S : Rank(q) <= Rank(r)
  <2>1. CASE \E r \in S : Rank(r) = 6
    BY <1>1, <2>1
  <2>2. CASE ~\E r \in S : Rank(r) = 6
    <3>1. Above(5)
      BY <1>1, <2>2
    <3>2. CASE \E r \in S : Rank(r) = 5
      BY <3>1, <3>2
    <3>3. CASE ~\E r \in S : Rank(r) = 5
      <4>1. Above(4)
        BY <1>1, <3>1, <3>3
      <4>2. CASE \E r \in S : Rank(r) = 4
        BY <4>1, <4>2
      <4>3. CASE ~\E r \in S : Rank(r) = 4
        <5>1. Above(3)
          BY <1>1, <4>1, <4>3
        <5>2. CASE \E r \in S : Rank(r) = 3
          BY <5>1, <5>2
        <5>3. CASE ~\E r \in S : Rank(r) = 3
          <6>1. Above(2)
            BY <1>1, <5>1, <5>3
          <6>2. CASE \E r \in S : Rank(r) = 2
            BY <6>1, <6>2
          <6>3. CASE ~\E r \in S : Rank(r) = 2
            <7>1. Above(1)
              BY <1>1, <6>1, <6>3
            <7> QED
              BY <1>1, <7>1
          <6> QED
            BY <6>2, <6>3
        <5> QED
          BY <5>2, <5>3
      <4> QED
        BY <4>2, <4>3
    <3> QED
      BY <3>2, <3>3
  <2> QED
    BY <2>1, <2>2
<1> QED
  BY <1>2, <1>3 DEF FirstOf, LastOf

\* The parts of a transaction.
LEMMA TypedFacts ==
  ASSUME NEW t, Typed(t)
  PROVE  /\ t \in Transaction /\ t.op \in Ops /\ t.committed \in BOOLEAN
         /\ Covers(t) \subseteq Resources /\ Writes(t) \subseteq Covers(t)
         /\ \A r \in Covers(t) : /\ Before(t, r) \in Content(r) /\ After(t, r) \in Content(r)
                                 /\ Before(t, r) \in Contents /\ After(t, r) \in Contents
         /\ t.refs \in Seq(RefUpdate) /\ Len(t.refs) \in Nat /\ DOMAIN t.refs = 1 .. Len(t.refs)
         /\ \A i \in DOMAIN t.refs :
              t.refs[i].id \in Managed /\ t.refs[i].before \in Homes /\ t.refs[i].after \in Homes
<1>1. t \in Transaction
  BY DEF Typed
<1>2. /\ t.op \in Ops /\ t.committed \in BOOLEAN /\ t.refs \in Seq(RefUpdate)
      /\ t.changes \in UNION {[R -> Image] : R \in SUBSET Resources}
  BY <1>1 DEF Transaction
<1>3. PICK R \in SUBSET Resources : t.changes \in [R -> Image]
  BY <1>2
<1>4. Covers(t) = R /\ Covers(t) \subseteq Resources /\ Writes(t) \subseteq Covers(t)
  BY <1>3 DEF Covers, Writes
<1>5. \A r \in Covers(t) : /\ Before(t, r) \in Content(r) /\ After(t, r) \in Content(r)
                           /\ Before(t, r) \in Contents /\ After(t, r) \in Contents
  <2>1. ASSUME NEW r \in Covers(t)
        PROVE  Before(t, r) \in Contents /\ After(t, r) \in Contents
    BY <1>3, <1>4 DEF Before, After, Image
  <2>2. ASSUME NEW r \in Covers(t)
        PROVE  Before(t, r) \in Content(r) /\ After(t, r) \in Content(r)
    BY DEF Typed, Before, After
  <2> QED
    BY <2>1, <2>2
<1>6. Len(t.refs) \in Nat /\ DOMAIN t.refs = 1 .. Len(t.refs)
  BY <1>2
<1>7. ASSUME NEW i \in DOMAIN t.refs
      PROVE  t.refs[i].id \in Managed /\ t.refs[i].before \in Homes /\ t.refs[i].after \in Homes
  <2>1. t.refs[i] \in RefUpdate
    BY <1>2, <1>6
  <2> QED
    BY <2>1 DEF RefUpdate
<1> QED
  BY <1>1, <1>2, <1>4, <1>5, <1>6, <1>7

LEMMA CommittedFacts ==
  ASSUME NEW t, Typed(t)
  PROVE  /\ Typed(Committed(t)) /\ Committed(t).committed /\ Committed(t) # NoTx
         /\ Committed(t).op = t.op /\ Committed(t).changes = t.changes
         /\ Committed(t).refs = t.refs
<1>1. t \in Transaction
  BY DEF Typed
<1>2. /\ Committed(t) \in Transaction /\ Committed(t).committed
      /\ Committed(t).op = t.op /\ Committed(t).changes = t.changes /\ Committed(t).refs = t.refs
  BY <1>1 DEF Committed, Transaction
<1>3. Typed(Committed(t))
  BY <1>2 DEF Typed, Covers
<1>4. Committed(t) # NoTx
  BY <1>2, NothingIsSomething
<1> QED
  BY <1>2, <1>3, <1>4

\* Soundness speaks of the images and updates only.
LEMMA SameSound ==
  ASSUME NEW t, NEW u, t.op = u.op, t.changes = u.changes, t.refs = u.refs, TxSound(t)
  PROVE  TxSound(u)
BY DEF TxSound, Covers, Before, After

-----------------------------------------------------------------------------
(* Pending transactions *)

\* The home of each account before the transaction t.
Origin(t) ==
  [a \in Managed |->
     IF \E i \in DOMAIN t.refs : t.refs[i].id = a
     THEN t.refs[CHOOSE i \in DOMAIN t.refs : t.refs[i].id = a].before
     ELSE refs[a]]

LEMMA OnePending ==
  ASSUME NEW op \in Ops, Pending = {op}
  PROVE  OldBinding = Before(txs[op], Binding) /\ Home = Origin(txs[op])
<1>1. (CHOOSE p \in Pending : TRUE) = op /\ Pending # {}
  OBVIOUS
<1>2. OldBinding = Before(txs[op], Binding)
  BY <1>1 DEF OldBinding
<1>3. Home = Origin(txs[op])
  BY <1>1 DEF Home, Origin
<1> QED
  BY <1>2, <1>3

LEMMA NonePending ==
  ASSUME Pending = {}
  PROVE  OldBinding = store[Binding] /\ Home = refs
BY DEF OldBinding, Home

\* Where accounts were does not depend on updates in progress.
LEMMA OriginFacts ==
  ASSUME NEW t, Typed(t), RefsSound(t.refs), NEW a \in Managed
  PROVE  /\ \A i \in DOMAIN t.refs : t.refs[i].id = a => Origin(t)[a] = t.refs[i].before
         /\ (\A i \in DOMAIN t.refs : t.refs[i].id # a) => Origin(t)[a] = refs[a]
<1>1. ASSUME NEW i \in DOMAIN t.refs, t.refs[i].id = a
      PROVE  Origin(t)[a] = t.refs[i].before
  <2>1. PICK j \in DOMAIN t.refs :
          /\ t.refs[j].id = a
          /\ j = CHOOSE k \in DOMAIN t.refs : t.refs[k].id = a
    BY <1>1
  <2>2. Origin(t)[a] = t.refs[j].before
    BY <1>1, <2>1 DEF Origin
  <2>3. t.refs[j].before = t.refs[i].before
    BY <1>1, <2>1 DEF RefsSound
  <2> QED
    BY <2>2, <2>3
<1>2. ASSUME \A i \in DOMAIN t.refs : t.refs[i].id # a
      PROVE  Origin(t)[a] = refs[a]
  BY <1>2 DEF Origin
<1> QED
  BY <1>1, <1>2

\* The transaction that is worked on is the pending one.
LEMMA WorkPending ==
  ASSUME TypeOK, DiskSound, WorkSound, stage \in Applying \cup Undoing
  PROVE  /\ tx # NoTx /\ Typed(tx) /\ TxSound(tx) /\ tx.op \in Ops /\ txs[tx.op] = tx /\ ~tx.committed
         /\ Pending = {tx.op}
         /\ OldBinding = Before(tx, Binding) /\ Home = Origin(tx)
         /\ Known(tx, Binding)
         /\ tx.op \notin disturbed => Restorable(tx)
<1>1. tx # NoTx /\ txs[tx.op] = tx /\ ~tx.committed
  BY DEF WorkSound
<1>2. Typed(tx)
  BY <1>1 DEF TypeOK
<1>3. tx.op \in Ops
  BY <1>2, TypedFacts
<1>4. TxSound(tx)
  BY <1>1, <1>3 DEF DiskSound, FilesSound
<1>5. tx.op \in Pending
  BY <1>1, <1>3 DEF Pending
<1>6. Pending = {tx.op}
  BY <1>5 DEF DiskSound, PendingSound
<1>7. OldBinding = Before(tx, Binding) /\ Home = Origin(tx)
  BY <1>1, <1>3, <1>6, OnePending
<1>8. Known(tx, Binding) /\ (tx.op \notin disturbed => Restorable(tx))
  BY <1>1, <1>5 DEF DiskSound, PendingSound
<1> QED
  BY <1>1, <1>2, <1>3, <1>4, <1>6, <1>7, <1>8

-----------------------------------------------------------------------------
(* Steps and the files *)

\* The choice and the homes, once a pending transaction has been undone, are
\* what they were.
ChoiceStays == OldBinding' = OldBinding /\ Home' = Home

\* Steps that write no file.
LEMMA DiskSame ==
  ASSUME DiskSound, UNCHANGED disk,
         \A op \in Pending : op \in disturbed => op \in disturbed'
  PROVE  DiskSound' /\ ChoiceStays
<1>1. store' = store /\ refs' = refs /\ txs' = txs
  BY DEF disk
<1>2. Pending' = Pending
  BY <1>1 DEF Pending
<1>3. FilesSound'
  BY <1>1 DEF DiskSound, FilesSound
<1>4. PendingSound'
  BY <1>1, <1>2 DEF DiskSound, PendingSound, Known, Restorable, Covers
<1>5. OldBinding' = OldBinding /\ Home' = Home
  BY <1>1, <1>2 DEF OldBinding, Home
<1>6. ChoiceSound'
  BY <1>1, <1>5 DEF DiskSound, ChoiceSound, Rooted
<1> QED
  BY <1>3, <1>4, <1>5, <1>6 DEF DiskSound, ChoiceStays

\* Writes by others than the holder of SWITCH_LOCK.
LEMMA DiskForeign ==
  ASSUME TypeOK, DiskSound, NEW R \in SUBSET Resources, Binding \notin R,
         \A r \in Resources \ R : store'[r] = store[r],
         UNCHANGED <<refs, txs>>,
         disturbed \subseteq disturbed',
         \A op \in Pending : R \cap Covers(txs[op]) # {} => op \in disturbed'
  PROVE  DiskSound' /\ ChoiceStays
<1>1. refs' = refs /\ txs' = txs /\ store'[Binding] = store[Binding]
  BY ResourceFacts
<1>2. Pending' = Pending
  BY <1>1 DEF Pending
<1>3. FilesSound'
  BY <1>1 DEF DiskSound, FilesSound
<1>4. PendingSound'
  <2>1. \A op \in Pending : Known(txs[op], Binding)'
    BY <1>1 DEF DiskSound, PendingSound, Known
  <2>2. ASSUME NEW op \in Pending, op \notin disturbed'
        PROVE  Restorable(txs[op])'
    <3>1. Restorable(txs[op]) /\ R \cap Covers(txs[op]) = {}
      BY <2>2 DEF DiskSound, PendingSound
    <3>2. Covers(txs[op]) \subseteq Resources
      <4>1. op \in Ops /\ txs[op] # NoTx
        BY DEF Pending
      <4> QED
        BY <4>1, TypedFacts DEF TypeOK
    <3>3. \A r \in Covers(txs[op]) : store'[r] = store[r]
      BY <3>1, <3>2
    <3> QED
      BY <1>1, <3>1, <3>3 DEF Restorable, Known, Covers
  <2> QED
    BY <1>1, <1>2, <2>1, <2>2 DEF DiskSound, PendingSound
<1>5. OldBinding' = OldBinding /\ Home' = Home
  BY <1>1, <1>2 DEF OldBinding, Home
<1>6. ChoiceSound'
  BY <1>1, <1>5 DEF DiskSound, ChoiceSound, Rooted
<1> QED
  BY <1>3, <1>4, <1>5, <1>6 DEF DiskSound, ChoiceStays

\* An image of the transaction that is worked on is written or written back.
LEMMA DiskPut ==
  ASSUME TypeOK, DiskSound, WorkSound, stage \in Applying \cup Undoing,
         NEW r \in Covers(tx), NEW v \in {Before(tx, r), After(tx, r)},
         store' = [store EXCEPT ![r] = v], UNCHANGED <<refs, txs, disturbed>>
  PROVE  /\ DiskSound' /\ ChoiceStays
         /\ store' \in [Resources -> Contents] /\ \A q \in Resources : store'[q] \in Content(q)
         /\ store'[r] = v /\ \A q \in Resources : q # r => store'[q] = store[q]
<1>1. refs' = refs /\ txs' = txs /\ disturbed' = disturbed
  OBVIOUS
<1>2. /\ Typed(tx) /\ tx.op \in Ops /\ txs[tx.op] = tx /\ Pending = {tx.op}
      /\ OldBinding = Before(tx, Binding) /\ Home = Origin(tx)
      /\ Known(tx, Binding)
      /\ tx.op \notin disturbed => Restorable(tx)
  BY WorkPending
<1>3. /\ r \in Resources /\ v \in Content(r) /\ v \in Contents /\ Covers(tx) \subseteq Resources
  BY <1>2, TypedFacts
<1>4. /\ store' \in [Resources -> Contents]
      /\ store'[r] = v /\ \A q \in Resources : q # r => store'[q] = store[q]
  BY <1>3 DEF TypeOK
<1>5. \A q \in Resources : store'[q] \in Content(q)
  BY <1>3, <1>4 DEF TypeOK
<1>6. Pending' = Pending
  BY <1>1 DEF Pending
<1>7. FilesSound'
  BY <1>1 DEF DiskSound, FilesSound
<1>8. \A q \in Covers(tx) : store[q] \in {Before(tx, q), After(tx, q)}
                            => store'[q] \in {Before(tx, q), After(tx, q)}
  BY <1>3, <1>4
<1>9. PendingSound'
  <2>1. store[Binding] \in {Before(tx, Binding), After(tx, Binding)}
    BY <1>2 DEF Known, Before, After
  <2>2. store'[Binding] \in {Before(tx, Binding), After(tx, Binding)}
    BY <1>4, <2>1, ResourceFacts
  <2>3. ASSUME tx.op \notin disturbed
        PROVE  \A q \in Covers(tx) : store'[q] \in {Before(tx, q), After(tx, q)}
    BY <1>2, <1>8, <2>3 DEF Restorable, Known, Before, After
  <2>4. ASSUME NEW op \in Pending
        PROVE  /\ store'[Binding] \in {txs[op].changes[Binding].before, txs[op].changes[Binding].after}
               /\ op \notin disturbed => \A q \in Covers(txs[op]) :
                    store'[q] \in {txs[op].changes[q].before, txs[op].changes[q].after}
    BY <1>2, <2>2, <2>3 DEF Before, After
  <2> QED
    BY <1>1, <1>6, <2>4 DEF DiskSound, PendingSound, Known, Restorable, Covers
<1>10. OldBinding' = OldBinding /\ Home' = Home
  BY <1>1, <1>2, <1>6 DEF OldBinding, Home
<1>11. ChoiceSound'
  BY <1>1, <1>10 DEF DiskSound, ChoiceSound, Rooted
<1> QED
  BY <1>4, <1>5, <1>7, <1>9, <1>10, <1>11 DEF DiskSound, ChoiceStays

\* A reference the transaction updates is written.
LEMMA DiskRefs ==
  ASSUME TypeOK, DiskSound, WorkSound, stage \in Applying \cup Undoing,
         NEW i \in DOMAIN tx.refs, NEW h \in Homes,
         refs' = [refs EXCEPT ![tx.refs[i].id] = h], UNCHANGED <<store, txs, disturbed>>
  PROVE  /\ DiskSound' /\ ChoiceStays /\ refs' \in [Managed -> Homes]
         /\ refs'[tx.refs[i].id] = h
         /\ \A a \in Managed : a # tx.refs[i].id => refs'[a] = refs[a]
<1>1. store' = store /\ txs' = txs /\ disturbed' = disturbed
  OBVIOUS
<1>2. /\ Typed(tx) /\ TxSound(tx) /\ tx.op \in Ops /\ txs[tx.op] = tx /\ Pending = {tx.op}
      /\ OldBinding = Before(tx, Binding) /\ Home = Origin(tx)
  BY WorkPending
<1>3. tx.refs[i].id \in Managed
  BY <1>2, TypedFacts
<1>4. /\ refs' \in [Managed -> Homes]
      /\ refs'[tx.refs[i].id] = h
      /\ \A a \in Managed : a # tx.refs[i].id => refs'[a] = refs[a]
  BY <1>3 DEF TypeOK
<1>5. Pending' = Pending
  BY <1>1 DEF Pending
<1>6. FilesSound' /\ PendingSound'
  BY <1>1, <1>5 DEF DiskSound, FilesSound, PendingSound, Known, Restorable, Covers
<1>7. OldBinding' = OldBinding
  BY <1>1, <1>5 DEF OldBinding
<1>8. Home' = Home
  <2> DEFINE us == txs[CHOOSE op \in Pending : TRUE].refs
  <2>1. (CHOOSE op \in Pending : TRUE) = tx.op /\ us = tx.refs
    BY <1>2
  <2>2. Home' = [a \in Managed |->
                   IF \E j \in DOMAIN tx.refs : tx.refs[j].id = a
                   THEN tx.refs[CHOOSE j \in DOMAIN tx.refs : tx.refs[j].id = a].before
                   ELSE refs'[a]]
    BY <1>1, <1>2, <1>5, <2>1 DEF Home
  <2>3. Home = [a \in Managed |->
                   IF \E j \in DOMAIN tx.refs : tx.refs[j].id = a
                   THEN tx.refs[CHOOSE j \in DOMAIN tx.refs : tx.refs[j].id = a].before
                   ELSE refs[a]]
    BY <1>2 DEF Origin
  <2>4. \A a \in Managed : (~\E j \in DOMAIN tx.refs : tx.refs[j].id = a) => refs'[a] = refs[a]
    BY <1>4
  <2> QED
    BY <2>2, <2>3, <2>4
<1>9. ChoiceSound'
  BY <1>1, <1>7, <1>8 DEF DiskSound, ChoiceSound, Rooted
<1> QED
  BY <1>4, <1>6, <1>7, <1>8, <1>9 DEF DiskSound, ChoiceStays

\* The transaction is pending from its first save on.
LEMMA DiskSave ==
  ASSUME TypeOK, DiskSound, WorkSound, stage = "save",
         txs' = [txs EXCEPT ![tx.op] = tx], UNCHANGED <<store, refs, disturbed>>
  PROVE  /\ DiskSound' /\ ChoiceStays /\ txs' \in [Ops -> Transaction \cup {NoTx}]
         /\ \A op \in Ops : txs'[op] # NoTx => Typed(txs'[op])
         /\ txs'[tx.op] = tx
<1>1. store' = store /\ refs' = refs /\ disturbed' = disturbed
  OBVIOUS
<1>2. Pending = {} /\ SaveSound
  BY DEF WorkSound, Early
<1>3. /\ tx # NoTx /\ txs[tx.op] = NoTx /\ ~tx.committed /\ TxSound(tx)
      /\ store[Binding] = Before(tx, Binding)
      /\ \A i \in DOMAIN tx.refs : tx.refs[i].before = refs[tx.refs[i].id]
      /\ tx.op \notin disturbed => \A r \in Covers(tx) : store[r] = Before(tx, r)
  BY <1>2 DEF SaveSound
<1>4. Typed(tx) /\ tx.op \in Ops /\ tx \in Transaction
  BY <1>3, TypedFacts DEF TypeOK
<1>5. /\ txs' \in [Ops -> Transaction \cup {NoTx}] /\ txs'[tx.op] = tx
      /\ \A op \in Ops : op # tx.op => txs'[op] = txs[op]
  BY <1>4 DEF TypeOK
<1>6. \A op \in Ops : txs'[op] # NoTx => Typed(txs'[op])
  BY <1>4, <1>5 DEF TypeOK
<1>7. Pending' = {tx.op}
  <2>1. \A op \in Ops : op \in Pending' <=> op = tx.op
    BY <1>2, <1>3, <1>4, <1>5 DEF Pending
  <2>2. Pending' \subseteq Ops
    BY DEF Pending
  <2> QED
    BY <1>4, <2>1, <2>2
<1>8. FilesSound'
  BY <1>3, <1>5 DEF DiskSound, FilesSound
<1>9. PendingSound'
  <2>1. ASSUME NEW op \in Pending'
        PROVE  /\ store[Binding] \in {txs'[op].changes[Binding].before, txs'[op].changes[Binding].after}
               /\ op \notin disturbed => \A q \in Covers(txs'[op]) :
                    store[q] \in {txs'[op].changes[q].before, txs'[op].changes[q].after}
    BY <1>3, <1>5, <1>7 DEF Before
  <2> QED
    BY <1>1, <1>7, <2>1 DEF PendingSound, Known, Restorable, Covers
<1>10. OldBinding' = OldBinding
  <2>1. OldBinding = store[Binding]
    BY <1>2, NonePending
  <2>2. (CHOOSE op \in Pending' : TRUE) = tx.op /\ Pending' # {}
    BY <1>7
  <2>3. OldBinding' = txs'[tx.op].changes[Binding].before
    BY <2>2 DEF OldBinding, Before
  <2> QED
    BY <1>3, <1>5, <2>1, <2>3 DEF Before
<1>11. Home' = Home
  <2>1. Home = refs
    BY <1>2, NonePending
  <2>2. (CHOOSE op \in Pending' : TRUE) = tx.op /\ Pending' # {}
    BY <1>7
  <2>3. Home' = [a \in Managed |->
                   IF \E j \in DOMAIN tx.refs : tx.refs[j].id = a
                   THEN tx.refs[CHOOSE j \in DOMAIN tx.refs : tx.refs[j].id = a].before
                   ELSE refs[a]]
    <3>1. PICK us : us = txs'[CHOOSE op \in Pending' : TRUE].refs
      OBVIOUS
    <3>2. Home' = [a \in Managed |->
                     IF \E j \in DOMAIN us : us[j].id = a
                     THEN us[CHOOSE j \in DOMAIN us : us[j].id = a].before
                     ELSE refs'[a]]
      BY <2>2, <3>1 DEF Home
    <3>3. us = tx.refs
      BY <1>5, <2>2, <3>1
    <3> QED
      BY <1>1, <3>2, <3>3
  <2>4. ASSUME NEW a \in Managed
        PROVE  Home'[a] = refs[a]
    <3>1. CASE \E j \in DOMAIN tx.refs : tx.refs[j].id = a
      <4>1. PICK j : j = CHOOSE k \in DOMAIN tx.refs : tx.refs[k].id = a
        OBVIOUS
      <4>2. j \in DOMAIN tx.refs /\ tx.refs[j].id = a
        BY <3>1, <4>1
      <4>3. Home'[a] = tx.refs[j].before
        BY <2>3, <3>1, <4>1
      <4> QED
        BY <1>3, <4>2, <4>3
    <3>2. CASE ~\E j \in DOMAIN tx.refs : tx.refs[j].id = a
      BY <2>3, <3>2
    <3> QED
      BY <3>1, <3>2
  <2>5. Home' = [a \in Managed |-> Home'[a]] /\ refs = [a \in Managed |-> refs[a]]
    BY <2>3 DEF TypeOK
  <2> QED
    BY <2>1, <2>4, <2>5
<1>12. ChoiceSound'
  <2>1. Rooted(OldBinding)'
    <3>1. OldBinding # Absent => /\ OldBinding.op \in Ops /\ txs'[OldBinding.op] # NoTx
                                 /\ txs'[OldBinding.op].committed
                                 /\ txs'[OldBinding.op].changes[Binding].after = OldBinding
      BY <1>3, <1>5 DEF DiskSound, ChoiceSound, Rooted, After
    <3>2. PICK b : b = OldBinding
      OBVIOUS
    <3>3. b # Absent => /\ b.op \in Ops /\ txs'[b.op] # NoTx /\ txs'[b.op].committed
                        /\ txs'[b.op].changes[Binding].after = b
      BY <3>1, <3>2
    <3>4. OldBinding' = b
      BY <1>10, <3>2
    <3> QED
      BY <3>3, <3>4 DEF Rooted, After
  <2> QED
    BY <1>10, <1>11, <2>1 DEF DiskSound, ChoiceSound
<1> QED
  BY <1>5, <1>6, <1>8, <1>9, <1>10, <1>11, <1>12 DEF DiskSound, ChoiceStays

\* The transaction has done all it was to do, and is committed: the choice and
\* the homes change together.
LEMMA DiskCommit ==
  ASSUME TypeOK, DiskSound, WorkSound, stage = "write", todo = {}, step = Len(tx.refs),
         txs' = [txs EXCEPT ![tx.op] = Committed(tx)], UNCHANGED <<store, refs>>
  PROVE  /\ DiskSound' /\ txs' \in [Ops -> Transaction \cup {NoTx}]
         /\ \A op \in Ops : txs'[op] # NoTx => Typed(txs'[op])
         /\ Pending' = {}
         /\ OldBinding' = After(tx, Binding)
         /\ Aim(tx) \in Managed \cup {Gateway, Absent} /\ Home' = HomesFor(Aim(tx))
<1>1. store' = store /\ refs' = refs
  OBVIOUS
<1>2. /\ tx # NoTx /\ Typed(tx) /\ TxSound(tx) /\ tx.op \in Ops /\ txs[tx.op] = tx /\ ~tx.committed
      /\ Pending = {tx.op}
  BY WorkPending DEF Applying
<1>3. /\ store[Binding] = After(tx, Binding)
      /\ \A i \in DOMAIN tx.refs : refs[tx.refs[i].id] = tx.refs[i].after
      /\ Leads(tx)
  <2>1. DOMAIN tx.refs = 1 .. step
    BY <1>2, TypedFacts
  <2> QED
    BY <2>1 DEF WorkSound, Progress, Applying
<1>4. /\ Typed(Committed(tx)) /\ Committed(tx).committed /\ Committed(tx) # NoTx
      /\ Committed(tx).op = tx.op /\ Committed(tx).changes = tx.changes
      /\ Committed(tx).refs = tx.refs
  BY <1>2, CommittedFacts
<1>5. /\ txs' \in [Ops -> Transaction \cup {NoTx}] /\ txs'[tx.op] = Committed(tx)
      /\ \A op \in Ops : op # tx.op => txs'[op] = txs[op]
  BY <1>2, <1>4 DEF TypeOK, Typed
<1>6. \A op \in Ops : txs'[op] # NoTx => Typed(txs'[op])
  BY <1>4, <1>5 DEF TypeOK
<1>7. Pending' = {}
  <2>1. \A op \in Ops : op \notin Pending'
    BY <1>2, <1>4, <1>5 DEF Pending
  <2>2. Pending' \subseteq Ops
    BY DEF Pending
  <2> QED
    BY <2>1, <2>2
<1>8. FilesSound'
  <2>1. TxSound(Committed(tx))
    BY <1>2, <1>4, SameSound
  <2> QED
    BY <1>2, <1>4, <1>5, <2>1 DEF DiskSound, FilesSound
<1>9. PendingSound'
  BY <1>7 DEF PendingSound
<1>10. OldBinding' = After(tx, Binding) /\ Home' = refs
  BY <1>1, <1>3, <1>7 DEF OldBinding, Home
<1>11. Aim(tx) \in Managed \cup {Gateway, Absent}
  <2>1. After(tx, Binding) \in Bindings \cup {Absent}
    BY <1>2, TypedFacts, ResourceFacts DEF TxSound
  <2> QED
    BY <2>1 DEF Aim, Bindings
<1>12. refs = HomesFor(Aim(tx))
  <2>1. \A i, j \in DOMAIN tx.refs : tx.refs[i].id = tx.refs[j].id => i = j
    <3>1. DOMAIN tx.refs \subseteq Nat
      BY <1>2, TypedFacts
    <3>2. \A i, j \in DOMAIN tx.refs : tx.refs[i].id = tx.refs[j].id => ~(i < j)
      BY <1>2, <1>3 DEF TxSound, RefsSound
    <3> QED
      BY <3>1, <3>2
  <2>2. \A a \in Managed : refs[a] = HomesFor(Aim(tx))[a]
    BY <1>3, <2>1 DEF Leads
  <2>3. refs = [a \in Managed |-> refs[a]] /\ HomesFor(Aim(tx)) = [a \in Managed |-> HomesFor(Aim(tx))[a]]
    BY DEF TypeOK, HomesFor
  <2> QED
    BY <2>2, <2>3
<1>13. ChoiceSound'
  <2>1. Rooted(OldBinding)'
    <3>1. After(tx, Binding) # Absent =>
            /\ After(tx, Binding).op = tx.op
            /\ txs'[tx.op] # NoTx /\ txs'[tx.op].committed
            /\ txs'[tx.op].changes[Binding].after = After(tx, Binding)
      BY <1>2, <1>4, <1>5 DEF TxSound, After
    <3>2. PICK b : b = After(tx, Binding)
      OBVIOUS
    <3>3. b # Absent => /\ b.op \in Ops /\ txs'[b.op] # NoTx /\ txs'[b.op].committed
                        /\ txs'[b.op].changes[Binding].after = b
      BY <1>2, <3>1, <3>2
    <3>4. OldBinding' = b
      BY <1>10, <3>2
    <3> QED
      BY <3>3, <3>4 DEF Rooted, After
  <2>2. \E c \in Managed \cup {Gateway, Absent} :
          Home' = HomesFor(c) /\ (OldBinding' # Absent => c = OldBinding'.who)
    <3>1. After(tx, Binding) # Absent => Aim(tx) = After(tx, Binding).who
      BY DEF Aim
    <3> QED
      BY <1>10, <1>11, <1>12, <3>1
  <2> QED
    BY <2>1, <2>2 DEF ChoiceSound
<1> QED
  BY <1>5, <1>6, <1>7, <1>8, <1>9, <1>10, <1>11, <1>12, <1>13 DEF DiskSound

\* The transaction has been undone and its file is removed.
LEMMA DiskForget ==
  ASSUME TypeOK, DiskSound, WorkSound, stage = "unrefs", step = Len(tx.refs),
         txs' = [txs EXCEPT ![tx.op] = NoTx], UNCHANGED <<store, refs>>
  PROVE  /\ DiskSound' /\ ChoiceStays /\ txs' \in [Ops -> Transaction \cup {NoTx}]
         /\ \A op \in Ops : txs'[op] # NoTx => Typed(txs'[op])
<1>1. store' = store /\ refs' = refs
  OBVIOUS
<1>2. /\ tx # NoTx /\ Typed(tx) /\ TxSound(tx) /\ tx.op \in Ops /\ txs[tx.op] = tx /\ ~tx.committed
      /\ Pending = {tx.op}
      /\ OldBinding = Before(tx, Binding) /\ Home = Origin(tx)
  BY WorkPending DEF Undoing
<1>3. /\ store[Binding] = Before(tx, Binding)
      /\ \A i \in DOMAIN tx.refs : refs[tx.refs[i].id] = tx.refs[i].before
  <2>1. DOMAIN tx.refs = 1 .. step
    BY <1>2, TypedFacts
  <2> QED
    BY <2>1 DEF WorkSound, Progress
<1>4. /\ txs' \in [Ops -> Transaction \cup {NoTx}] /\ txs'[tx.op] = NoTx
      /\ \A op \in Ops : op # tx.op => txs'[op] = txs[op]
  BY <1>2 DEF TypeOK
<1>5. \A op \in Ops : txs'[op] # NoTx => Typed(txs'[op])
  BY <1>4 DEF TypeOK
<1>6. Pending' = {}
  <2>1. \A op \in Ops : op \notin Pending'
    BY <1>2, <1>4 DEF Pending
  <2>2. Pending' \subseteq Ops
    BY DEF Pending
  <2> QED
    BY <2>1, <2>2
<1>7. FilesSound'
  BY <1>4 DEF DiskSound, FilesSound
<1>8. PendingSound'
  BY <1>6 DEF PendingSound
<1>9. OldBinding' = OldBinding
  BY <1>1, <1>2, <1>3, <1>6 DEF OldBinding
<1>10. Home' = Home
  <2>1. Home' = refs
    BY <1>1, <1>6 DEF Home
  <2>2. ASSUME NEW a \in Managed
        PROVE  Origin(tx)[a] = refs[a]
    <3>1. CASE \E i \in DOMAIN tx.refs : tx.refs[i].id = a
      BY <1>2, <1>3, <3>1, OriginFacts DEF TxSound
    <3>2. CASE ~\E i \in DOMAIN tx.refs : tx.refs[i].id = a
      BY <1>2, <3>2, OriginFacts DEF TxSound
    <3> QED
      BY <3>1, <3>2
  <2>3. refs = [a \in Managed |-> refs[a]] /\ Origin(tx) = [a \in Managed |-> Origin(tx)[a]]
    BY DEF TypeOK, Origin
  <2> QED
    BY <1>2, <2>1, <2>2, <2>3
<1>11. ChoiceSound'
  <2>1. OldBinding # Absent => /\ OldBinding.op \in Ops /\ txs'[OldBinding.op] # NoTx
                               /\ txs'[OldBinding.op].committed
                               /\ txs'[OldBinding.op].changes[Binding].after = OldBinding
    BY <1>2, <1>4 DEF DiskSound, ChoiceSound, Rooted, After
  <2>2. Rooted(OldBinding)'
    BY <1>9, <2>1 DEF Rooted, After
  <2> QED
    BY <1>9, <1>10, <2>2 DEF DiskSound, ChoiceSound
<1> QED
  BY <1>4, <1>5, <1>7, <1>8, <1>9, <1>10, <1>11 DEF DiskSound, ChoiceStays

-----------------------------------------------------------------------------
(* The world outside *)

\* A foreign write to anything but the binding, at a moment when it can happen,
\* disturbs nothing the invariant speaks of.
LEMMA ForeignStep ==
  ASSUME SwitchInv, NEW R \in SUBSET Resources, Binding \notin R,
         store' \in [Resources -> Contents], \A r \in Resources : store'[r] \in Content(r),
         \A r \in Resources \ R : store'[r] = store[r],
         Exposed, Disturb(R),
         latest' \in [Accounts -> Nat], forfeited' \subseteq Accounts,
         UNCHANGED <<refs, txs, unlocked, owed, oper>>
  PROVE  SwitchInv' /\ ChoiceStays
<1>1. TypeOK /\ DiskSound /\ WorkSound /\ ReadSound
  BY DEF SwitchInv
<1>2. /\ refs' = refs /\ txs' = txs /\ stage' = stage /\ goal' = goal /\ stamp' = stamp
      /\ tx' = tx /\ todo' = todo /\ step' = step /\ tries' = tries /\ keeps' = keeps
      /\ unlocked' = unlocked /\ owed' = owed
  BY DEF oper
<1>3. /\ disturbed \subseteq disturbed'
      /\ \A op \in Pending : R \cap Covers(txs[op]) # {} => op \in disturbed'
      /\ stage = "save" /\ R \cap Covers(tx) # {} => tx.op \in disturbed'
  BY DEF Disturb
<1>4. DiskSound' /\ ChoiceStays
  BY <1>1, <1>2, <1>3, DiskForeign
<1>5. TypeOK'
  <2>1. disturbed' \subseteq Ops
    <3>1. stage = "save" => tx.op \in Ops
      <4>1. stage = "save" => tx # NoTx
        BY <1>1 DEF WorkSound, SaveSound
      <4> QED
        BY <1>1, <4>1, TypedFacts DEF TypeOK
    <3> QED
      BY <1>1, <3>1 DEF Disturb, Pending, TypeOK
  <2> QED
    BY <1>1, <1>2, <2>1 DEF TypeOK
<1>6. store'[Binding] = store[Binding] /\ Pending' = Pending
  BY <1>2, ResourceFacts DEF Pending
<1>7. RollbackSound => RollbackSound'
  BY <1>2, <1>6 DEF RollbackSound, Bound, Before
<1>8. stage = "save" => SaveSound'
  <2> SUFFICES ASSUME stage = "save"
               PROVE  SaveSound'
    OBVIOUS
  <2>1. SaveSound /\ tx # NoTx
    BY <1>1 DEF WorkSound, SaveSound
  <2>2. Covers(tx) \subseteq Resources
    BY <1>1, <2>1, TypedFacts DEF TypeOK
  <2>3. tx.op \notin disturbed' => \A r \in Covers(tx) : store'[r] = tx.changes[r].before
    BY <1>3, <2>1, <2>2 DEF SaveSound, Before
  <2>4. store'[Binding] = tx.changes[Binding].before
    BY <1>6, <2>1 DEF SaveSound, Before
  <2>5. TxSound(tx)' /\ Covers(tx)' = Covers(tx)
    BY <1>2, <2>1 DEF SaveSound, TxSound, Covers, Before, After, RefsSound
  <2>6. tx' # NoTx /\ txs'[tx'.op] = NoTx /\ ~tx'.committed
        /\ \A i \in DOMAIN tx'.refs : tx'.refs[i].before = refs'[tx'.refs[i].id]
    BY <1>2, <2>1 DEF SaveSound
  <2> QED
    BY <1>2, <2>3, <2>4, <2>5, <2>6 DEF SaveSound, Before
<1>9. Progress'
  <2>1. Progress
    BY <1>1 DEF WorkSound
  <2> QED
    BY <1>2, <1>6, <2>1 DEF Progress, Before, After, Writes, Covers
<1>10. Leads(tx) => Leads(tx)'
  BY <1>2 DEF Leads, Aim, After, HomesFor
<1>11. WorkSound'
  BY <1>1, <1>2, <1>6, <1>7, <1>8, <1>9, <1>10 DEF WorkSound
<1>12. ReadSound'
  BY <1>2 DEF ReadSound, Exposed
<1> QED
  BY <1>4, <1>5, <1>11, <1>12 DEF SwitchInv

\* A rotation writes one grant of the same account.
LEMMA RotatedFacts ==
  ASSUME TypeOK, NEW h \in Homes, store[Grant(h)] # Absent, Rotated(h)
  PROVE  /\ store' \in [Resources -> Contents] /\ \A r \in Resources : store'[r] \in Content(r)
         /\ \A r \in Resources \ {Grant(h)} : store'[r] = store[r]
         /\ latest' \in [Accounts -> Nat]
         /\ {Grant(h)} \in SUBSET Resources /\ Binding \notin {Grant(h)}
<1>1. Grant(h) \in Resources /\ Content(Grant(h)) = Grants \cup {Absent} /\ Grant(h) # Binding
  BY ResourceFacts
<1>2. store[Grant(h)] \in Grants
  BY <1>1 DEF TypeOK
<1>3. PICK a \in Accounts : a = store[Grant(h)].acct
  BY <1>2 DEF Grants
<1>4. PICK g \in Grants : g = [acct |-> a, gen |-> latest[a] + 1]
  <2>1. [acct |-> a, gen |-> latest[a] + 1] \in Grants
    BY DEF TypeOK, Grants
  <2> QED
    BY <2>1
<1>5. store' = [store EXCEPT ![Grant(h)] = g] /\ latest' = [latest EXCEPT ![a] = @ + 1]
  BY <1>3, <1>4 DEF Rotated
<1>6. latest' \in [Accounts -> Nat]
  BY <1>5 DEF TypeOK
<1>7. g \in Contents /\ g \in Content(Grant(h))
  BY <1>1 DEF Contents
<1> QED
  BY <1>1, <1>5, <1>6, <1>7 DEF TypeOK

\* A home that is signed in to an account has a grant and a profile of it.
LEMMA IdentityFacts ==
  ASSUME TypeOK, NEW h \in Homes, NEW a \in Accounts, Identity(h) = a
  PROVE  /\ store[Grant(h)] \in Grants /\ store[Profile(h)] \in Profiles
         /\ store[Profile(h)].acct = a
<1>1. /\ store[Grant(h)] \in Grants \cup {Absent} /\ store[Profile(h)] \in Profiles \cup {Absent}
  BY ResourceFacts DEF TypeOK
<1> QED
  BY <1>1, SwitchConstants DEF Identity

LEMMA OutsideStep ==
  ASSUME SwitchInv, Outside
  PROVE  SwitchInv' /\ ChoiceStays
<1>1. TypeOK
  BY DEF SwitchInv
<1>2. CASE CliRotates
  <2>1. /\ store' \in [Resources -> Contents] /\ \A r \in Resources : store'[r] \in Content(r)
        /\ \A r \in Resources \ {Grant(Active)} : store'[r] = store[r]
        /\ latest' \in [Accounts -> Nat]
        /\ {Grant(Active)} \in SUBSET Resources /\ Binding \notin {Grant(Active)}
    BY <1>1, <1>2, RotatedFacts, ResourceFacts DEF CliRotates
  <2>2. forfeited' \subseteq Accounts
    BY <1>1, <1>2 DEF CliRotates, TypeOK
  <2> QED
    BY <1>2, <2>1, <2>2, ForeignStep DEF CliRotates
<1>3. CASE CliLogin
  <2>1. Grant(Active) \in Resources /\ Profile(Active) \in Resources
        /\ Binding \notin {Grant(Active), Profile(Active)} /\ Grant(Active) # Profile(Active)
        /\ Content(Grant(Active)) = Grants \cup {Absent}
        /\ Content(Profile(Active)) = Profiles \cup {Absent}
    BY ResourceFacts
  <2>2. Original \in Accounts /\ latest[Original] \in Nat
    BY <1>1 DEF TypeOK, Accounts
  <2>3. PICK g \in Grants : g = [acct |-> Original, gen |-> latest[Original] + 1]
    <3>1. [acct |-> Original, gen |-> latest[Original] + 1] \in Grants
      BY <2>2 DEF Grants
    <3> QED
      BY <3>1
  <2>4. PICK f \in Profiles : f = [acct |-> Original, rev |-> latest[Original] + 1]
    <3>1. [acct |-> Original, rev |-> latest[Original] + 1] \in Profiles
      BY <2>2 DEF Profiles
    <3> QED
      BY <3>1
  <2>5. store' = [store EXCEPT ![Grant(Active)] = g, ![Profile(Active)] = f]
    BY <1>3, <2>3, <2>4 DEF CliLogin
  <2>6. g \in Contents /\ f \in Contents
    BY DEF Contents
  <2>7. /\ store' \in [Resources -> Contents] /\ \A r \in Resources : store'[r] \in Content(r)
        /\ \A r \in Resources \ {Grant(Active), Profile(Active)} : store'[r] = store[r]
    BY <1>1, <2>1, <2>5, <2>6 DEF TypeOK
  <2>8. latest' \in [Accounts -> Nat]
    BY <1>1, <1>3, <2>2 DEF CliLogin, TypeOK
  <2>9. forfeited' \subseteq Accounts
    BY <1>1, <1>3 DEF CliLogin, TypeOK, Accounts
  <2> QED
    BY <1>3, <2>1, <2>7, <2>8, <2>9, ForeignStep DEF CliLogin
<1>4. CASE UserEdits
  <2>1. Config \in Resources /\ Binding \notin {Config} /\ Content(Config) = Configs
    BY ResourceFacts
  <2>2. store[Config] \in Configs
    BY <1>1, <2>1 DEF TypeOK
  <2>3. PICK c \in Configs : c = [store[Config] EXCEPT !.user = @ + 1]
    <3>1. [store[Config] EXCEPT !.user = @ + 1] \in Configs
      BY <2>2 DEF Configs
    <3> QED
      BY <3>1
  <2>4. store' = [store EXCEPT ![Config] = c]
    BY <1>1, <1>4, <2>1, <2>3 DEF UserEdits, TypeOK
  <2>5. c \in Contents
    BY DEF Contents
  <2>6. /\ store' \in [Resources -> Contents] /\ \A r \in Resources : store'[r] \in Content(r)
        /\ \A r \in Resources \ {Config} : store'[r] = store[r]
    BY <1>1, <2>1, <2>4, <2>5 DEF TypeOK
  <2>7. latest' \in [Accounts -> Nat] /\ forfeited' \subseteq Accounts
    BY <1>1, <1>4 DEF UserEdits, TypeOK, world
  <2> QED
    BY <1>4, <2>1, <2>6, <2>7, ForeignStep DEF UserEdits
<1>5. CASE ProxyRenews
  <2>1. PICK a \in Managed : /\ Identity(refs[a]) = a /\ Rotated(refs[a])
                             /\ Disturb({Grant(refs[a])})
    BY <1>5 DEF ProxyRenews
  <2>2. refs[a] \in Homes /\ a \in Accounts
    BY <1>1 DEF TypeOK, Accounts
  <2>3. store[Grant(refs[a])] # Absent
    BY <1>1, <2>1, <2>2, IdentityFacts, NothingIsSomething
  <2>4. /\ store' \in [Resources -> Contents] /\ \A r \in Resources : store'[r] \in Content(r)
        /\ \A r \in Resources \ {Grant(refs[a])} : store'[r] = store[r]
        /\ latest' \in [Accounts -> Nat]
        /\ {Grant(refs[a])} \in SUBSET Resources /\ Binding \notin {Grant(refs[a])}
    BY <1>1, <2>1, <2>2, <2>3, RotatedFacts
  <2>5. forfeited' \subseteq Accounts /\ Exposed
    BY <1>1, <1>5 DEF ProxyRenews, TypeOK, Exposed
  <2> QED
    BY <1>5, <2>1, <2>4, <2>5, ForeignStep DEF ProxyRenews
<1> QED
  BY <1>2, <1>3, <1>4, <1>5 DEF Outside

-----------------------------------------------------------------------------
(* Steps that write no file *)

LEMMA ReturnWork ==
  ASSUME Return
  PROVE  WorkSound' /\ ReadSound'
<1>1. stage' = "idle" /\ step' = 0
  BY DEF Return
<1>2. Progress' /\ ReadSound'
  BY <1>1 DEF Progress, ReadSound
<1> QED
  BY <1>1, <1>2 DEF WorkSound, Early, Applying, Undoing

LEMMA UndoWork ==
  ASSUME WorkSound, stage \in Applying \cup Undoing, NEW n, NEW keep, Undo(n, keep), txs' = txs
  PROVE  WorkSound' /\ ReadSound'
<1>1. /\ stage' = "undo" /\ tx' = tx /\ step' = 0
      /\ tx # NoTx /\ txs[tx.op] = tx /\ ~tx.committed
  BY DEF Undo, WorkSound
<1>2. Progress' /\ ReadSound'
  BY <1>1 DEF Progress, ReadSound
<1> QED
  BY <1>1, <1>2 DEF WorkSound, Early, Applying, Undoing

\* An operation that ends, and an attempt that gives up, leave the files.
LEMMA LeaveStep ==
  ASSUME SwitchInv, UNCHANGED disk, UNCHANGED world, disturbed' = disturbed,
         unlocked' \in BOOLEAN, owed' \in BOOLEAN,
         \/ Return
         \/ /\ stage \in Applying \cup Undoing
            /\ \E n \in {1, 2}, keep \in BOOLEAN : Undo(n, keep)
  PROVE  SwitchInv' /\ ChoiceStays
<1>1. TypeOK /\ DiskSound /\ WorkSound /\ ReadSound
  BY DEF SwitchInv
<1>2. DiskSound' /\ ChoiceStays
  BY <1>1, DiskSame
<1>3. txs' = txs
  BY DEF disk
<1>4. CASE Return
  <2>1. TypeOK'
    <3>1. /\ stage' = "idle" /\ goal' = Absent /\ tx' = NoTx
          /\ todo' = {} /\ step' = 0 /\ tries' = 0 /\ keeps' = FALSE
      BY <1>4 DEF Return
    <3>2. todo' \subseteq Resources /\ step' \in Nat /\ tries' \in 0 .. 2
      BY <3>1
    <3>3. keeps' \in BOOLEAN
      BY <1>4 DEF Return
    <3>4. store' = store /\ refs' = refs /\ txs' = txs /\ latest' = latest /\ forfeited' = forfeited
      BY DEF disk, world
    <3> QED
      BY <1>1, <3>1, <3>2, <3>3, <3>4 DEF TypeOK
  <2>2. WorkSound' /\ ReadSound'
    BY <1>4, ReturnWork
  <2> QED
    BY <1>2, <2>1, <2>2 DEF SwitchInv
<1>5. ASSUME stage \in Applying \cup Undoing, NEW n \in {1, 2}, NEW keep \in BOOLEAN, Undo(n, keep)
      PROVE  SwitchInv'
  <2>1. TypeOK'
    BY <1>1, <1>5 DEF TypeOK, Undo, disk, world
  <2>2. WorkSound' /\ ReadSound'
    BY <1>1, <1>3, <1>5, UndoWork
  <2> QED
    BY <1>2, <2>1, <2>2 DEF SwitchInv
<1> QED
  BY <1>2, <1>4, <1>5

\* One attempt at restore that is over leaves the files as they are.
LEMMA AttemptLeaves ==
  ASSUME TypeOK, stage \in Undoing, AttemptFails
  PROVE  \/ Return
         \/ \E n \in {1, 2}, keep \in BOOLEAN : Undo(n, keep)
<1>1. keeps \in BOOLEAN
  BY DEF TypeOK
<1> QED
  BY <1>1 DEF AttemptFails

LEMMA QuietSame ==
  ASSUME TypeOK, Quiet
  PROVE  /\ UNCHANGED world /\ disturbed' = disturbed
         /\ unlocked' \in BOOLEAN /\ owed' \in BOOLEAN
BY DEF Quiet, world, TypeOK

LEMMA FailureSteps ==
  ASSUME SwitchInv, Refuse \/ SetReferenceFails \/ CommitFails \/ UnputFails \/ ForgetFails \/ Crash
  PROVE  SwitchInv' /\ ChoiceStays
<1>1. TypeOK /\ keeps \in BOOLEAN
  BY DEF SwitchInv, TypeOK
<1>2. CASE Refuse \/ ForgetFails
  BY <1>1, <1>2, QuietSame, LeaveStep DEF Refuse, ForgetFails
<1>3. CASE SetReferenceFails \/ CommitFails
  BY <1>1, <1>3, QuietSame, LeaveStep DEF SetReferenceFails, CommitFails, Applying
<1>4. CASE UnputFails
  BY <1>1, <1>4, QuietSame, LeaveStep, AttemptLeaves DEF UnputFails, Undoing
<1>5. CASE Crash
  BY <1>1, <1>5, LeaveStep DEF Crash
<1> QED
  BY <1>2, <1>3, <1>4, <1>5

\* An operation begins, with nothing pending.
LEMMA BeginStep ==
  ASSUME SwitchInv, BeginSwitch \/ BeginProxy
  PROVE  SwitchInv' /\ ChoiceStays
<1>1. TypeOK /\ DiskSound /\ WorkSound /\ ReadSound
  BY DEF SwitchInv
<1>2. /\ stage = "idle" /\ Pending = {} /\ UNCHANGED disk /\ Quiet
      /\ goal' \in Managed \cup {Gateway} /\ stage' \in {"renew", "prepare"}
      /\ stage' = "renew" => goal' # Gateway
      /\ UNCHANGED <<tx, todo, step, tries, keeps>>
  BY DEF BeginSwitch, BeginProxy, Idle
<1>3. DiskSound' /\ ChoiceStays
  BY <1>1, <1>2, QuietSame, DiskSame
<1>4. TypeOK'
  BY <1>1, <1>2 DEF TypeOK, disk, Quiet
<1>5. step' = 0 /\ Pending' = {}
  BY <1>1, <1>2 DEF WorkSound, Pending, disk
<1>6. Progress' /\ ReadSound'
  BY <1>2 DEF Progress, ReadSound
<1>7. WorkSound'
  BY <1>2, <1>5, <1>6, SwitchConstants DEF WorkSound, Early, Applying, Undoing, Accounts
<1> QED
  BY <1>3, <1>4, <1>6, <1>7 DEF SwitchInv

LEMMA SessionStep ==
  ASSUME SwitchInv, Unlock \/ Lock
  PROVE  SwitchInv' /\ ChoiceStays
<1>1. TypeOK /\ DiskSound /\ WorkSound /\ ReadSound
  BY DEF SwitchInv
<1>2. UNCHANGED <<disk, oper, world, disturbed>> /\ unlocked' \in BOOLEAN /\ owed' \in BOOLEAN
  BY DEF Unlock, Lock
<1>3. DiskSound' /\ ChoiceStays
  BY <1>1, <1>2, DiskSame
<1>4. /\ store' = store /\ refs' = refs /\ txs' = txs /\ stage' = stage /\ tx' = tx /\ todo' = todo
      /\ step' = step /\ disturbed' = disturbed /\ goal' = goal
  BY <1>2 DEF disk, oper
<1>5. TypeOK'
  BY <1>1, <1>2 DEF TypeOK, disk, oper, world
<1>6. WorkSound' /\ ReadSound'
  BY <1>1, <1>4 DEF WorkSound, ReadSound, Pending, RollbackSound, Bound, SaveSound, TxSound, Leads,
       Aim, Progress, Covers, Writes, Known, Before, After, RefsSound
<1> QED
  BY <1>3, <1>5, <1>6 DEF SwitchInv

LEMMA RecoverStep ==
  ASSUME SwitchInv, Recover
  PROVE  SwitchInv' /\ ChoiceStays
<1>1. TypeOK /\ DiskSound /\ WorkSound /\ ReadSound
  BY DEF SwitchInv
<1>2. /\ stage = "idle" /\ owed' = FALSE /\ UNCHANGED <<disk, unlocked, world, disturbed>>
  BY DEF Recover, Idle
<1>3. DiskSound' /\ ChoiceStays
  BY <1>1, <1>2, DiskSame
<1>4. store' = store /\ refs' = refs /\ txs' = txs
  BY <1>2 DEF disk
<1>5. CASE UNCHANGED oper
  <2>1. stage' = "idle" /\ step' = 0
    BY <1>1, <1>2, <1>5 DEF oper, WorkSound
  <2>2. TypeOK'
    BY <1>1, <1>2, <1>5 DEF TypeOK, disk, oper, world
  <2>3. Progress' /\ ReadSound'
    BY <2>1 DEF Progress, ReadSound
  <2>4. WorkSound'
    BY <2>1, <2>3 DEF WorkSound, Early, Applying, Undoing
  <2> QED
    BY <1>3, <2>2, <2>3, <2>4 DEF SwitchInv
<1>6. ASSUME NEW op \in Pending, tx' = txs[op], stage' = "undo", tries' = 1,
             UNCHANGED <<goal, stamp, todo, step, keeps>>
      PROVE  SwitchInv'
  <2>1. /\ op \in Ops /\ txs[op] # NoTx /\ ~txs[op].committed /\ txs[op].op = op
        /\ Typed(txs[op])
    BY <1>1 DEF Pending, DiskSound, FilesSound, TypeOK
  <2>2. Typed(tx)'
    BY <1>6, <2>1 DEF Typed, Covers
  <2>3. TypeOK'
    <3>1. txs' = txs /\ (\A q \in Ops : txs'[q] # NoTx => Typed(txs'[q]))
      BY <1>1, <1>4 DEF TypeOK
    <3>2. (tx # NoTx => Typed(tx))'
      BY <2>2
    <3>3. /\ goal' = goal /\ stage' # "restore" /\ todo' = todo /\ step' = step /\ keeps' = keeps
          /\ unlocked' = unlocked /\ disturbed' = disturbed
          /\ latest' = latest /\ forfeited' = forfeited /\ tries' \in 0 .. 2
      BY <1>2, <1>6 DEF world
    <3>4. owed' \in BOOLEAN
      BY <1>2
    <3> QED
      BY <1>1, <1>4, <3>1, <3>2, <3>3, <3>4 DEF TypeOK
  <2>4. Progress' /\ ReadSound'
    BY <1>6 DEF Progress, ReadSound
  <2>5. WorkSound'
    BY <1>4, <1>6, <2>1, <2>4 DEF WorkSound, Early, Applying, Undoing
  <2> QED
    BY <1>3, <2>3, <2>4, <2>5 DEF SwitchInv
<1> QED
  BY <1>3, <1>5, <1>6 DEF Recover

-----------------------------------------------------------------------------
(* Transactions are put together *)

\* A sequence of at most two updates, by where they come from.
LEMMA JoinedFacts ==
  ASSUME NEW S, NEW A \in Seq(S), NEW B \in Seq(S), Len(A) <= 1, Len(B) <= 1
  PROVE  LET us == A \o B IN
         /\ us \in Seq(S)
         /\ \A i \in DOMAIN us : \/ i = 1 /\ Len(A) = 1 /\ us[i] = A[1]
                                 \/ i = Len(A) + 1 /\ Len(B) = 1 /\ us[i] = B[1]
         /\ Len(A) = 1 => 1 \in DOMAIN us /\ us[1] = A[1]
         /\ Len(B) = 1 => Len(A) + 1 \in DOMAIN us /\ us[Len(A) + 1] = B[1]
<1> DEFINE us == A \o B
<1>1. /\ us \in Seq(S) /\ Len(us) = Len(A) + Len(B)
      /\ \A i \in 1 .. Len(A) + Len(B) :
           us[i] = IF i <= Len(A) THEN A[i] ELSE B[i - Len(A)]
  BY ConcatProperties
<1> HIDE DEF us
<1>2. PICK m \in 0 .. 1, n \in 0 .. 1 : m = Len(A) /\ n = Len(B)
  <2>1. Len(A) \in Nat /\ Len(B) \in Nat
    BY LenProperties
  <2>2. \A x \in Nat : x <= 1 => x \in 0 .. 1
    OBVIOUS
  <2>3. Len(A) \in 0 .. 1 /\ Len(B) \in 0 .. 1
    BY <2>1, <2>2, Zenon
  <2> QED
    BY <2>3
<1>3. DOMAIN us = 1 .. m + n
  BY <1>1, <1>2
<1>4. \A i \in 1 .. m + n : us[i] = IF i <= m THEN A[i] ELSE B[i - m]
  BY <1>1, <1>2
<1>5. ASSUME NEW i \in DOMAIN us
      PROVE  \/ i = 1 /\ m = 1 /\ us[i] = A[1]
             \/ i = m + 1 /\ n = 1 /\ us[i] = B[1]
  <2>1. i \in 1 .. m + n
    BY <1>3
  <2>2. CASE i <= m
    <3>1. i = 1 /\ m = 1
      BY <2>1, <2>2
    <3> QED
      BY <1>4, <2>1, <2>2, <3>1
  <2>3. CASE ~(i <= m)
    <3>1. i = m + 1 /\ n = 1 /\ i - m = 1
      BY <2>1, <2>3
    <3> QED
      BY <1>4, <2>1, <2>3, <3>1
  <2> QED
    BY <2>2, <2>3
<1>6. m = 1 => 1 \in DOMAIN us /\ us[1] = A[1]
  BY <1>3, <1>4
<1>7. n = 1 => m + 1 \in DOMAIN us /\ us[m + 1] = B[1]
  <2> SUFFICES ASSUME n = 1
               PROVE  m + 1 \in DOMAIN us /\ us[m + 1] = B[1]
    OBVIOUS
  <2>1. m + 1 \in 1 .. m + n /\ ~(m + 1 <= m) /\ (m + 1) - m = 1
    OBVIOUS
  <2> QED
    BY <1>3, <1>4, <2>1
<1> QED
  BY <1>1, <1>2, <1>5, <1>6, <1>7 DEF us

\* With nothing pending the references put at most one account at the active
\* home, and every other one at its own.
LEMMA Occupied ==
  ASSUME DiskSound, Pending = {}
  PROVE  /\ \A a, b \in Managed : refs[a] = Active /\ refs[b] = Active => a = b
         /\ \A a \in Managed : refs[a] \in {a, Active}
         /\ Bound /\ Who \in Managed => refs[Who] = Active
<1>1. OldBinding = store[Binding] /\ Home = refs
  BY NonePending
<1>2. PICK c \in Managed \cup {Gateway, Absent} :
        refs = HomesFor(c) /\ (store[Binding] # Absent => c = store[Binding].who)
  BY <1>1 DEF DiskSound, ChoiceSound
<1>3. \A a \in Managed : refs[a] = IF a = c THEN Active ELSE a
  BY <1>2 DEF HomesFor
<1>4. Active \notin Managed
  BY SwitchConstants DEF Accounts
<1> QED
  BY <1>2, <1>3, <1>4 DEF Bound, Who

\* The account that gives up the active home goes to its own.
LEMMA MoveOutFacts ==
  ASSUME TypeOK, NEW g
  PROVE  /\ MoveOut(g) \in Seq(RefUpdate) /\ Len(MoveOut(g)) <= 1
         /\ Outgoing(g) = {} => Len(MoveOut(g)) = 0
         /\ Outgoing(g) # {} => Len(MoveOut(g)) = 1
         /\ Len(MoveOut(g)) = 1 =>
              \E a \in Managed : a # g /\ refs[a] = Active
                /\ MoveOut(g)[1] = [id |-> a, before |-> Active, after |-> a]
<1>1. CASE Outgoing(g) = {}
  <2>1. MoveOut(g) = <<>>
    BY <1>1 DEF MoveOut
  <2> QED
    BY <1>1, <2>1
<1>2. CASE Outgoing(g) # {}
  <2>1. PICK a : a = CHOOSE b \in Outgoing(g) : TRUE
    OBVIOUS
  <2>2. a \in Managed /\ a # g /\ refs[a] = Active
    BY <1>2, <2>1 DEF Outgoing
  <2>3. MoveOut(g) = <<[id |-> a, before |-> Active, after |-> a]>>
    BY <1>2, <2>1, <2>2 DEF MoveOut
  <2>4. [id |-> a, before |-> Active, after |-> a] \in RefUpdate
    BY <2>2, ResourceFacts DEF RefUpdate
  <2> QED
    BY <1>2, <2>2, <2>3, <2>4
<1> QED
  BY <1>1, <1>2

\* What a copy puts at r is of r's kind.
LEMMA CopiedTyped ==
  ASSUME TypeOK, NEW h \in Homes, NEW i \in Homes,
         store[Profile(h)] # Absent \/ i = h
  PROVE  /\ Copied(h, Grant(i)) \in Grants \cup {Absent}
         /\ Copied(h, Profile(i)) \in Profiles \cup {Absent}
<1>1. /\ store[Grant(h)] \in Grants \cup {Absent}
      /\ store[Profile(h)] \in Profiles \cup {Absent}
      /\ store[Profile(i)] \in Profiles \cup {Absent}
  BY ResourceFacts DEF TypeOK
<1>2. Copied(h, Grant(i)) = store[Grant(h)]
  BY DEF Copied, Grant
<1>3. Copied(h, Profile(i)) = IF store[Profile(i)] = Absent THEN store[Profile(h)]
                              ELSE [store[Profile(i)] EXCEPT !.acct = store[Profile(h)].acct]
  BY DEF Copied, Profile
<1>4. CASE store[Profile(i)] = Absent
  BY <1>1, <1>2, <1>3, <1>4
<1>5. CASE store[Profile(i)] # Absent
  <2>1. store[Profile(i)] \in Profiles /\ store[Profile(h)] \in Profiles
    BY <1>1, <1>5
  <2>2. [store[Profile(i)] EXCEPT !.acct = store[Profile(h)].acct] \in Profiles
    BY <2>1 DEF Profiles
  <2> QED
    BY <1>1, <1>2, <1>3, <1>5, <2>2
<1> QED
  BY <1>4, <1>5

LEMMA ContentFacts == \A r \in Resources : Content(r) \subseteq Contents
<1> SUFFICES ASSUME NEW r \in Resources
             PROVE  Content(r) \subseteq Contents
  OBVIOUS
<1>1. \/ r = Config \/ r = Binding
      \/ \E h \in Homes : r = Grant(h) \/ r = Profile(h)
  BY DEF Resources
<1>2. Content(r) \in {Grants \cup {Absent}, Profiles \cup {Absent}, Configs, Bindings \cup {Absent}}
  BY <1>1, ResourceFacts
<1> QED
  BY <1>2 DEF Contents

\* A transaction that is put together from what is there, with nothing
\* pending, under a name of its own.
LEMMA StartStep ==
  ASSUME SwitchInv, Pending = {}, HasFreeOp, stage \in {"prepare", "restore"},
         NEW post, NEW us \in Seq(RefUpdate),
         DOMAIN post \subseteq Resources, \A r \in DOMAIN post : post[r] \in Content(r),
         {Grant(Active), Profile(Active), Config, Binding} \subseteq DOMAIN post,
         post[Config].user = store[Config].user,
         post[Binding] # Absent =>
           /\ post[Binding].op = FreeOp /\ post[Binding].config = post[Config]
           /\ \A i \in DOMAIN us : us[i].after = Active => us[i].id = post[Binding].who,
         RefsSound(us), \A i \in DOMAIN us : us[i].before = refs[us[i].id],
         NEW c, c = IF post[Binding] = Absent THEN Absent ELSE post[Binding].who,
         (\A i, j \in DOMAIN us : us[i].id = us[j].id => i = j) =>
           \A a \in Managed :
             /\ \A i \in DOMAIN us : us[i].id = a => us[i].after = HomesFor(c)[a]
             /\ (\A i \in DOMAIN us : us[i].id # a) => refs[a] = HomesFor(c)[a],
         Start(post, us), keeps' \in BOOLEAN,
         UNCHANGED <<disk, goal, stamp, todo, step, tries, unlocked, owed, world>>
  PROVE  SwitchInv' /\ ChoiceStays
<1>1. TypeOK /\ DiskSound /\ WorkSound
  BY DEF SwitchInv
<1>2. /\ store' = store /\ refs' = refs /\ txs' = txs /\ step' = step /\ step = 0
      /\ stage' = "save"
  BY <1>1 DEF disk, WorkSound, Early, Start
<1>3. PICK op \in Ops : op = FreeOp /\ txs[op] = NoTx
  BY DEF HasFreeOp, FreeOp
<1>4. PICK ch : ch = Changes(post)
  OBVIOUS
<1>5. /\ DOMAIN ch = DOMAIN post
      /\ \A r \in DOMAIN post : ch[r].before = store[r] /\ ch[r].after = post[r]
  BY <1>4 DEF Changes
<1>6. ch \in [DOMAIN post -> Image]
  <2>1. \A r \in DOMAIN post : store[r] \in Contents /\ post[r] \in Contents
    BY <1>1, ContentFacts DEF TypeOK
  <2>2. \A r \in DOMAIN post : [before |-> store[r], after |-> post[r]] \in Image
    BY <2>1 DEF Image
  <2> QED
    BY <1>4, <2>2 DEF Changes
<1>7. PICK t : t = [op |-> op, committed |-> FALSE, changes |-> ch, refs |-> us]
  OBVIOUS
<1>8. /\ t.op = op /\ ~t.committed /\ t.changes = ch /\ t.refs = us
      /\ Covers(t) = DOMAIN post
      /\ \A r \in DOMAIN post : Before(t, r) = store[r] /\ After(t, r) = post[r]
  BY <1>5, <1>7 DEF Covers, Before, After
<1>9. tx' = t
  BY <1>3, <1>4, <1>7 DEF Start
<1>10. t \in Transaction
  <2>1. DOMAIN post \in SUBSET Resources
    OBVIOUS
  <2>2. ch \in UNION {[R -> Image] : R \in SUBSET Resources}
    BY <1>6, <2>1
  <2> QED
    BY <1>7, <2>2 DEF Transaction
<1>11. Typed(t) /\ t # NoTx
  <2>1. \A r \in DOMAIN post : store[r] \in Content(r)
    BY <1>1 DEF TypeOK
  <2> QED
    BY <1>5, <1>8, <1>10, <2>1, NothingIsSomething DEF Typed
<1>12. TxSound(t)
  BY <1>3, <1>8 DEF TxSound
<1>13. DiskSound' /\ ChoiceStays
  BY <1>1, DiskSame
<1>14. TypeOK'
  <2>1. (tx # NoTx => Typed(tx))'
    BY <1>9, <1>11 DEF Typed, Covers
  <2>2. /\ txs' \in [Ops -> Transaction \cup {NoTx}]
        /\ \A q \in Ops : txs'[q] # NoTx => Typed(txs'[q])
    BY <1>1, <1>2 DEF TypeOK
  <2>3. disturbed' \subseteq Ops /\ latest' = latest /\ forfeited' = forfeited
    BY <1>1 DEF Start, TypeOK, world
  <2> QED
    BY <1>1, <1>2, <2>1, <2>2, <2>3 DEF TypeOK
<1>15. SaveSound'
  <2>1. TxSound(tx)'
    BY <1>9, <1>12 DEF TxSound, Covers, Before, After, RefsSound
  <2>2. store'[Binding] = t.changes[Binding].before
    BY <1>2, <1>5, <1>8
  <2>3. \A r \in Covers(t) : store'[r] = t.changes[r].before
    BY <1>2, <1>5, <1>8
  <2>4. t # NoTx /\ txs'[t.op] = NoTx /\ ~t.committed
        /\ \A i \in DOMAIN t.refs : t.refs[i].before = refs'[t.refs[i].id]
    BY <1>2, <1>3, <1>8, <1>11
  <2> QED
    BY <1>9, <2>1, <2>2, <2>3, <2>4 DEF SaveSound, Before, Covers
<1>16. Leads(tx)'
  <2>1. Aim(tx)' = c
    BY <1>8, <1>9 DEF Aim, After
  <2> QED
    BY <1>2, <1>8, <1>9, <2>1 DEF Leads, HomesFor
<1>17. Pending' = {}
  BY <1>2 DEF Pending
<1>18. Progress' /\ ReadSound'
  BY <1>2 DEF Progress, ReadSound
<1>19. WorkSound'
  BY <1>2, <1>15, <1>16, <1>17, <1>18 DEF WorkSound, Early, Applying, Undoing
<1> QED
  BY <1>13, <1>14, <1>18, <1>19 DEF SwitchInv

\* What the outgoing account's home will hold is of its resources' kind.
LEMMA ArchivedFacts ==
  ASSUME TypeOK, NEW g, MayArchive(g)
  PROVE  /\ DOMAIN Archived(g) \subseteq Resources
         /\ \A r \in DOMAIN Archived(g) : Archived(g)[r] \in Content(r)
<1>1. DOMAIN Archived(g) = {Grant(a) : a \in Outgoing(g)} \cup {Profile(a) : a \in Outgoing(g)}
      /\ \A r \in DOMAIN Archived(g) : Archived(g)[r] = Copied(Active, r)
  BY DEF Archived
<1>2. ASSUME NEW a \in Outgoing(g)
      PROVE  /\ Grant(a) \in Resources /\ Copied(Active, Grant(a)) \in Content(Grant(a))
             /\ Profile(a) \in Resources /\ Copied(Active, Profile(a)) \in Content(Profile(a))
  <2>1. a \in Managed /\ a \in Homes /\ a \in Accounts /\ Active \in Homes
    BY ResourceFacts DEF Outgoing, Accounts
  <2>2. Identity(Active) = a
    BY DEF MayArchive
  <2>3. store[Profile(Active)] # Absent
    BY <2>1, <2>2, IdentityFacts, NothingIsSomething
  <2>4. /\ Copied(Active, Grant(a)) \in Grants \cup {Absent}
        /\ Copied(Active, Profile(a)) \in Profiles \cup {Absent}
    BY <2>1, <2>3, CopiedTyped
  <2> QED
    BY <2>1, <2>4, ResourceFacts
<1> QED
  BY <1>1, <1>2

\* Updates of at most two accounts, or twice of one that the first update
\* takes from where the second would leave it.
LEMMA JoinedSound ==
  ASSUME NEW A \in Seq(RefUpdate), NEW B \in Seq(RefUpdate), Len(A) <= 1, Len(B) <= 1,
         Len(A) = 1 => A[1].before = refs[A[1].id],
         Len(B) = 1 => B[1].before = refs[B[1].id],
         Len(A) = 1 /\ Len(B) = 1 /\ A[1].id = B[1].id =>
           A[1].after \notin {B[1].before, B[1].after}
  PROVE  /\ RefsSound(A \o B)
         /\ \A i \in DOMAIN (A \o B) : (A \o B)[i].before = refs[(A \o B)[i].id]
<1> DEFINE us == A \o B
<1>1. \A i \in DOMAIN us : \/ i = 1 /\ Len(A) = 1 /\ us[i] = A[1]
                           \/ i = Len(A) + 1 /\ Len(B) = 1 /\ us[i] = B[1]
  BY JoinedFacts
<1> HIDE DEF us
<1>2. \A i \in DOMAIN us : us[i].before = refs[us[i].id]
  BY <1>1
<1>3. ASSUME NEW i \in DOMAIN us, NEW j \in DOMAIN us, us[i].id = us[j].id
      PROVE  /\ us[i].before = us[j].before
             /\ i < j => us[i].after \notin {us[j].before, us[j].after}
  <2>1. us[i].before = us[j].before
    BY <1>2, <1>3
  <2>2. Len(A) \in Nat
    BY LenProperties
  <2>3. ASSUME i < j
        PROVE  Len(A) = 1 /\ us[i] = A[1] /\ Len(B) = 1 /\ us[j] = B[1]
    <3>1. i \in Nat /\ j \in Nat
      BY <1>1, <2>2
    <3>2. j # 1
      <4>1. i >= 1
        BY <1>1, <2>2
      <4> QED
        BY <2>3, <3>1, <4>1
    <3>3. j = Len(A) + 1 /\ Len(B) = 1 /\ us[j] = B[1]
      BY <1>1, <3>2
    <3>4. i # Len(A) + 1
      BY <2>3, <3>1, <3>3
    <3> QED
      BY <1>1, <3>3, <3>4
  <2> QED
    BY <1>3, <2>1, <2>3
<1> QED
  BY <1>2, <1>3 DEF RefsSound, us

LEMMA PrepareStep ==
  ASSUME SwitchInv, Prepare
  PROVE  SwitchInv' /\ ChoiceStays
<1>1. TypeOK /\ DiskSound /\ WorkSound
  BY DEF SwitchInv
<1>2. stage = "prepare" /\ HasFreeOp /\ Pending = {} /\ goal \in Managed \cup {Gateway}
  BY <1>1 DEF Prepare, WorkSound, Early, TypeOK
<1>3. /\ MayArchive(goal) /\ (goal # Gateway => Identity(refs[goal]) = goal)
      /\ UNCHANGED <<disk, goal, stamp, todo, step, tries, keeps, unlocked, owed, world>>
  BY DEF Prepare
<1>4. Gateway \notin Managed /\ Active \notin Managed /\ goal # Absent /\ Managed \subseteq Accounts
  BY <1>2, SwitchConstants DEF Accounts
<1> DEFINE c0 == Plan(IF goal = Gateway THEN "gateway" ELSE "official")
           n0 == Incoming(goal)
<1>5. PICK config \in Configs : config = c0 /\ config.user = store[Config].user
  <2>1. store[Config] \in Configs
    BY <1>1, ResourceFacts DEF TypeOK
  <2>2. c0 \in Configs /\ c0.user = store[Config].user
    BY <2>1 DEF Plan, Configs
  <2> QED
    BY <2>2
<1>6. PICK native : native = n0
  OBVIOUS
<1>7. /\ DOMAIN native = {Grant(Active), Profile(Active)}
      /\ native[Grant(Active)] \in Grants \cup {Absent}
      /\ native[Profile(Active)] \in Profiles \cup {Absent}
  <2>1. PICK h : h = IF goal = Gateway THEN Active ELSE refs[goal]
    OBVIOUS
  <2>2. h \in Homes /\ Active \in Homes
    BY <1>1, <1>2, <2>1, ResourceFacts DEF TypeOK
  <2>3. store[Profile(h)] # Absent \/ Active = h
    BY <1>1, <1>2, <1>3, <1>4, <2>1, <2>2, IdentityFacts, NothingIsSomething
  <2>4. /\ Copied(h, Grant(Active)) \in Grants \cup {Absent}
        /\ Copied(h, Profile(Active)) \in Profiles \cup {Absent}
    BY <1>1, <2>2, <2>3, CopiedTyped
  <2>5. native = [r \in {Grant(Active), Profile(Active)} |-> Copied(h, r)]
    BY <1>6, <2>1 DEF Incoming
  <2> QED
    BY <2>4, <2>5
<1>8. PICK binding : binding = [op |-> FreeOp, who |-> goal, config |-> config,
                     native |-> IF goal = Gateway
                                THEN <<native[Grant(Active)], native[Profile(Active)]>>
                                ELSE Absent]
  OBVIOUS
<1>9. /\ binding \in Bindings /\ binding # Absent /\ binding.op = FreeOp /\ binding.who = goal
      /\ binding.config = config
  <2>1. FreeOp \in Ops
    BY <1>2 DEF HasFreeOp, FreeOp
  <2>2. binding \in Bindings
    BY <1>2, <1>5, <1>7, <1>8, <2>1 DEF Bindings
  <2> QED
    BY <1>8, <2>2, NothingIsSomething
<1>10. PICK cb : cb = [r \in {Config, Binding} |-> IF r = Config THEN config ELSE binding]
  OBVIOUS
<1>11. DOMAIN cb = {Config, Binding} /\ cb[Config] = config /\ cb[Binding] = binding
  BY <1>10, ResourceFacts
<1>12. PICK ar : ar = Archived(goal)
  OBVIOUS
<1>13. DOMAIN ar \subseteq Resources /\ \A r \in DOMAIN ar : ar[r] \in Content(r)
  BY <1>1, <1>3, <1>12, ArchivedFacts
<1>14. PICK post : post = Merge(Merge(ar, native), cb)
  OBVIOUS
<1>15. /\ DOMAIN post = DOMAIN ar \cup DOMAIN native \cup DOMAIN cb
       /\ \A r \in DOMAIN cb : post[r] = cb[r]
       /\ \A r \in DOMAIN native : r \notin DOMAIN cb => post[r] = native[r]
       /\ \A r \in DOMAIN ar : r \notin DOMAIN cb \cup DOMAIN native => post[r] = ar[r]
  <2>1. PICK m : m = Merge(ar, native)
    OBVIOUS
  <2>2. /\ DOMAIN m = DOMAIN ar \cup DOMAIN native
        /\ \A r \in DOMAIN native : m[r] = native[r]
        /\ \A r \in DOMAIN ar : r \notin DOMAIN native => m[r] = ar[r]
    BY <2>1 DEF Merge
  <2>3. /\ DOMAIN post = DOMAIN m \cup DOMAIN cb
        /\ \A r \in DOMAIN cb : post[r] = cb[r]
        /\ \A r \in DOMAIN m : r \notin DOMAIN cb => post[r] = m[r]
    BY <1>14, <2>1 DEF Merge
  <2> QED
    BY <2>2, <2>3
<1>16. /\ DOMAIN post \subseteq Resources
       /\ {Grant(Active), Profile(Active), Config, Binding} \subseteq DOMAIN post
       /\ post[Config] = config /\ post[Binding] = binding
  BY <1>7, <1>11, <1>13, <1>15, ResourceFacts
<1>17. \A r \in DOMAIN post : post[r] \in Content(r)
  <2>1. ASSUME NEW r \in DOMAIN cb
        PROVE  post[r] \in Content(r)
    BY <1>5, <1>9, <1>11, <1>15, ResourceFacts
  <2>2. ASSUME NEW r \in DOMAIN native, r \notin DOMAIN cb
        PROVE  post[r] \in Content(r)
    BY <1>7, <1>15, <2>2, ResourceFacts
  <2>3. ASSUME NEW r \in DOMAIN ar, r \notin DOMAIN cb \cup DOMAIN native
        PROVE  post[r] \in Content(r)
    BY <1>13, <1>15, <2>3
  <2> QED
    BY <1>15, <2>1, <2>2, <2>3
<1>18. /\ MoveOut(goal) \in Seq(RefUpdate) /\ Len(MoveOut(goal)) <= 1
       /\ Outgoing(goal) # {} => Len(MoveOut(goal)) = 1
       /\ Len(MoveOut(goal)) = 1 =>
            \E a \in Managed : a # goal /\ refs[a] = Active
              /\ MoveOut(goal)[1] = [id |-> a, before |-> Active, after |-> a]
  BY <1>1, MoveOutFacts
<1>19. /\ MoveIn(goal) \in Seq(RefUpdate) /\ Len(MoveIn(goal)) <= 1
       /\ goal # Gateway => Len(MoveIn(goal)) = 1
       /\ Len(MoveIn(goal)) = 1 => /\ goal \in Managed
                                   /\ MoveIn(goal)[1] = [id |-> goal, before |-> refs[goal], after |-> Active]
  <2>1. CASE goal = Gateway
    <3>1. MoveIn(goal) = <<>>
      BY <2>1 DEF MoveIn
    <3> QED
      BY <2>1, <3>1
  <2>2. CASE goal # Gateway
    <3>1. MoveIn(goal) = <<[id |-> goal, before |-> refs[goal], after |-> Active]>>
      BY <2>2 DEF MoveIn
    <3>2. goal \in Managed /\ refs[goal] \in Homes /\ Active \in Homes
      BY <1>1, <1>2, <2>2, ResourceFacts DEF TypeOK
    <3>3. [id |-> goal, before |-> refs[goal], after |-> Active] \in RefUpdate
      BY <3>2 DEF RefUpdate
    <3> QED
      BY <2>2, <3>1, <3>2, <3>3
  <2> QED
    BY <2>1, <2>2
<1>20. PICK out : out = MoveOut(goal)
  OBVIOUS
<1>21. PICK inn : inn = MoveIn(goal)
  OBVIOUS
<1>22. PICK us : us = out \o inn
  OBVIOUS
<1>23. /\ us \in Seq(RefUpdate)
       /\ \A i \in DOMAIN us : \/ i = 1 /\ Len(out) = 1 /\ us[i] = out[1]
                               \/ i = Len(out) + 1 /\ Len(inn) = 1 /\ us[i] = inn[1]
       /\ Len(out) = 1 => 1 \in DOMAIN us /\ us[1] = out[1]
       /\ Len(inn) = 1 => Len(out) + 1 \in DOMAIN us /\ us[Len(out) + 1] = inn[1]
  BY <1>18, <1>19, <1>20, <1>21, <1>22, JoinedFacts
<1>24. RefsSound(us) /\ \A i \in DOMAIN us : us[i].before = refs[us[i].id]
  <2>1. Len(out) = 1 => out[1].before = refs[out[1].id] /\ out[1].id # goal
    BY <1>18, <1>20
  <2>2. Len(inn) = 1 => inn[1].before = refs[inn[1].id] /\ inn[1].id = goal
    BY <1>19, <1>21
  <2> QED
    BY <1>18, <1>19, <1>20, <1>21, <1>22, <2>1, <2>2, JoinedSound
<1>25. \A i \in DOMAIN us : \/ /\ us[i].id \in Managed /\ us[i].id # goal /\ us[i].after = us[i].id
                               /\ refs[us[i].id] = Active
                            \/ us[i].id = goal /\ us[i].after = Active /\ goal \in Managed
  <2>1. Len(out) = 1 => /\ out[1].id \in Managed /\ out[1].id # goal /\ out[1].after = out[1].id
                        /\ refs[out[1].id] = Active
    BY <1>18, <1>20
  <2>2. Len(inn) = 1 => inn[1].id = goal /\ inn[1].after = Active /\ goal \in Managed
    BY <1>19, <1>21
  <2>3. ASSUME NEW i \in DOMAIN us
        PROVE  (Len(out) = 1 /\ us[i] = out[1]) \/ (Len(inn) = 1 /\ us[i] = inn[1])
    BY <1>23
  <2> QED
    BY <2>1, <2>2, <2>3
<1>26. ASSUME NEW a \in Managed
       PROVE  /\ \A i \in DOMAIN us : us[i].id = a => us[i].after = HomesFor(goal)[a]
              /\ (\A i \in DOMAIN us : us[i].id # a) => refs[a] = HomesFor(goal)[a]
  <2>1. HomesFor(goal)[a] = IF a = goal THEN Active ELSE a
    BY DEF HomesFor
  <2>2. \A i \in DOMAIN us : us[i].id = a => us[i].after = HomesFor(goal)[a]
    BY <1>25, <2>1
  <2>3. ASSUME \A i \in DOMAIN us : us[i].id # a
        PROVE  refs[a] = HomesFor(goal)[a]
    <3>1. a # goal
      <4>1. goal # Gateway => Len(out) + 1 \in DOMAIN us /\ us[Len(out) + 1].id = goal
        BY <1>19, <1>21, <1>23
      <4> QED
        BY <1>4, <2>3, <4>1
    <3>2. refs[a] # Active
      <4>1. SUFFICES ASSUME refs[a] = Active
                     PROVE  FALSE
        OBVIOUS
      <4>2. a \in Outgoing(goal)
        BY <3>1, <4>1 DEF Outgoing
      <4>3. 1 \in DOMAIN us /\ us[1] = out[1] /\ Len(out) = 1
        BY <1>18, <1>20, <1>23, <4>2
      <4>4. PICK b \in Managed : refs[b] = Active /\ out[1] = [id |-> b, before |-> Active, after |-> b]
        BY <1>18, <1>20, <4>3
      <4>5. b = a
        BY <1>1, <1>2, <4>1, <4>4, Occupied
      <4>6. us[1].id = a
        BY <4>3, <4>4, <4>5
      <4> QED
        BY <2>3, <4>3, <4>6
    <3>3. refs[a] \in {a, Active}
      BY <1>1, <1>2, Occupied
    <3> QED
      BY <2>1, <3>1, <3>2, <3>3
  <2> QED
    BY <2>2, <2>3
<1>27. \A i \in DOMAIN us : us[i].after = Active => us[i].id = goal
  BY <1>4, <1>25
<1>28. Start(post, us)
  BY <1>5, <1>6, <1>8, <1>10, <1>12, <1>14, <1>20, <1>21, <1>22 DEF Prepare
<1>29. keeps' \in BOOLEAN
  BY <1>1, <1>3 DEF TypeOK
<1>30. goal = IF post[Binding] = Absent THEN Absent ELSE post[Binding].who
  BY <1>9, <1>16
<1>31. post[Binding] # Absent =>
         /\ post[Binding].op = FreeOp /\ post[Binding].config = post[Config]
         /\ \A i \in DOMAIN us : us[i].after = Active => us[i].id = post[Binding].who
  BY <1>9, <1>16, <1>27
<1>32. post[Config].user = store[Config].user
  BY <1>5, <1>16
<1>33. UNCHANGED <<disk, goal, stamp, todo, step, tries, unlocked, owed, world>>
  BY <1>3
<1>34. stage \in {"prepare", "restore"}
  BY <1>2
<1> QED
  BY <1>2, <1>16, <1>17, <1>23, <1>24, <1>26, <1>28, <1>29, <1>30, <1>31, <1>32, <1>33, <1>34, StartStep

-----------------------------------------------------------------------------
(* The first switch is rolled back *)

\* What is rolled back is the transaction that set the current binding.
LEMMA RollbackFacts ==
  ASSUME TypeOK, DiskSound, WorkSound, Pending = {}, RollbackSound
  PROVE  /\ tx # NoTx /\ Typed(tx) /\ TxSound(tx) /\ tx.op \in Ops
         /\ store[Binding] \in Bindings /\ After(tx, Binding) = store[Binding]
<1>1. store[Binding] # Absent /\ tx # NoTx /\ tx = txs[store[Binding].op]
  BY DEF RollbackSound, Bound
<1>2. Rooted(store[Binding])
  BY NonePending DEF DiskSound, ChoiceSound
<1>3. store[Binding].op \in Ops /\ After(tx, Binding) = store[Binding]
  BY <1>1, <1>2 DEF Rooted
<1>4. Typed(tx)
  BY <1>1 DEF TypeOK
<1>5. TxSound(tx) /\ tx.op \in Ops
  BY <1>1, <1>3 DEF DiskSound, FilesSound
<1>6. store[Binding] \in Bindings
  BY <1>1, ResourceFacts DEF TypeOK
<1> QED
  BY <1>1, <1>3, <1>4, <1>5, <1>6

\* A reference that goes back to the active home is the selected account's,
\* which is there now.
LEMMA MoveBackFacts ==
  ASSUME TypeOK, DiskSound, WorkSound, Pending = {}, RollbackSound
  PROVE  /\ MoveBack(tx) \in Seq(RefUpdate)
         /\ \/ Len(MoveBack(tx)) = 0
            \/ /\ Len(MoveBack(tx)) = 1 /\ Who \in Managed /\ refs[Who] = Active
               /\ MoveBack(tx)[1] = [id |-> Who, before |-> Active, after |-> Active]
<1>1. PICK moved : moved = {tx.refs[i].id : i \in {i \in DOMAIN tx.refs : tx.refs[i].before = Active}}
  OBVIOUS
<1>2. CASE moved = {}
  <2>1. MoveBack(tx) = <<>>
    BY <1>1, <1>2 DEF MoveBack
  <2> QED
    BY <2>1
<1>3. CASE moved # {}
  <2>1. PICK a \in moved : a = CHOOSE b \in moved : TRUE
    BY <1>3
  <2>2. MoveBack(tx) = <<[id |-> a, before |-> refs[a], after |-> Active]>>
    BY <1>1, <1>3, <2>1 DEF MoveBack
  <2>3. PICK i \in DOMAIN tx.refs : tx.refs[i].before = Active /\ tx.refs[i].id = a
    BY <1>1
  <2>4. tx.refs[i].after = Active
    BY <2>3 DEF RollbackSound
  <2>5. /\ Typed(tx) /\ TxSound(tx) /\ After(tx, Binding) = store[Binding]
        /\ store[Binding] # Absent
    BY RollbackFacts DEF RollbackSound, Bound
  <2>6. a = Who
    BY <2>3, <2>4, <2>5 DEF TxSound, Who
  <2>7. a \in Managed
    BY <2>3, <2>5, TypedFacts
  <2>8. refs[a] = Active
    BY <2>5, <2>6, <2>7, Occupied DEF Bound
  <2>9. [id |-> a, before |-> Active, after |-> Active] \in RefUpdate
    BY <2>7, ResourceFacts DEF RefUpdate
  <2>10. MoveBack(tx) = <<[id |-> a, before |-> Active, after |-> Active]>>
    BY <2>2, <2>8
  <2> QED
    BY <2>6, <2>7, <2>8, <2>9, <2>10
<1> QED
  BY <1>2, <1>3

LEMMA PrepareRollbackStep ==
  ASSUME SwitchInv, PrepareRollback
  PROVE  SwitchInv' /\ ChoiceStays
<1>1. TypeOK /\ DiskSound /\ WorkSound
  BY DEF SwitchInv
<1>2. /\ stage = "restore" /\ HasFreeOp /\ Pending = {} /\ RollbackSound
      /\ stamp \in Grants \cup {Absent}
  BY <1>1 DEF PrepareRollback, WorkSound, Early, TypeOK
<1>3. /\ MayArchive(Gateway) /\ Intact /\ keeps' = TRUE
      /\ UNCHANGED <<disk, goal, stamp, todo, step, tries, unlocked, owed, world>>
  BY DEF PrepareRollback
<1>4. Gateway \notin Managed /\ Active \notin Managed /\ Absent \notin Managed
  BY SwitchConstants DEF Accounts
<1>5. /\ Typed(tx) /\ TxSound(tx) /\ store[Binding] \in Bindings
      /\ After(tx, Binding) = store[Binding] /\ Before(tx, Binding) = Absent
      /\ store[Binding] # Absent
  BY <1>1, <1>2, RollbackFacts, NothingIsSomething DEF RollbackSound
<1>6. {Grant(Active), Profile(Active), Config, Binding} \subseteq Covers(tx)
      /\ \A r \in Covers(tx) : Before(tx, r) \in Content(r)
  BY <1>5, TypedFacts DEF TxSound
<1>7. PICK old : old = [r \in NativeParts \cup {Config, Binding} |->
                          IF r = Grant(Active) /\ stamp # Absent THEN stamp
                          ELSE tx.changes[r].before]
  OBVIOUS
<1>8. /\ DOMAIN old = {Grant(Active), Profile(Active), Config, Binding}
      /\ old[Config] = Before(tx, Config) /\ old[Binding] = Absent
      /\ \A r \in DOMAIN old : old[r] \in Content(r)
  <2>1. DOMAIN old = {Grant(Active), Profile(Active), Config, Binding}
    BY <1>7 DEF NativeParts
  <2>2. \A r \in DOMAIN old : \/ r = Grant(Active) /\ stamp # Absent /\ old[r] = stamp
                              \/ old[r] = Before(tx, r)
    BY <1>7 DEF NativeParts, Before
  <2>3. Config # Grant(Active) /\ Binding # Grant(Active) /\ Content(Grant(Active)) = Grants \cup {Absent}
    BY ResourceFacts
  <2>4. old[Config] = Before(tx, Config) /\ old[Binding] = Absent
    BY <1>5, <2>1, <2>2, <2>3
  <2>5. \A r \in DOMAIN old : old[r] \in Content(r)
    BY <1>2, <1>6, <2>1, <2>2, <2>3
  <2> QED
    BY <2>1, <2>4, <2>5
<1>9. PICK ar : ar = Archived(Gateway)
  OBVIOUS
<1>10. DOMAIN ar \subseteq Resources /\ \A r \in DOMAIN ar : ar[r] \in Content(r)
  BY <1>1, <1>3, <1>9, ArchivedFacts
<1>11. PICK post : post = Merge(ar, old)
  OBVIOUS
<1>12. /\ DOMAIN post = DOMAIN ar \cup DOMAIN old
       /\ \A r \in DOMAIN old : post[r] = old[r]
       /\ \A r \in DOMAIN ar : r \notin DOMAIN old => post[r] = ar[r]
  BY <1>11 DEF Merge
<1>13. /\ DOMAIN post \subseteq Resources
       /\ {Grant(Active), Profile(Active), Config, Binding} \subseteq DOMAIN post
       /\ post[Config] = Before(tx, Config) /\ post[Binding] = Absent
       /\ \A r \in DOMAIN post : post[r] \in Content(r)
  BY <1>8, <1>10, <1>12, ResourceFacts
<1>14. post[Config].user = store[Config].user
  BY <1>3, <1>5, <1>13 DEF Intact, TxSound
<1>15. /\ MoveOut(Gateway) \in Seq(RefUpdate) /\ Len(MoveOut(Gateway)) <= 1
       /\ Outgoing(Gateway) # {} => Len(MoveOut(Gateway)) = 1
       /\ Len(MoveOut(Gateway)) = 1 =>
            \E a \in Managed : a # Gateway /\ refs[a] = Active
              /\ MoveOut(Gateway)[1] = [id |-> a, before |-> Active, after |-> a]
  BY <1>1, MoveOutFacts
<1>16. PICK out : out = MoveOut(Gateway)
  OBVIOUS
<1>17. PICK back : back = MoveBack(tx)
  OBVIOUS
<1>18. PICK us : us = out \o back
  OBVIOUS
<1>19. /\ back \in Seq(RefUpdate)
       /\ \/ Len(back) = 0
          \/ /\ Len(back) = 1 /\ Who \in Managed /\ refs[Who] = Active
             /\ back[1] = [id |-> Who, before |-> Active, after |-> Active]
  BY <1>1, <1>2, <1>17, MoveBackFacts
<1>20. Len(out) = 1 => /\ out[1].id \in Managed /\ refs[out[1].id] = Active
                       /\ out[1].before = Active /\ out[1].after = out[1].id
  BY <1>15, <1>16
<1>21. Len(back) = 1 => /\ Who \in Managed /\ back[1].id = Who /\ refs[Who] = Active
                        /\ back[1].before = Active /\ back[1].after = Active
  BY <1>19
<1>22. out \in Seq(RefUpdate) /\ Len(out) <= 1 /\ Len(back) <= 1
  <2>1. out \in Seq(RefUpdate) /\ Len(out) <= 1
    BY <1>15, <1>16
  <2>2. 0 <= 1 /\ 1 <= 1
    OBVIOUS
  <2> QED
    BY <1>19, <2>1, <2>2
<1>23. /\ us \in Seq(RefUpdate)
       /\ \A i \in DOMAIN us : \/ i = 1 /\ Len(out) = 1 /\ us[i] = out[1]
                               \/ i = Len(out) + 1 /\ Len(back) = 1 /\ us[i] = back[1]
       /\ Len(out) = 1 => 1 \in DOMAIN us /\ us[1] = out[1]
       /\ Len(back) = 1 => Len(out) + 1 \in DOMAIN us /\ us[Len(out) + 1] = back[1]
  BY <1>18, <1>19, <1>22, JoinedFacts
<1>24. RefsSound(us) /\ \A i \in DOMAIN us : us[i].before = refs[us[i].id]
  <2>1. Len(out) = 1 => out[1].before = refs[out[1].id] /\ out[1].after # Active
    BY <1>4, <1>20
  <2>2. Len(back) = 1 => back[1].before = refs[back[1].id] /\ back[1].before = Active /\ back[1].after = Active
    BY <1>21
  <2> QED
    BY <1>18, <1>19, <1>22, <2>1, <2>2, JoinedSound
<1>25. ASSUME NEW a \in Managed, refs[a] = Active
       PROVE  Len(out) = 1 /\ 1 \in DOMAIN us /\ us[1] = out[1] /\ us[1].id = a
  <2>1. a \in Outgoing(Gateway)
    BY <1>4, <1>25 DEF Outgoing
  <2>2. Len(out) = 1
    BY <1>15, <1>16, <2>1
  <2>3. out[1].id = a
    BY <1>1, <1>2, <1>20, <1>25, <2>2, Occupied
  <2> QED
    BY <1>23, <2>2, <2>3
<1>26. ASSUME \A i, j \in DOMAIN us : us[i].id = us[j].id => i = j
       PROVE  Len(back) = 0
  <2> SUFFICES ASSUME Len(back) # 0
               PROVE  FALSE
    OBVIOUS
  <2>1. Len(back) = 1 /\ Who \in Managed /\ back[1].id = Who /\ refs[Who] = Active
    BY <1>19, <1>21
  <2>2. Len(out) = 1 /\ 1 \in DOMAIN us /\ us[1].id = Who
    BY <1>25, <2>1
  <2>3. 2 \in DOMAIN us /\ us[2].id = Who
    BY <1>23, <2>1, <2>2
  <2> QED
    BY <1>26, <2>2, <2>3
<1>27. ASSUME \A i, j \in DOMAIN us : us[i].id = us[j].id => i = j, NEW a \in Managed
       PROVE  /\ \A i \in DOMAIN us : us[i].id = a => us[i].after = HomesFor(Absent)[a]
              /\ (\A i \in DOMAIN us : us[i].id # a) => refs[a] = HomesFor(Absent)[a]
  <2>1. HomesFor(Absent)[a] = a
    BY <1>4 DEF HomesFor
  <2>2. Len(back) = 0
    BY <1>26, <1>27
  <2>3. ASSUME NEW i \in DOMAIN us
        PROVE  us[i].after = us[i].id
    <3>1. Len(out) = 1 /\ us[i] = out[1]
      BY <1>23, <2>2
    <3> QED
      BY <1>20, <3>1
  <2>4. ASSUME \A i \in DOMAIN us : us[i].id # a
        PROVE  refs[a] = a
    <3>1. refs[a] # Active
      BY <1>25, <2>4
    <3>2. refs[a] \in {a, Active}
      BY <1>1, <1>2, Occupied
    <3> QED
      BY <3>1, <3>2
  <2> QED
    BY <2>1, <2>3, <2>4
<1>28. Start(post, us)
  BY <1>7, <1>9, <1>11, <1>16, <1>17, <1>18 DEF PrepareRollback
<1>29. keeps' \in BOOLEAN
  BY <1>3
<1>30. Absent = IF post[Binding] = Absent THEN Absent ELSE post[Binding].who
  BY <1>13
<1>31. stage \in {"prepare", "restore"}
  BY <1>2
<1>32. UNCHANGED <<disk, goal, stamp, todo, step, tries, unlocked, owed, world>>
  BY <1>3
<1>33. post[Binding] # Absent =>
         /\ post[Binding].op = FreeOp /\ post[Binding].config = post[Config]
         /\ \A i \in DOMAIN us : us[i].after = Active => us[i].id = post[Binding].who
  BY <1>13
<1> QED
  BY <1>2, <1>13, <1>14, <1>23, <1>24, <1>27, <1>28, <1>29, <1>30, <1>31, <1>32, <1>33, StartStep

\* With no transaction pending, nothing the rollback needs to know can change
\* before it begins.
LEMMA BeginRollbackStep ==
  ASSUME SwitchInv, ~RollbackWhilePending, BeginRollback
  PROVE  SwitchInv' /\ ChoiceStays
<1>1. TypeOK /\ DiskSound /\ WorkSound
  BY DEF SwitchInv
<1>2. /\ stage = "idle" /\ Pending = {} /\ Bound /\ stage' = "restore" /\ goal' = Gateway
      /\ UNCHANGED <<disk, todo, step, tries, keeps, unlocked, owed, disturbed>>
  BY DEF BeginRollback, Idle
<1>3. PICK t : t = txs[store[Binding].op]
  OBVIOUS
<1>4. PICK old : old = t.changes[Grant(Active)].before
  OBVIOUS
<1>5. /\ t # NoTx /\ t.committed /\ tx' = t
      /\ t.changes[Binding].before = Absent
      /\ \A i \in DOMAIN t.refs : t.refs[i].before = Active => t.refs[i].after = Active
      /\ \/ stamp' = Absent /\ UNCHANGED world
         \/ Activates(t) /\ stamp' = old /\ UNCHANGED world
         \/ /\ Activates(t) /\ stamp' = [old EXCEPT !.gen = @ + 1]
            /\ latest' = [latest EXCEPT ![old.acct] = @ + 1]
            /\ forfeited' = forfeited \cup {old.acct}
  BY <1>3, <1>4 DEF BeginRollback
<1>6. Rooted(store[Binding]) /\ store[Binding] # Absent
  BY <1>1, <1>2, NonePending DEF DiskSound, ChoiceSound, Bound
<1>7. /\ store[Binding].op \in Ops /\ Typed(t) /\ TxSound(t) /\ t.op = store[Binding].op
  BY <1>1, <1>3, <1>5, <1>6 DEF Rooted, DiskSound, FilesSound, TypeOK
<1>8. DiskSound' /\ ChoiceStays
  BY <1>1, <1>2, DiskSame
<1>9. store' = store /\ refs' = refs /\ txs' = txs
  BY <1>2 DEF disk
<1>10. Activates(t) => old \in Grants
  <2>1. Grant(Active) \in Covers(t) /\ Content(Grant(Active)) = Grants \cup {Absent}
    BY <1>7, ResourceFacts DEF TxSound
  <2>2. old \in Grants \cup {Absent}
    BY <1>4, <1>7, <2>1, TypedFacts DEF Before
  <2> QED
    BY <1>4, <2>2 DEF Activates
<1>11. stamp' \in Grants \cup {Absent}
  <2>1. CASE stamp' = Absent
    BY <2>1
  <2>2. CASE Activates(t) /\ stamp' = old
    BY <1>10, <2>2
  <2>3. CASE Activates(t) /\ stamp' = [old EXCEPT !.gen = @ + 1]
    BY <1>10, <2>3 DEF Grants
  <2> QED
    BY <1>5, <2>1, <2>2, <2>3
<1>12. latest' \in [Accounts -> Nat] /\ forfeited' \subseteq Accounts
  <2>1. CASE UNCHANGED world
    BY <1>1, <2>1 DEF TypeOK, world
  <2>2. CASE Activates(t) /\ latest' = [latest EXCEPT ![old.acct] = @ + 1]
             /\ forfeited' = forfeited \cup {old.acct}
    <3>1. old.acct \in Accounts
      BY <1>10, <2>2 DEF Grants
    <3> QED
      BY <1>1, <2>2, <3>1 DEF TypeOK
  <2> QED
    BY <1>5, <2>1, <2>2
<1>13. TypeOK'
  <2>1. (tx # NoTx => Typed(tx))'
    BY <1>5, <1>7 DEF Typed, Covers
  <2>2. /\ txs' \in [Ops -> Transaction \cup {NoTx}]
        /\ \A q \in Ops : txs'[q] # NoTx => Typed(txs'[q])
    BY <1>1, <1>9 DEF TypeOK
  <2>3. goal' \in Managed \cup {Gateway, Absent}
    BY <1>2
  <2> QED
    BY <1>1, <1>2, <1>9, <1>11, <1>12, <2>1, <2>2, <2>3 DEF TypeOK
<1>14. RollbackSound'
  BY <1>2, <1>3, <1>5, <1>7, <1>9 DEF RollbackSound, Bound, Before
<1>15. Progress' /\ ReadSound'
  BY <1>2 DEF Progress, ReadSound
<1>16. WorkSound'
  <2>1. Pending' = {} /\ step' = 0
    BY <1>1, <1>2, <1>9 DEF Pending, WorkSound
  <2> QED
    BY <1>2, <1>14, <1>15, <2>1 DEF WorkSound, Early, Applying, Undoing
<1> QED
  BY <1>8, <1>13, <1>15, <1>16 DEF SwitchInv

-----------------------------------------------------------------------------
(* The target is renewed *)

LEMMA RenewStep ==
  ASSUME SwitchInv, Renew
  PROVE  SwitchInv' /\ ChoiceStays
<1>1. TypeOK /\ DiskSound /\ WorkSound
  BY DEF SwitchInv
<1>2. /\ stage = "renew" /\ stage' = "prepare" /\ Pending = {} /\ goal \in Managed
      /\ step = 0
      /\ UNCHANGED <<refs, txs, goal, stamp, tx, todo, step, tries, keeps,
                     unlocked, owed, forfeited>>
  BY <1>1 DEF Renew, WorkSound, Early
<1>3. refs[goal] \in Homes /\ goal \in Accounts /\ Identity(refs[goal]) = goal
  BY <1>1, <1>2 DEF TypeOK, Renew, Accounts
<1>4. /\ store' \in [Resources -> Contents] /\ \A r \in Resources : store'[r] \in Content(r)
      /\ latest' \in [Accounts -> Nat] /\ disturbed' \subseteq Ops
      /\ DiskSound' /\ ChoiceStays
  <2>1. CASE UNCHANGED <<store, latest, disturbed>>
    <3>1. UNCHANGED disk
      BY <1>2, <2>1 DEF disk
    <3>2. DiskSound' /\ ChoiceStays
      BY <1>1, <1>2, <3>1, DiskSame
    <3> QED
      BY <1>1, <2>1, <3>2 DEF TypeOK
  <2>2. CASE Rotated(refs[goal]) /\ Disturb({Grant(refs[goal])})
    <3>1. store[Grant(refs[goal])] # Absent
      BY <1>1, <1>3, IdentityFacts, NothingIsSomething
    <3>2. /\ store' \in [Resources -> Contents] /\ \A r \in Resources : store'[r] \in Content(r)
          /\ \A r \in Resources \ {Grant(refs[goal])} : store'[r] = store[r]
          /\ latest' \in [Accounts -> Nat]
          /\ {Grant(refs[goal])} \in SUBSET Resources /\ Binding \notin {Grant(refs[goal])}
      BY <1>1, <1>3, <2>2, <3>1, RotatedFacts
    <3>3. disturbed' = disturbed
      BY <1>2, <2>2 DEF Disturb
    <3>4. DiskSound' /\ ChoiceStays
      BY <1>1, <1>2, <3>2, <3>3, DiskForeign
    <3> QED
      BY <1>1, <3>2, <3>3, <3>4 DEF TypeOK
  <2> QED
    BY <2>1, <2>2 DEF Renew
<1>5. TypeOK'
  BY <1>1, <1>2, <1>4 DEF TypeOK
<1>6. Progress' /\ ReadSound'
  BY <1>2 DEF Progress, ReadSound
<1>7. goal' # Absent /\ Pending' = {}
  BY <1>2, SwitchConstants DEF Pending, Accounts
<1>8. WorkSound'
  BY <1>2, <1>6, <1>7 DEF WorkSound, Early, Applying, Undoing
<1> QED
  BY <1>4, <1>5, <1>6, <1>8 DEF SwitchInv

-----------------------------------------------------------------------------
(* The transaction is applied *)

LEMMA WorkTyped ==
  ASSUME TypeOK, Quiet, store' \in [Resources -> Contents],
         \A r \in Resources : store'[r] \in Content(r), refs' \in [Managed -> Homes],
         txs' \in [Ops -> Transaction \cup {NoTx}],
         \A op \in Ops : txs'[op] # NoTx => Typed(txs'[op]),
         UNCHANGED <<goal, tx, keeps>>, stage' # "restore",
         todo' \subseteq Resources, step' \in Nat, tries' \in 0 .. 2
  PROVE  TypeOK'
<1>1. (tx # NoTx => Typed(tx))'
  BY DEF TypeOK, Typed, Covers
<1> QED
  BY <1>1 DEF TypeOK, Quiet

\* The work goes on with the same transaction.
LEMMA GoesOn ==
  ASSUME WorkSound, stage \in {"save"} \cup Applying \cup Undoing, stage' \in Applying \cup Undoing,
         tx' = tx, tx # NoTx, txs'[tx.op] = tx, ~tx.committed,
         stage' = "check" => step' = 0,
         stage' \in {"write", "put", "unrefs"} => step' <= Len(tx.refs),
         stage' \in Applying => Leads(tx)', Progress'
  PROVE  WorkSound'
BY DEF WorkSound, Early, Applying, Undoing

LEMMA LeadsStays ==
  ASSUME Leads(tx), tx' = tx, \A a \in Managed : (\A i \in DOMAIN tx.refs : tx.refs[i].id # a) => refs'[a] = refs[a]
  PROVE  Leads(tx)'
BY DEF Leads, Aim, After, HomesFor

LEMMA SaveStep ==
  ASSUME SwitchInv, Save
  PROVE  SwitchInv' /\ ChoiceStays
<1>1. TypeOK /\ DiskSound /\ WorkSound
  BY DEF SwitchInv
<1>2. /\ stage = "save" /\ stage' = "check" /\ txs' = [txs EXCEPT ![tx.op] = tx]
      /\ UNCHANGED <<store, refs, goal, stamp, tx, todo, step, tries, keeps>> /\ Quiet
  BY DEF Save
<1>3. SaveSound /\ tx # NoTx /\ ~tx.committed /\ store[Binding] = Before(tx, Binding) /\ step = 0 /\ Leads(tx)
  BY <1>1, <1>2 DEF WorkSound, SaveSound, Early
<1>4. disturbed' = disturbed
  BY <1>2 DEF Quiet
<1>5. /\ DiskSound' /\ ChoiceStays /\ txs' \in [Ops -> Transaction \cup {NoTx}]
      /\ \A op \in Ops : txs'[op] # NoTx => Typed(txs'[op])
      /\ txs'[tx.op] = tx
  BY <1>1, <1>2, <1>4, DiskSave
<1>6. /\ store' \in [Resources -> Contents] /\ \A r \in Resources : store'[r] \in Content(r)
      /\ refs' \in [Managed -> Homes] /\ todo' \subseteq Resources /\ step' \in Nat /\ tries' \in 0 .. 2
  BY <1>1, <1>2 DEF TypeOK
<1>7. TypeOK'
  BY <1>1, <1>2, <1>5, <1>6, WorkTyped
<1>8. Progress' /\ ReadSound'
  BY <1>2, <1>3 DEF Progress, ReadSound, Before
<1>9. Leads(tx)'
  BY <1>2, <1>3, LeadsStays
<1>10. WorkSound'
  BY <1>1, <1>2, <1>3, <1>5, <1>8, <1>9, GoesOn DEF Applying
<1> QED
  BY <1>5, <1>7, <1>8, <1>10 DEF SwitchInv

\* Between two writes: a check that passes.
LEMMA CheckStep ==
  ASSUME SwitchInv, Check \/ Recheck
  PROVE  SwitchInv' /\ ChoiceStays
<1>1. TypeOK /\ DiskSound /\ WorkSound /\ keeps \in BOOLEAN
  BY DEF SwitchInv, TypeOK
<1>2. UNCHANGED disk /\ Quiet /\ stage \in {"check", "write"}
  BY DEF Check, Recheck
<1>3. stage \in Applying \cup Undoing
  BY <1>2 DEF Applying
<1>4. CASE Undo(1, keeps)
  BY <1>1, <1>2, <1>3, <1>4, QuietSame, LeaveStep
<1>5. ASSUME stage' \in {"write", "put"}, UNCHANGED <<goal, tx, step, tries, keeps>>,
             todo' \subseteq Writes(tx), step <= Len(tx.refs), Progress', ReadSound'
      PROVE  SwitchInv' /\ ChoiceStays
  <2>1. DiskSound' /\ ChoiceStays
    BY <1>1, <1>2, QuietSame, DiskSame
  <2>2. tx # NoTx /\ Typed(tx) /\ txs[tx.op] = tx /\ ~tx.committed
    BY <1>1, <1>3, WorkPending
  <2>3. store' = store /\ refs' = refs /\ txs' = txs
    BY <1>2 DEF disk
  <2>4. todo' \subseteq Resources
    BY <1>5, <2>2, TypedFacts
  <2>5. /\ store' \in [Resources -> Contents] /\ \A r \in Resources : store'[r] \in Content(r)
        /\ refs' \in [Managed -> Homes] /\ step' \in Nat /\ tries' \in 0 .. 2
        /\ txs' \in [Ops -> Transaction \cup {NoTx}]
        /\ \A op \in Ops : txs'[op] # NoTx => Typed(txs'[op])
    BY <1>1, <1>5, <2>3 DEF TypeOK
  <2>6. TypeOK'
    BY <1>1, <1>2, <1>5, <2>4, <2>5, WorkTyped
  <2>7. Leads(tx) /\ Leads(tx)'
    <3>1. Leads(tx)
      BY <1>1, <1>2 DEF WorkSound, Applying
    <3> QED
      BY <1>5, <2>3, <3>1, LeadsStays
  <2>8. WorkSound'
    BY <1>1, <1>2, <1>3, <1>5, <2>2, <2>3, <2>7, GoesOn DEF Applying
  <2> QED
    BY <1>5, <2>1, <2>6, <2>8 DEF SwitchInv
<1>6. CASE Check /\ ~Undo(1, keeps)
  <2>1. /\ stage = "check" /\ stage' = "write" /\ todo' = Writes(tx)
        /\ UNCHANGED <<goal, stamp, tx, step, tries, keeps>>
        /\ \A r \in Covers(tx) : store[r] = tx.changes[r].before
    BY <1>6 DEF Check
  <2>2. /\ step = 0 /\ tx # NoTx /\ Typed(tx) /\ TxSound(tx)
    BY <1>1, <1>3, <2>1, WorkPending DEF WorkSound
  <2>3. step <= Len(tx.refs) /\ \A i \in 1 .. step : FALSE
    BY <2>2, TypedFacts
  <2>4. Binding \in Covers(tx)
    BY <2>2 DEF TxSound
  <2>5. store[Binding] = IF Binding \in Writes(tx) THEN Before(tx, Binding) ELSE After(tx, Binding)
    BY <2>1, <2>4 DEF Writes, Before, After
  <2>6. store' = store
    BY <1>2 DEF disk
  <2>7. Progress' /\ ReadSound'
    BY <2>1, <2>3, <2>5, <2>6 DEF Progress, ReadSound, Before, After, Writes, Covers
  <2> QED
    BY <1>5, <2>1, <2>3, <2>7
<1>7. CASE Recheck /\ ~Undo(1, keeps)
  <2>1. /\ stage = "write" /\ stage' = "put" /\ todo # {}
        /\ UNCHANGED <<goal, stamp, tx, todo, step, tries, keeps>>
        /\ store[FirstOf(todo)] = tx.changes[FirstOf(todo)].before
    BY <1>7 DEF Recheck
  <2>2. store' = store /\ refs' = refs
    BY <1>2 DEF disk
  <2>3. /\ todo \subseteq Writes(tx) /\ step <= Len(tx.refs) /\ Progress
    BY <1>1, <2>1 DEF WorkSound, Progress
  <2>4. Progress'
    BY <2>1, <2>2, <2>3 DEF Progress, Before, After, Writes, Covers
  <2>5. ReadSound'
    BY <2>1, <2>2 DEF ReadSound, Before, FirstOf
  <2> QED
    BY <1>5, <2>1, <2>3, <2>4, <2>5
<1> QED
  BY <1>4, <1>6, <1>7

\* The next resource of a transaction is one it changes.
LEMMA TodoFacts ==
  ASSUME TypeOK, WorkSound, Typed(tx), stage \in {"write", "put", "unwrite", "unput"}, todo # {}
  PROVE  /\ todo \subseteq Writes(tx) /\ todo \subseteq Covers(tx) /\ todo \subseteq Resources
         /\ FirstOf(todo) \in todo /\ LastOf(todo) \in todo
<1>1. todo \subseteq Writes(tx)
  BY DEF WorkSound, Progress
<1>2. Writes(tx) \subseteq Covers(tx) /\ Covers(tx) \subseteq Resources
  BY TypedFacts
<1>3. todo \in SUBSET Resources
  BY <1>1, <1>2
<1>4. FirstOf(todo) \in todo /\ LastOf(todo) \in todo
  BY <1>3, OrderFacts
<1> QED
  BY <1>1, <1>2, <1>4

LEMMA PutStep ==
  ASSUME SwitchInv, Put
  PROVE  SwitchInv' /\ ChoiceStays
<1>1. TypeOK /\ DiskSound /\ WorkSound
  BY DEF SwitchInv
<1>2. /\ stage = "put" /\ stage' = "write"
      /\ UNCHANGED <<refs, txs, goal, stamp, tx, step, tries, keeps>> /\ Quiet
  BY DEF Put
<1>3. stage \in Applying \cup Undoing /\ disturbed' = disturbed
  BY <1>2 DEF Applying, Quiet
<1>4. tx # NoTx /\ Typed(tx) /\ txs[tx.op] = tx /\ ~tx.committed
  BY <1>1, <1>3, WorkPending
<1>5. todo # {} /\ Progress /\ step <= Len(tx.refs) /\ Leads(tx)
  BY <1>1, <1>2 DEF WorkSound, Progress, Applying
<1>6. PICK r \in todo : r = FirstOf(todo)
  BY <1>1, <1>2, <1>4, <1>5, TodoFacts
<1>7. r \in Covers(tx) /\ todo \subseteq Writes(tx) /\ todo \subseteq Resources
  BY <1>1, <1>2, <1>4, <1>5, TodoFacts
<1>8. PICK v : v = After(tx, r)
  OBVIOUS
<1>9. store' = [store EXCEPT ![r] = v] /\ todo' = todo \ {r}
  BY <1>6, <1>8 DEF Put, After
<1>10. v \in {Before(tx, r), After(tx, r)}
  BY <1>8
<1>11. /\ DiskSound' /\ ChoiceStays
       /\ store' \in [Resources -> Contents] /\ \A q \in Resources : store'[q] \in Content(q)
       /\ store'[r] = v /\ \A q \in Resources : q # r => store'[q] = store[q]
  BY <1>1, <1>2, <1>3, <1>7, <1>9, <1>10, DiskPut
<1>12. /\ refs' \in [Managed -> Homes] /\ todo' \subseteq Resources /\ step' \in Nat /\ tries' \in 0 .. 2
       /\ txs' \in [Ops -> Transaction \cup {NoTx}]
       /\ \A op \in Ops : txs'[op] # NoTx => Typed(txs'[op])
  BY <1>1, <1>2, <1>7, <1>9 DEF TypeOK
<1>13. TypeOK'
  BY <1>1, <1>2, <1>11, <1>12, WorkTyped
<1>14. store'[Binding] = IF Binding \in todo' THEN Before(tx, Binding) ELSE After(tx, Binding)
  <2>1. CASE r = Binding
    BY <1>8, <1>9, <1>11, <2>1
  <2>2. CASE r # Binding
    <3>1. store'[Binding] = store[Binding]
      BY <1>11, <2>2, ResourceFacts
    <3>2. Binding \in todo' <=> Binding \in todo
      BY <1>9, <2>2
    <3> QED
      BY <1>2, <1>5, <3>1, <3>2 DEF Progress
  <2> QED
    BY <2>1, <2>2
<1>15. \A i \in 1 .. step : refs[tx.refs[i].id] = tx.refs[i].after
  BY <1>2, <1>5 DEF Progress
<1>16. Progress' /\ ReadSound'
  BY <1>2, <1>7, <1>9, <1>14, <1>15 DEF Progress, ReadSound, Before, After, Writes, Covers
<1>17. Leads(tx)'
  BY <1>2, <1>5, LeadsStays
<1>18. WorkSound'
  BY <1>1, <1>2, <1>3, <1>4, <1>5, <1>16, <1>17, GoesOn DEF Applying
<1> QED
  BY <1>11, <1>13, <1>16, <1>18 DEF SwitchInv

\* A write that ends with an error, or the last of an attempt at restore.
LEMMA BrokenWrite ==
  ASSUME SwitchInv, stage \in Applying \cup Undoing, Quiet,
         NEW r \in Covers(tx), NEW v \in {Before(tx, r), After(tx, r)},
         store' \in {store, [store EXCEPT ![r] = v]}, UNCHANGED <<refs, txs>>,
         Return \/ \E n \in {1, 2}, keep \in BOOLEAN : Undo(n, keep)
  PROVE  SwitchInv' /\ ChoiceStays
<1>1. TypeOK /\ DiskSound /\ WorkSound
  BY DEF SwitchInv
<1>2. disturbed' = disturbed
  BY DEF Quiet
<1>3. CASE store' = store
  <2>1. UNCHANGED disk
    BY <1>3 DEF disk
  <2> QED
    BY <1>1, <2>1, QuietSame, LeaveStep
<1>4. CASE store' = [store EXCEPT ![r] = v]
  <2>1. /\ DiskSound' /\ ChoiceStays
        /\ store' \in [Resources -> Contents] /\ \A q \in Resources : store'[q] \in Content(q)
    BY <1>1, <1>2, <1>4, DiskPut
  <2>2. /\ refs' \in [Managed -> Homes]
        /\ txs' \in [Ops -> Transaction \cup {NoTx}]
        /\ \A op \in Ops : txs'[op] # NoTx => Typed(txs'[op])
    BY <1>1 DEF TypeOK
  <2>3. CASE Return
    <3>1. /\ stage' = "idle" /\ goal' = Absent /\ tx' = NoTx
          /\ todo' = {} /\ step' = 0 /\ tries' = 0
      BY <2>3 DEF Return
    <3>2. todo' \subseteq Resources /\ step' \in Nat /\ tries' \in 0 .. 2
      BY <3>1
    <3>3. keeps' \in BOOLEAN
      BY <2>3 DEF Return
    <3>4. TypeOK'
      BY <1>1, <2>1, <2>2, <3>1, <3>2, <3>3 DEF TypeOK, Quiet
    <3>5. WorkSound' /\ ReadSound'
      BY <2>3, ReturnWork
    <3> QED
      BY <2>1, <3>4, <3>5 DEF SwitchInv
  <2>4. ASSUME NEW n \in {1, 2}, NEW keep \in BOOLEAN, Undo(n, keep)
        PROVE  SwitchInv'
    <3>1. /\ stage' = "undo" /\ tries' = n /\ todo' = {} /\ step' = 0 /\ keeps' = keep
          /\ UNCHANGED <<goal, stamp, tx>>
      BY <2>4 DEF Undo
    <3>2. todo' \subseteq Resources /\ step' \in Nat /\ tries' \in 0 .. 2
      BY <3>1
    <3>3. (tx # NoTx => Typed(tx))'
      BY <1>1, <3>1 DEF TypeOK, Typed, Covers
    <3>4. keeps' \in BOOLEAN
      BY <3>1
    <3>5. TypeOK'
      BY <1>1, <2>1, <2>2, <3>1, <3>2, <3>3, <3>4 DEF TypeOK, Quiet
    <3>6. WorkSound' /\ ReadSound'
      BY <1>1, <2>4, UndoWork
    <3> QED
      BY <2>1, <3>5, <3>6 DEF SwitchInv
  <2> QED
    BY <2>1, <2>3, <2>4
<1> QED
  BY <1>3, <1>4

LEMMA PutFailsStep ==
  ASSUME SwitchInv, PutFails
  PROVE  SwitchInv' /\ ChoiceStays
<1>1. TypeOK /\ DiskSound /\ WorkSound /\ keeps \in BOOLEAN
  BY DEF SwitchInv, TypeOK
<1>2. stage = "put" /\ Undo(2, keeps) /\ UNCHANGED <<refs, txs>> /\ Quiet
  BY DEF PutFails
<1>3. stage \in Applying \cup Undoing
  BY <1>2 DEF Applying
<1>4. Typed(tx) /\ todo # {}
  BY <1>1, <1>2, <1>3, WorkPending DEF WorkSound, Progress
<1>5. PICK r \in Covers(tx) : r = FirstOf(todo)
  BY <1>1, <1>2, <1>4, TodoFacts
<1>6. PICK v : v = After(tx, r)
  OBVIOUS
<1>7. store' \in {store, [store EXCEPT ![r] = v]}
  BY <1>5, <1>6 DEF PutFails, After
<1>8. v \in {Before(tx, r), After(tx, r)} /\ 2 \in {1, 2}
  BY <1>6
<1> QED
  BY <1>1, <1>2, <1>3, <1>7, <1>8, BrokenWrite

LEMMA SetReferenceStep ==
  ASSUME SwitchInv, SetReference
  PROVE  SwitchInv' /\ ChoiceStays
<1>1. TypeOK /\ DiskSound /\ WorkSound
  BY DEF SwitchInv
<1>2. /\ stage = "write" /\ todo = {} /\ step < Len(tx.refs) /\ step' = step + 1
      /\ UNCHANGED <<store, txs, stage, goal, stamp, tx, todo, tries, keeps>> /\ Quiet
  BY DEF SetReference
<1>3. stage \in Applying \cup Undoing /\ disturbed' = disturbed
  BY <1>2 DEF Applying, Quiet
<1>4. tx # NoTx /\ Typed(tx) /\ TxSound(tx) /\ txs[tx.op] = tx /\ ~tx.committed
  BY <1>1, <1>3, WorkPending
<1>5. Progress /\ Leads(tx) /\ step \in Nat
  BY <1>1, <1>2 DEF WorkSound, Applying, TypeOK
<1>6. DOMAIN tx.refs = 1 .. Len(tx.refs) /\ Len(tx.refs) \in Nat
  BY <1>4, TypedFacts
<1>7. PICK i \in DOMAIN tx.refs : i = step + 1
  BY <1>2, <1>5, <1>6
<1>8. PICK h : h = tx.refs[i].after
  OBVIOUS
<1>9. h \in Homes /\ tx.refs[i].id \in Managed
  BY <1>4, <1>8, TypedFacts
<1>10. refs' = [refs EXCEPT ![tx.refs[i].id] = h]
       /\ refs[tx.refs[i].id] \in {tx.refs[i].before, tx.refs[i].after}
  BY <1>7, <1>8 DEF SetReference, Applicable
<1>11. /\ DiskSound' /\ ChoiceStays /\ refs' \in [Managed -> Homes]
       /\ refs'[tx.refs[i].id] = h
       /\ \A a \in Managed : a # tx.refs[i].id => refs'[a] = refs[a]
  BY <1>1, <1>2, <1>3, <1>9, <1>10, DiskRefs
<1>12. ASSUME NEW j \in 1 .. step'
       PROVE  refs'[tx.refs[j].id] = tx.refs[j].after
  <2>1. CASE j = i
    BY <1>8, <1>11, <2>1
  <2>2. CASE j # i
    <3>1. j \in 1 .. step /\ j \in DOMAIN tx.refs /\ j < i
      BY <1>2, <1>5, <1>6, <1>7, <1>12, <2>2
    <3>2. refs[tx.refs[j].id] = tx.refs[j].after
      BY <1>2, <1>5, <3>1 DEF Progress
    <3>3. tx.refs[j].id # tx.refs[i].id
      <4>1. tx.refs[j].id = tx.refs[i].id =>
              tx.refs[j].after \notin {tx.refs[i].before, tx.refs[i].after}
        BY <1>4, <3>1 DEF TxSound, RefsSound
      <4> QED
        BY <1>10, <3>2, <4>1
    <3>4. tx.refs[j].id \in Managed
      BY <1>4, <3>1, TypedFacts
    <3> QED
      BY <1>11, <3>2, <3>3, <3>4
  <2> QED
    BY <2>1, <2>2
<1>13. /\ store' \in [Resources -> Contents] /\ \A r \in Resources : store'[r] \in Content(r)
       /\ todo' \subseteq Resources /\ step' \in Nat /\ tries' \in 0 .. 2
       /\ txs' \in [Ops -> Transaction \cup {NoTx}]
       /\ \A op \in Ops : txs'[op] # NoTx => Typed(txs'[op])
  BY <1>1, <1>2 DEF TypeOK
<1>14. TypeOK'
  BY <1>1, <1>2, <1>11, <1>13, WorkTyped
<1>15. store[Binding] = After(tx, Binding)
  BY <1>2, <1>5 DEF Progress
<1>16. Progress' /\ ReadSound'
  BY <1>2, <1>12, <1>15 DEF Progress, ReadSound, Before, After, Writes, Covers
<1>17. Leads(tx)'
  BY <1>2, <1>5, <1>7, <1>11, LeadsStays
<1>18. WorkSound'
  <2>1. step' <= Len(tx.refs)
    BY <1>2, <1>5, <1>6
  <2> QED
    BY <1>1, <1>2, <1>3, <1>4, <1>16, <1>17, <2>1, GoesOn DEF Applying
<1> QED
  BY <1>11, <1>14, <1>16, <1>18 DEF SwitchInv

\* The choice and the homes change together, to what the transaction is for.
LEMMA CommitStep ==
  ASSUME SwitchInv, Commit
  PROVE  /\ SwitchInv' /\ Pending' = {} /\ OldBinding' = After(tx, Binding)
         /\ Aim(tx) \in Managed \cup {Gateway, Absent} /\ Home' = HomesFor(Aim(tx))
<1>1. TypeOK /\ DiskSound /\ WorkSound
  BY DEF SwitchInv
<1>2. /\ stage = "write" /\ todo = {} /\ step = Len(tx.refs)
      /\ txs' = [txs EXCEPT ![tx.op] = Committed(tx)] /\ Return
      /\ UNCHANGED <<store, refs, unlocked, owed, latest>>
      /\ disturbed' \subseteq disturbed /\ forfeited' \subseteq forfeited
  BY DEF Commit
<1>3. /\ DiskSound' /\ txs' \in [Ops -> Transaction \cup {NoTx}]
      /\ \A op \in Ops : txs'[op] # NoTx => Typed(txs'[op])
      /\ Pending' = {} /\ OldBinding' = After(tx, Binding)
      /\ Aim(tx) \in Managed \cup {Gateway, Absent} /\ Home' = HomesFor(Aim(tx))
  BY <1>1, <1>2, DiskCommit
<1>4. WorkSound' /\ ReadSound'
  BY <1>2, ReturnWork
<1>5. TypeOK'
  <2>1. /\ stage' = "idle" /\ goal' = Absent /\ tx' = NoTx
        /\ todo' = {} /\ step' = 0 /\ tries' = 0
    BY <1>2 DEF Return
  <2>2. todo' \subseteq Resources /\ step' \in Nat /\ tries' \in 0 .. 2
    BY <2>1
  <2>3. keeps' \in BOOLEAN
    BY <1>2 DEF Return
  <2>4. disturbed' \subseteq Ops /\ forfeited' \subseteq Accounts
    BY <1>1, <1>2 DEF TypeOK
  <2> QED
    BY <1>1, <1>2, <1>3, <2>1, <2>2, <2>3, <2>4 DEF TypeOK
<1> QED
  BY <1>3, <1>4, <1>5 DEF SwitchInv

-----------------------------------------------------------------------------
(* The transaction is restored *)

\* A step of restore that writes no file.
LEMMA RestoreGoesOn ==
  ASSUME SwitchInv, stage \in Undoing, UNCHANGED disk, Quiet,
         UNCHANGED <<goal, tx, keeps>>, tries' \in 0 .. 2,
         stage' \in {"unwrite", "unput", "unrefs"}, todo' \subseteq Writes(tx),
         step' \in Nat, stage' = "unrefs" => step' <= Len(tx.refs), Progress', ReadSound'
  PROVE  SwitchInv' /\ ChoiceStays
<1>1. TypeOK /\ DiskSound /\ WorkSound
  BY DEF SwitchInv
<1>2. DiskSound' /\ ChoiceStays
  BY <1>1, QuietSame, DiskSame
<1>3. tx # NoTx /\ Typed(tx) /\ txs[tx.op] = tx /\ ~tx.committed
  BY <1>1, WorkPending
<1>4. todo' \subseteq Resources
  BY <1>3, TypedFacts
<1>5. store' = store /\ refs' = refs /\ txs' = txs
  BY DEF disk
<1>6. /\ store' \in [Resources -> Contents] /\ \A r \in Resources : store'[r] \in Content(r)
      /\ refs' \in [Managed -> Homes]
      /\ txs' \in [Ops -> Transaction \cup {NoTx}]
      /\ \A op \in Ops : txs'[op] # NoTx => Typed(txs'[op])
  BY <1>1, <1>5 DEF TypeOK
<1>7. TypeOK'
  BY <1>1, <1>4, <1>6, WorkTyped
<1>8. WorkSound'
  BY <1>1, <1>3, <1>5, GoesOn DEF Applying, Undoing
<1> QED
  BY <1>2, <1>7, <1>8 DEF SwitchInv

LEMMA CheckImagesStep ==
  ASSUME SwitchInv, CheckImages
  PROVE  SwitchInv' /\ ChoiceStays
<1>1. TypeOK /\ DiskSound /\ WorkSound /\ step \in Nat /\ tries \in 0 .. 2
  BY DEF SwitchInv, TypeOK
<1>2. stage = "undo" /\ UNCHANGED disk /\ Quiet /\ stage \in Undoing
  BY DEF CheckImages, Undoing
<1>3. CASE Restorable(tx)
  <2>1. /\ stage' = "unwrite" /\ todo' = Writes(tx)
        /\ UNCHANGED <<goal, stamp, tx, step, tries, keeps>>
    BY <1>3 DEF CheckImages
  <2>2. store' = store
    BY <1>2 DEF disk
  <2>3. Binding \notin Writes(tx) => store[Binding] = Before(tx, Binding)
    <3>1. TxSound(tx) /\ Known(tx, Binding)
      BY <1>1, <1>2, WorkPending
    <3>2. Binding \in Covers(tx)
      BY <3>1 DEF TxSound
    <3> QED
      BY <3>1, <3>2 DEF Known, Writes, Before
  <2>4. Progress' /\ ReadSound'
    BY <2>1, <2>2, <2>3 DEF Progress, ReadSound, Before, Writes, Covers
  <2> QED
    BY <1>1, <1>2, <2>1, <2>4, RestoreGoesOn
<1>4. CASE ~Restorable(tx)
  <2>1. AttemptFails
    BY <1>4 DEF CheckImages
  <2> QED
    BY <1>1, <1>2, <2>1, AttemptLeaves, QuietSame, LeaveStep
<1> QED
  BY <1>3, <1>4

LEMMA RecheckImageStep ==
  ASSUME SwitchInv, RecheckImage
  PROVE  SwitchInv' /\ ChoiceStays
<1>1. TypeOK /\ DiskSound /\ WorkSound /\ step \in Nat /\ tries \in 0 .. 2
  BY DEF SwitchInv, TypeOK
<1>2. stage = "unwrite" /\ todo # {} /\ UNCHANGED disk /\ Quiet /\ stage \in Undoing
  BY DEF RecheckImage, Undoing
<1>3. store' = store
  BY <1>2 DEF disk
<1>4. Progress /\ todo \subseteq Writes(tx)
  BY <1>1, <1>2 DEF WorkSound, Progress
<1>5. CASE ~Known(tx, LastOf(todo))
  <2>1. AttemptFails
    BY <1>5 DEF RecheckImage
  <2> QED
    BY <1>1, <1>2, <2>1, AttemptLeaves, QuietSame, LeaveStep
<1>6. CASE Known(tx, LastOf(todo))
  <2>1. UNCHANGED <<goal, stamp, tx, step, tries, keeps>>
    BY <1>6 DEF RecheckImage
  <2>2. CASE store[LastOf(todo)] = tx.changes[LastOf(todo)].before
    <3>1. todo' = todo \ {LastOf(todo)} /\ stage' = "unwrite"
      BY <1>2, <1>6, <2>2 DEF RecheckImage
    <3>2. Binding \notin todo' => store[Binding] = Before(tx, Binding)
      <4>1. CASE Binding \in todo
        BY <2>2, <3>1, <4>1 DEF Before
      <4>2. CASE Binding \notin todo
        BY <1>2, <1>4, <4>2 DEF Progress
      <4> QED
        BY <4>1, <4>2
    <3>3. Progress' /\ ReadSound'
      BY <1>3, <1>4, <2>1, <3>1, <3>2 DEF Progress, ReadSound, Before, Writes, Covers
    <3> QED
      BY <1>1, <1>2, <1>4, <2>1, <3>1, <3>3, RestoreGoesOn
  <2>3. CASE store[LastOf(todo)] # tx.changes[LastOf(todo)].before
    <3>1. todo' = todo /\ stage' = "unput"
      BY <1>6, <2>3 DEF RecheckImage
    <3>2. Progress'
      BY <1>2, <1>3, <1>4, <2>1, <3>1 DEF Progress, Before, Writes, Covers
    <3>3. ReadSound'
      BY <1>3, <1>6, <2>1, <3>1 DEF ReadSound, Known, LastOf
    <3> QED
      BY <1>1, <1>2, <1>4, <2>1, <3>1, <3>2, <3>3, RestoreGoesOn
  <2> QED
    BY <2>2, <2>3
<1> QED
  BY <1>5, <1>6

LEMMA UnputStep ==
  ASSUME SwitchInv, Unput
  PROVE  SwitchInv' /\ ChoiceStays
<1>1. TypeOK /\ DiskSound /\ WorkSound
  BY DEF SwitchInv
<1>2. stage = "unput" /\ UNCHANGED <<refs, txs>> /\ Quiet /\ stage \in Undoing
  BY DEF Unput, Undoing
<1>3. /\ tx # NoTx /\ Typed(tx) /\ txs[tx.op] = tx /\ ~tx.committed
      /\ todo # {} /\ Progress /\ disturbed' = disturbed
  BY <1>1, <1>2, WorkPending DEF WorkSound, Progress, Quiet
<1>4. PICK r \in todo : r = LastOf(todo)
  BY <1>1, <1>2, <1>3, TodoFacts
<1>5. r \in Covers(tx) /\ todo \subseteq Writes(tx) /\ todo \subseteq Resources
  BY <1>1, <1>2, <1>3, TodoFacts
<1>6. PICK v : v = Before(tx, r)
  OBVIOUS
<1>7. store' = [store EXCEPT ![r] = v] /\ v \in {Before(tx, r), After(tx, r)}
  BY <1>4, <1>6 DEF Unput, Before
<1>8. CASE AttemptFails
  BY <1>1, <1>2, <1>5, <1>7, <1>8, AttemptLeaves, BrokenWrite
<1>9. CASE /\ todo' = todo \ {r} /\ stage' = "unwrite"
           /\ UNCHANGED <<goal, stamp, tx, step, tries, keeps>>
  <2>1. /\ DiskSound' /\ ChoiceStays
        /\ store' \in [Resources -> Contents] /\ \A q \in Resources : store'[q] \in Content(q)
        /\ store'[r] = v /\ \A q \in Resources : q # r => store'[q] = store[q]
    BY <1>1, <1>2, <1>3, <1>5, <1>7, DiskPut
  <2>2. /\ refs' \in [Managed -> Homes] /\ todo' \subseteq Resources /\ step' \in Nat /\ tries' \in 0 .. 2
        /\ txs' \in [Ops -> Transaction \cup {NoTx}]
        /\ \A op \in Ops : txs'[op] # NoTx => Typed(txs'[op])
    BY <1>1, <1>2, <1>5, <1>9 DEF TypeOK
  <2>3. TypeOK'
    BY <1>1, <1>2, <1>9, <2>1, <2>2, WorkTyped
  <2>4. Binding \notin todo' => store'[Binding] = Before(tx, Binding)
    <3>1. CASE r = Binding
      BY <1>6, <2>1, <3>1
    <3>2. CASE r # Binding
      <4>1. store'[Binding] = store[Binding]
        BY <2>1, <3>2, ResourceFacts
      <4>2. Binding \in todo' <=> Binding \in todo
        BY <1>9, <3>2
      <4> QED
        BY <1>2, <1>3, <4>1, <4>2 DEF Progress
    <3> QED
      BY <3>1, <3>2
  <2>5. Progress' /\ ReadSound'
    BY <1>5, <1>9, <2>4 DEF Progress, ReadSound, Before, Writes, Covers
  <2>6. WorkSound'
    BY <1>1, <1>2, <1>3, <1>9, <2>5, GoesOn DEF Applying, Undoing
  <2> QED
    BY <2>1, <2>3, <2>5, <2>6 DEF SwitchInv
<1> QED
  BY <1>4, <1>8, <1>9 DEF Unput

LEMMA RestoredStep ==
  ASSUME SwitchInv, Restored
  PROVE  SwitchInv' /\ ChoiceStays
<1>1. TypeOK /\ DiskSound /\ WorkSound /\ keeps \in BOOLEAN /\ tries \in 0 .. 2
  BY DEF SwitchInv, TypeOK
<1>2. stage = "unwrite" /\ todo = {} /\ UNCHANGED disk /\ Quiet /\ stage \in Undoing
  BY DEF Restored, Undoing
<1>3. CASE Undo(1, keeps)
  BY <1>1, <1>2, <1>3, QuietSame, LeaveStep
<1>4. CASE /\ stage' = "unrefs" /\ step' = 0
           /\ UNCHANGED <<goal, stamp, tx, todo, tries, keeps>>
  <2>1. store[Binding] = Before(tx, Binding) /\ store' = store
    BY <1>1, <1>2 DEF WorkSound, Progress, disk
  <2>2. Typed(tx)
    BY <1>1, <1>2, WorkPending
  <2>3. step' \in Nat /\ step' <= Len(tx.refs) /\ \A i \in 1 .. step' : FALSE
    BY <1>4, <2>2, TypedFacts
  <2>4. Progress' /\ ReadSound'
    BY <1>4, <2>1, <2>3 DEF Progress, ReadSound, Before
  <2>5. todo' \subseteq Writes(tx)
    BY <1>2, <1>4
  <2> QED
    BY <1>1, <1>2, <1>4, <2>3, <2>4, <2>5, RestoreGoesOn
<1> QED
  BY <1>3, <1>4 DEF Restored

LEMMA ResetReferenceStep ==
  ASSUME SwitchInv, ResetReference
  PROVE  SwitchInv' /\ ChoiceStays
<1>1. TypeOK /\ DiskSound /\ WorkSound
  BY DEF SwitchInv
<1>2. /\ stage = "unrefs" /\ step < Len(tx.refs) /\ UNCHANGED <<store, txs>> /\ Quiet
      /\ stage \in Undoing
  BY DEF ResetReference, Undoing
<1>3. /\ tx # NoTx /\ Typed(tx) /\ TxSound(tx) /\ txs[tx.op] = tx /\ ~tx.committed
      /\ Progress /\ step \in Nat /\ disturbed' = disturbed
  BY <1>1, <1>2, WorkPending DEF WorkSound, TypeOK, Quiet
<1>4. DOMAIN tx.refs = 1 .. Len(tx.refs) /\ Len(tx.refs) \in Nat
  BY <1>3, TypedFacts
<1>5. PICK i \in DOMAIN tx.refs : i = step + 1
  BY <1>2, <1>3, <1>4
<1>6. CASE UNCHANGED refs /\ Return
  <2>1. UNCHANGED disk
    BY <1>2, <1>6 DEF disk
  <2> QED
    BY <1>1, <1>2, <1>6, <2>1, QuietSame, LeaveStep
<1>7. CASE /\ refs' = [refs EXCEPT ![tx.refs[i].id] = tx.refs[i].before]
           /\ step' = step + 1
           /\ UNCHANGED <<stage, goal, stamp, tx, todo, tries, keeps>>
  <2>1. PICK h : h = tx.refs[i].before
    OBVIOUS
  <2>2. h \in Homes /\ tx.refs[i].id \in Managed
    BY <1>3, <2>1, TypedFacts
  <2>3. /\ DiskSound' /\ ChoiceStays /\ refs' \in [Managed -> Homes]
        /\ refs'[tx.refs[i].id] = h
        /\ \A a \in Managed : a # tx.refs[i].id => refs'[a] = refs[a]
    BY <1>1, <1>2, <1>3, <1>7, <2>1, <2>2, DiskRefs
  <2>4. ASSUME NEW j \in 1 .. step'
        PROVE  refs'[tx.refs[j].id] = tx.refs[j].before
    <3>1. CASE j = i
      BY <2>1, <2>3, <3>1
    <3>2. CASE j # i
      <4>1. j \in 1 .. step /\ j \in DOMAIN tx.refs
        BY <1>2, <1>3, <1>4, <1>5, <1>7, <2>4, <3>2
      <4>2. refs[tx.refs[j].id] = tx.refs[j].before
        BY <1>2, <1>3, <4>1 DEF Progress
      <4>3. tx.refs[j].id = tx.refs[i].id => tx.refs[j].before = h
        BY <1>3, <2>1, <4>1 DEF TxSound, RefsSound
      <4>4. tx.refs[j].id \in Managed
        BY <1>3, <4>1, TypedFacts
      <4> QED
        BY <2>3, <4>2, <4>3, <4>4
    <3> QED
      BY <3>1, <3>2
  <2>5. /\ store' \in [Resources -> Contents] /\ \A r \in Resources : store'[r] \in Content(r)
        /\ todo' \subseteq Resources /\ step' \in Nat /\ tries' \in 0 .. 2
        /\ txs' \in [Ops -> Transaction \cup {NoTx}]
        /\ \A op \in Ops : txs'[op] # NoTx => Typed(txs'[op])
    BY <1>1, <1>2, <1>7 DEF TypeOK
  <2>6. TypeOK'
    BY <1>1, <1>2, <1>7, <2>3, <2>5, WorkTyped
  <2>7. store'[Binding] = Before(tx, Binding)
    BY <1>2, <1>3 DEF Progress
  <2>8. Progress' /\ ReadSound'
    BY <1>2, <1>7, <2>4, <2>7 DEF Progress, ReadSound, Before
  <2>9. WorkSound'
    <3>1. step' <= Len(tx.refs)
      BY <1>2, <1>3, <1>4, <1>7
    <3> QED
      BY <1>1, <1>2, <1>3, <1>7, <2>8, <3>1, GoesOn DEF Applying, Undoing
  <2> QED
    BY <2>3, <2>6, <2>8, <2>9 DEF SwitchInv
<1> QED
  BY <1>5, <1>6, <1>7 DEF ResetReference

LEMMA ForgetStep ==
  ASSUME SwitchInv, Forget
  PROVE  SwitchInv' /\ ChoiceStays
<1>1. TypeOK /\ DiskSound /\ WorkSound
  BY DEF SwitchInv
<1>2. /\ stage = "unrefs" /\ step = Len(tx.refs) /\ Return
      /\ UNCHANGED <<store, refs, unlocked, world>>
  BY DEF Forget
<1>3. owed' \in BOOLEAN
  BY DEF Forget
<1>4. /\ DiskSound' /\ ChoiceStays /\ txs' \in [Ops -> Transaction \cup {NoTx}]
      /\ \A op \in Ops : txs'[op] # NoTx => Typed(txs'[op])
      /\ disturbed' \subseteq disturbed
  <2>1. CASE keeps
    <3>1. UNCHANGED disk /\ disturbed' = disturbed /\ txs' = txs
      BY <1>2, <2>1 DEF Forget, disk
    <3>2. DiskSound' /\ ChoiceStays
      BY <1>1, <3>1, DiskSame
    <3> QED
      BY <1>1, <3>1, <3>2 DEF TypeOK
  <2>2. CASE ~keeps
    <3>1. txs' = [txs EXCEPT ![tx.op] = NoTx] /\ disturbed' \subseteq disturbed
      BY <2>2 DEF Forget
    <3> QED
      BY <1>1, <1>2, <3>1, DiskForget
  <2> QED
    BY <2>1, <2>2
<1>5. WorkSound' /\ ReadSound'
  BY <1>2, ReturnWork
<1>6. TypeOK'
  <2>1. /\ stage' = "idle" /\ goal' = Absent /\ tx' = NoTx
        /\ todo' = {} /\ step' = 0 /\ tries' = 0
    BY <1>2 DEF Return
  <2>2. todo' \subseteq Resources /\ step' \in Nat /\ tries' \in 0 .. 2
    BY <2>1
  <2>3. keeps' \in BOOLEAN
    BY <1>2 DEF Return
  <2>4. disturbed' \subseteq Ops /\ latest' = latest /\ forfeited' = forfeited
    BY <1>1, <1>2, <1>4 DEF TypeOK, world
  <2> QED
    BY <1>1, <1>2, <1>3, <1>4, <2>1, <2>2, <2>3, <2>4 DEF TypeOK
<1> QED
  BY <1>4, <1>5, <1>6 DEF SwitchInv

-----------------------------------------------------------------------------
(* The invariant *)

LEMMA InitSound ==
  ASSUME Init
  PROVE  /\ SwitchInv /\ OldBinding = Absent
         /\ \E c \in Managed \cup {Absent} : Home = HomesFor(c)
<1>1. PICK who \in Accounts \cup {Absent} :
        /\ store = [r \in Resources |->
             IF r = Config THEN [mode |-> "none", user |-> 0]
             ELSE IF r = Binding THEN Absent
             ELSE LET a == IF r[1] = Active THEN who ELSE r[1] IN
                  IF a = Absent \/ r[1] = who THEN Absent
                  ELSE IF r[2] = "grant" THEN [acct |-> a, gen |-> 0]
                  ELSE [acct |-> a, rev |-> 0]]
        /\ refs = [a \in Managed |-> IF a = who THEN Active ELSE a]
        /\ latest = [a \in Accounts |-> 0]
        /\ forfeited = IF who = Original THEN {} ELSE {Original}
        /\ txs = [op \in Ops |-> NoTx]
        /\ unlocked = FALSE /\ owed = FALSE
        /\ disturbed = {}
        /\ NoWork
  BY DEF Init
<1>2. Absent \notin Managed /\ Original \notin Managed /\ Managed \subseteq Accounts /\ Original \in Accounts
  BY SwitchConstants DEF Accounts
<1>3. \A r \in Resources : store[r] \in Content(r)
  <2>1. store[Config] \in Configs
    <3>1. store[Config] = [mode |-> "none", user |-> 0]
      BY <1>1, ResourceFacts
    <3> QED
      BY <3>1 DEF Configs
  <2>2. store[Binding] = Absent
    BY <1>1, ResourceFacts
  <2>3. ASSUME NEW h \in Homes
        PROVE  store[Grant(h)] \in Grants \cup {Absent} /\ store[Profile(h)] \in Profiles \cup {Absent}
    <3>1. PICK a : a = IF h = Active THEN who ELSE h
      OBVIOUS
    <3>2. a \in Accounts \cup {Absent}
      BY <1>2, <3>1 DEF Homes
    <3>3. Grant(h)[1] = h /\ Grant(h)[2] = "grant" /\ Profile(h)[1] = h /\ Profile(h)[2] = "profile"
      BY DEF Grant, Profile
    <3>4. store[Grant(h)] = IF a = Absent \/ h = who THEN Absent ELSE [acct |-> a, gen |-> 0]
      BY <1>1, <3>1, <3>3, ResourceFacts
    <3>5. store[Profile(h)] = IF a = Absent \/ h = who THEN Absent ELSE [acct |-> a, rev |-> 0]
      <4>1. "profile" # "grant"
        OBVIOUS
      <4> QED
        BY <1>1, <3>1, <3>3, <4>1, ResourceFacts
    <3>6. a # Absent => [acct |-> a, gen |-> 0] \in Grants /\ [acct |-> a, rev |-> 0] \in Profiles
      BY <3>2 DEF Grants, Profiles
    <3> QED
      BY <3>4, <3>5, <3>6
  <2>4. ASSUME NEW r \in Resources
        PROVE  \/ r = Config \/ r = Binding
               \/ \E h \in Homes : r = Grant(h) \/ r = Profile(h)
    BY DEF Resources
  <2> QED
    BY <2>1, <2>2, <2>3, <2>4, ResourceFacts
<1>4. store \in [Resources -> Contents]
  <2>1. \A r \in Resources : store[r] \in Contents
    BY <1>3, ContentFacts
  <2>2. store = [r \in Resources |-> store[r]]
    BY <1>1
  <2> QED
    BY <2>1, <2>2
<1>5. /\ stage = "idle" /\ goal = Absent /\ tx = NoTx
      /\ todo = {} /\ step = 0 /\ tries = 0
  BY <1>1 DEF NoWork
<1>6. TypeOK
  <2>1. refs \in [Managed -> Homes]
    BY <1>1 DEF Homes
  <2>2. /\ \A op \in Ops : txs[op] # NoTx => Typed(txs[op])
        /\ txs \in [Ops -> Transaction \cup {NoTx}]
    BY <1>1
  <2>3. latest \in [Accounts -> Nat] /\ forfeited \subseteq Accounts /\ disturbed \subseteq Ops
    BY <1>1, <1>2
  <2>4. todo \subseteq Resources /\ step \in Nat /\ tries \in 0 .. 2
    BY <1>5
  <2>5. unlocked \in BOOLEAN /\ owed \in BOOLEAN /\ keeps \in BOOLEAN
    BY <1>1 DEF NoWork
  <2> QED
    BY <1>3, <1>4, <1>5, <2>1, <2>2, <2>3, <2>4, <2>5 DEF TypeOK
<1>7. Pending = {}
  BY <1>1 DEF Pending
<1>8. OldBinding = Absent /\ Home = refs
  <2>1. store[Binding] = Absent
    BY <1>1, ResourceFacts
  <2> QED
    BY <1>7, <2>1, NonePending
<1>9. \E c \in Managed \cup {Absent} : Home = HomesFor(c)
  <2>1. CASE who = Original
    <3>1. HomesFor(Absent) = refs
      BY <1>1, <1>2, <2>1 DEF HomesFor
    <3> QED
      BY <1>8, <3>1
  <2>2. CASE who # Original
    <3>1. who \in Managed \cup {Absent} /\ HomesFor(who) = refs
      BY <1>1, <2>2 DEF HomesFor, Accounts
    <3> QED
      BY <1>8, <3>1
  <2> QED
    BY <2>1, <2>2
<1>10. DiskSound
  <2>1. FilesSound
    BY <1>1 DEF FilesSound
  <2>2. PendingSound
    BY <1>7 DEF PendingSound
  <2>3. ChoiceSound
    BY <1>8, <1>9 DEF ChoiceSound, Rooted
  <2> QED
    BY <2>1, <2>2, <2>3 DEF DiskSound
<1>11. ReadSound /\ Progress
  BY <1>5 DEF ReadSound, Progress
<1>12. WorkSound
  BY <1>5, <1>11 DEF WorkSound, Early, Applying, Undoing
<1> QED
  BY <1>6, <1>8, <1>9, <1>10, <1>11, <1>12 DEF SwitchInv

LEMMA StutterSound ==
  ASSUME SwitchInv, UNCHANGED vars
  PROVE  SwitchInv' /\ ChoiceStays
<1>1. TypeOK /\ DiskSound /\ WorkSound /\ ReadSound
  BY DEF SwitchInv
<1>2. /\ store' = store /\ refs' = refs /\ txs' = txs /\ stage' = stage /\ tx' = tx /\ todo' = todo
      /\ step' = step /\ disturbed' = disturbed /\ goal' = goal
  BY DEF vars
<1>3. UNCHANGED disk
  BY <1>2 DEF disk
<1>4. DiskSound' /\ ChoiceStays
  BY <1>1, <1>2, <1>3, DiskSame
<1>5. TypeOK'
  BY <1>1 DEF TypeOK, vars, Typed, Covers
<1>6. WorkSound' /\ ReadSound'
  BY <1>1, <1>2 DEF WorkSound, ReadSound, Pending, RollbackSound, Bound, SaveSound, TxSound, Leads,
       Aim, Progress, Covers, Writes, Known, Before, After, RefsSound
<1> QED
  BY <1>4, <1>5, <1>6 DEF SwitchInv

LEMMA StepSound ==
  ASSUME SwitchInv, ~RollbackWhilePending, [Next]_vars
  PROVE  /\ SwitchInv'
         /\ \/ ChoiceStays
            \/ /\ Pending' = {} /\ OldBinding' = After(tx, Binding)
               /\ Aim(tx) \in Managed \cup {Gateway, Absent} /\ Home' = HomesFor(Aim(tx))
<1>1. CASE UNCHANGED vars
  BY <1>1, StutterSound
<1>2. CASE Outside
  BY <1>2, OutsideStep
<1>3. CASE Apply
  BY <1>3, BeginStep, RenewStep, FailureSteps, PrepareStep, BeginRollbackStep, PrepareRollbackStep,
     SaveStep, CheckStep, PutStep, PutFailsStep, SetReferenceStep, CommitStep DEF Apply
<1>4. CASE Restore
  BY <1>4, FailureSteps, CheckImagesStep, RecheckImageStep, UnputStep, RestoredStep,
     ResetReferenceStep, ForgetStep DEF Restore
<1>5. CASE Unlock \/ Lock \/ Recover \/ Crash
  BY <1>5, SessionStep, RecoverStep, FailureSteps
<1> QED
  BY <1>1, <1>2, <1>3, <1>4, <1>5 DEF Next

-----------------------------------------------------------------------------
(* Theorems *)

\* No switch, rollback or recovery breaks the invariant, wherever it is left
\* by a crash, when a first switch is not rolled back over a pending one.
THEOREM SwitchInvariant == ~RollbackWhilePending => (Spec => []SwitchInv)
<1> SUFFICES ASSUME ~RollbackWhilePending
             PROVE  Spec => []SwitchInv
  OBVIOUS
<1>1. Init => SwitchInv
  BY InitSound
<1>2. SwitchInv /\ [Next]_vars => SwitchInv'
  BY StepSound
<1> QED
  BY <1>1, <1>2, PTL DEF Spec

\* A transaction that nobody else interfered with can be restored from every
\* point at which apply_prepared, rollback or recover was left.
THEOREM RecoveryWorks == ~RollbackWhilePending => (Spec => []RecoveryNeverRefused)
<1> SUFFICES ASSUME ~RollbackWhilePending
             PROVE  Spec => []RecoveryNeverRefused
  OBVIOUS
<1>1. SwitchInv => RecoveryNeverRefused
  BY DEF SwitchInv, DiskSound, PendingSound, RecoveryNeverRefused
<1> QED
  BY <1>1, SwitchInvariant, PTL

\* The binding and the references of the accounts change together
\* (apply_prepared, rollback, recover): ToolSwitch implements AtomicSwitch.
THEOREM SwitchesAreAtomic == ~RollbackWhilePending => (Spec => IsAtomicSwitch)
<1> SUFFICES ASSUME ~RollbackWhilePending
             PROVE  Spec => IsAtomicSwitch
  OBVIOUS
<1>1. Chosen = IF OldBinding = Absent THEN Absent ELSE OldBinding.who
  BY DEF Chosen, OldBinding, Before
<1>2. Chosen' = IF OldBinding' = Absent THEN Absent ELSE OldBinding'.who
  BY DEF Chosen, OldBinding, Before
<1>3. Init => Atomic!Init
  <2> SUFFICES ASSUME Init
               PROVE  Atomic!Init
    OBVIOUS
  <2>1. OldBinding = Absent /\ \E c \in Managed \cup {Absent} : Home = HomesFor(c)
    BY InitSound
  <2> QED
    BY <1>1, <2>1 DEF Atomic!Init, Atomic!Settled, HomesFor
<1>4. SwitchInv /\ [Next]_vars => [Atomic!Next]_Atomic!vars
  <2> SUFFICES ASSUME SwitchInv, [Next]_vars
               PROVE  [Atomic!Next]_Atomic!vars
    OBVIOUS
  <2>1. CASE ChoiceStays
    BY <1>1, <1>2, <2>1 DEF ChoiceStays, Atomic!vars
  <2>2. CASE /\ OldBinding' = After(tx, Binding)
             /\ Aim(tx) \in Managed \cup {Gateway, Absent} /\ Home' = HomesFor(Aim(tx))
    <3>1. Chosen' = Aim(tx)
      BY <1>2, <2>2 DEF Aim
    <3> QED
      BY <2>2, <3>1 DEF Atomic!Next, Atomic!Switch, Atomic!Settled, HomesFor
  <2> QED
    BY <2>1, <2>2, StepSound
<1> QED
  BY <1>3, <1>4, SwitchInvariant, PTL DEF Spec, IsAtomicSwitch, Atomic!Spec

\* When no one writes between a check and the write it guards, only the user
\* changes what the user wrote.
LEMMA EditsStay ==
  ASSUME SwitchInv, ~Racing, [Next]_vars
  PROVE  store'[Config].user >= store[Config].user
<1>1. TypeOK /\ DiskSound /\ WorkSound /\ ReadSound
  BY DEF SwitchInv
<1>2. store[Config] \in Configs /\ store[Config].user \in Nat /\ Config \in Resources
  <2>1. store[Config] \in Configs /\ Config \in Resources
    BY <1>1, ResourceFacts DEF TypeOK
  <2> QED
    BY <2>1 DEF Configs
<1>3. CASE store'[Config] = store[Config]
  BY <1>2, <1>3
<1>4. CASE UserEdits
  <2>1. store'[Config] = [store[Config] EXCEPT !.user = @ + 1]
    BY <1>1, <1>2, <1>4 DEF UserEdits, TypeOK
  <2>2. store'[Config].user = store[Config].user + 1
    BY <1>2, <2>1 DEF Configs
  <2> QED
    BY <1>2, <2>2
<1>5. ASSUME NEW h \in Homes, Rotated(h)
      PROVE  store'[Config] = store[Config]
  BY <1>1, <1>2, <1>5, ResourceFacts DEF Rotated, TypeOK
<1>6. CASE CliRotates \/ ProxyRenews \/ Renew
  <2>1. store' = store \/ \E h \in Homes : Rotated(h)
    <3>1. CASE CliRotates
      BY <3>1, ResourceFacts DEF CliRotates
    <3>2. CASE ProxyRenews
      BY <1>1, <3>2 DEF ProxyRenews, TypeOK
    <3>3. CASE Renew
      <4>1. goal \in Managed
        BY <1>1, <3>3 DEF Renew, WorkSound
      <4> QED
        BY <1>1, <3>3, <4>1 DEF Renew, TypeOK
    <3> QED
      BY <1>6, <3>1, <3>2, <3>3
  <2> QED
    BY <1>3, <1>5, <2>1
<1>7. CASE CliLogin
  <2>1. store'[Config] = store[Config]
    BY <1>1, <1>2, <1>7, ResourceFacts DEF CliLogin, TypeOK
  <2> QED
    BY <1>3, <2>1
<1>8. CASE Put \/ PutFails \/ Unput
  <2>1. stage \in Applying \cup Undoing /\ stage \in {"put", "unput"}
    BY <1>8 DEF Put, PutFails, Unput, Applying, Undoing
  <2>2. Typed(tx) /\ TxSound(tx) /\ todo # {}
    BY <1>1, <2>1, WorkPending DEF WorkSound, Progress
  <2>3. PICK r \in Covers(tx) :
          /\ \E v \in {Before(tx, r), After(tx, r)} : store' \in {store, [store EXCEPT ![r] = v]}
          /\ store[r] \in {Before(tx, r), After(tx, r)}
    <3>1. CASE Put \/ PutFails
      <4>1. PICK r : r = FirstOf(todo)
        OBVIOUS
      <4>2. stage = "put"
        BY <3>1 DEF Put, PutFails
      <4>3. r \in Covers(tx)
        BY <1>1, <2>2, <4>1, <4>2, TodoFacts
      <4>4. store[r] = Before(tx, r)
        BY <1>1, <4>1, <4>2 DEF ReadSound
      <4>5. store' \in {store, [store EXCEPT ![r] = After(tx, r)]}
        BY <3>1, <4>1 DEF Put, PutFails, After
      <4> QED
        BY <4>3, <4>4, <4>5
    <3>2. CASE Unput
      <4>1. PICK r : r = LastOf(todo)
        OBVIOUS
      <4>2. stage = "unput"
        BY <3>2 DEF Unput
      <4>3. r \in Covers(tx)
        BY <1>1, <2>2, <4>1, <4>2, TodoFacts
      <4>4. store[r] \in {Before(tx, r), After(tx, r)}
        BY <1>1, <4>1, <4>2 DEF ReadSound, Known, Before, After
      <4>5. store' = [store EXCEPT ![r] = Before(tx, r)]
        BY <3>2, <4>1 DEF Unput, Before
      <4> QED
        BY <4>3, <4>4, <4>5
    <3> QED
      BY <1>8, <3>1, <3>2
  <2>4. PICK v \in {Before(tx, r), After(tx, r)} : store' \in {store, [store EXCEPT ![r] = v]}
    BY <2>3
  <2>5. CASE r = Config
    <3>1. v.user = store[Config].user
      BY <2>2, <2>3, <2>4, <2>5 DEF TxSound
    <3>2. store'[Config] \in {store[Config], v}
      BY <1>1, <1>2, <2>4, <2>5 DEF TypeOK
    <3>3. store'[Config].user = store[Config].user
      BY <3>1, <3>2
    <3> QED
      BY <1>2, <3>3
  <2>6. CASE r # Config
    <3>1. store'[Config] = store[Config]
      BY <1>1, <1>2, <2>4, <2>6 DEF TypeOK
    <3> QED
      BY <1>3, <3>1
  <2> QED
    BY <2>5, <2>6
<1>9. CASE store' = store
  BY <1>3, <1>9
<1>10. CASE Outside
  BY <1>4, <1>6, <1>7, <1>10 DEF Outside
<1>11. CASE Apply /\ ~(Put \/ PutFails \/ Renew)
  <2>1. store' = store
    BY <1>11 DEF Apply, disk, BeginSwitch, BeginProxy, Refuse, Prepare, BeginRollback, PrepareRollback,
         Save, Check, Recheck, SetReference, SetReferenceFails, Commit, CommitFails
  <2> QED
    BY <1>9, <2>1
<1>12. CASE Restore /\ ~Unput
  <2>1. store' = store
    BY <1>12 DEF Restore, disk, CheckImages, RecheckImage, UnputFails, Restored, ResetReference,
         Forget, ForgetFails
  <2> QED
    BY <1>9, <2>1
<1>13. CASE Unlock \/ Recover \/ Lock \/ Crash
  <2>1. store' = store
    BY <1>13 DEF disk, Unlock, Recover, Lock, Crash
  <2> QED
    BY <1>9, <2>1
<1>14. CASE UNCHANGED vars
  BY <1>9, <1>14 DEF vars
<1> QED
  BY <1>6, <1>8, <1>10, <1>11, <1>12, <1>13, <1>14 DEF Next

\* No step of a switch, a rollback or a recovery undoes what the user wrote
\* (apply_with and restore_with check a resource right before they write it).
THEOREM EditsAreKept == ~RollbackWhilePending /\ ~Racing => (Spec => UserEditsKept)
<1> SUFFICES ASSUME ~RollbackWhilePending, ~Racing
             PROVE  Spec => UserEditsKept
  OBVIOUS
<1>1. SwitchInv /\ [Next]_vars => [store'[Config].user >= store[Config].user]_vars
  BY EditsStay
<1> QED
  BY <1>1, SwitchInvariant, PTL DEF Spec, UserEditsKept

-----------------------------------------------------------------------------
(* The login grants *)

GrantAt == Grant(Active)
ProfileAt == Profile(Active)

Whose(v) == IF v = Absent THEN Absent ELSE v.acct

\* Grant and profile of a home are one account's.
Paired(h) == Whose(store[Grant(h)]) = Whose(store[Profile(h)])

ByGateway(b) == b # Absent /\ b.who = Gateway

\* A switch under way, and one that is taken back.
Forward == {"save"} \cup Applying
Backward == {"unwrite", "unput", "unrefs"}

Saving == IF stage = "save" THEN {tx} ELSE {}

\* Every transaction, and those that are not settled.
Files == {txs[op] : op \in {o \in Ops : txs[o] # NoTx}} \cup Saving
Open == {txs[op] : op \in Pending} \cup Saving

\* The transaction archives a's grant in a's own home.
Archives(t, a) == Grant(a) \in Covers(t)

\* It says where the account's grant was or will be.
Leaves(t, a) == \E i \in DOMAIN t.refs : t.refs[i].id = a /\ t.refs[i].before = Active
Arrives(t, a) == \E i \in DOMAIN t.refs : t.refs[i].id = a /\ t.refs[i].after = Active

-----------------------------------------------------------------------------
(* Images *)

\* Images are of whole stores; only the outgoing account's home is written,
\* with what the active home holds; the account at the active home is the one
\* whose reference leads there, or a gateway was chosen.
StoresSound(t) ==
  \A h \in Homes :
    /\ Grant(h) \in Covers(t) <=> Profile(h) \in Covers(t)
    /\ Grant(h) \in Covers(t) =>
         /\ Whose(Before(t, Grant(h))) = Whose(Before(t, Profile(h)))
         /\ Whose(After(t, Grant(h))) = Whose(After(t, Profile(h)))

ArchiveSound(t) ==
  \A a \in Managed : Archives(t, a) =>
    /\ Whose(Before(t, Grant(a))) \in {a, Absent}
    /\ After(t, Grant(a)) = Before(t, GrantAt) /\ Whose(After(t, Grant(a))) = a
    /\ \E i \in DOMAIN t.refs :
         t.refs[i].id = a /\ t.refs[i].before = Active /\ t.refs[i].after = a

MovesSound(t) ==
  /\ \A i \in DOMAIN t.refs :
       /\ t.refs[i].after \in {t.refs[i].id, Active}
       /\ t.refs[i].before = Active /\ t.refs[i].after # Active => Archives(t, t.refs[i].id)
  /\ \A i, j \in DOMAIN t.refs :
       t.refs[i].before = Active /\ t.refs[j].before = Active => t.refs[i].id = t.refs[j].id
  /\ \A i \in DOMAIN t.refs :
       /\ t.refs[i].before = Active /\ t.refs[i].after = Active
       /\ ~Archives(t, t.refs[i].id)
       => Before(t, GrantAt) = After(t, GrantAt) /\ Before(t, ProfileAt) = After(t, ProfileAt)

GatewaySound(t) ==
  /\ \A a \in Managed :
       /\ Whose(Before(t, GrantAt)) = a => Leaves(t, a) \/ ByGateway(Before(t, Binding))
       /\ Whose(After(t, GrantAt)) = a => Arrives(t, a) \/ ByGateway(After(t, Binding))
  /\ ByGateway(Before(t, Binding)) =>
       /\ Before(t, Config).mode = "gateway"
       /\ Whose(Before(t, GrantAt)) \in Managed =>
            Before(t, Binding).native = <<Before(t, GrantAt), Before(t, ProfileAt)>>
  /\ ByGateway(After(t, Binding)) =>
       /\ After(t, Config).mode = "gateway"
       /\ After(t, Binding).native = <<After(t, GrantAt), After(t, ProfileAt)>>

ImageSound(t) == StoresSound(t) /\ ArchiveSound(t) /\ MovesSound(t) /\ GatewaySound(t)

ImagesSound == \A t \in Files : ImageSound(t)

\* Nothing is newer than the vendor's record.
Dated(v) == v # Absent => v.gen <= latest[v.acct]
Signed(v) == v # Absent => v.rev <= latest[Original]

FreshImages(t) ==
  \A h \in Homes : Grant(h) \in Covers(t) =>
    /\ Dated(Before(t, Grant(h))) /\ Dated(After(t, Grant(h)))
    /\ Signed(Before(t, Profile(h))) /\ Signed(After(t, Profile(h)))

Fresh ==
  /\ \A h \in Homes : Dated(store[Grant(h)]) /\ Signed(store[Profile(h)])
  /\ \A t \in Files : FreshImages(t)

-----------------------------------------------------------------------------
(* Where the grants are *)

\* A home holds grants of its own account only, and a whole store unless a
\* transaction is about to change it.
HomesSound ==
  \A a \in Managed :
    /\ Whose(store[Grant(a)]) \in {a, Absent}
    /\ (\A op \in Pending : ~Archives(txs[op], a)) => Paired(a)

Mismatch == ByGateway(store[Binding]) /\ store[Binding].native # Native

\* An account whose reference leads to the active home has its grant there, or
\* at its own home if somebody else signed in.
AtActive(a) ==
  \/ store[GrantAt] = Live(a)
  \/ Whose(store[GrantAt]) = Original /\ store[Grant(a)] = Live(a)

\* Any other account has it at its own home, unless the tool renewed a copy
\* while the switch to a gateway was written, which shows as a conflict.
AtHome(a) ==
  \/ store[Grant(a)] = Live(a)
  \/ store[GrantAt] = Live(a) /\ Mismatch

Placed ==
  Pending = {} =>
    /\ Paired(Active)
    /\ \A a \in Managed : Whose(store[GrantAt]) = a => Home[a] = Active \/ ByGateway(store[Binding])
    /\ ByGateway(store[Binding]) => store[Config].mode = "gateway"
    /\ \A a \in Managed \ forfeited : IF Home[a] = Active THEN AtActive(a) ELSE AtHome(a)

Kept == \A a \in Managed \ forfeited : Live(a) \in {store[GrantAt], store[Grant(a)]}

\* Unless the tool was switched before, the account at the active home has
\* nothing in its own.
Unswitched ==
  OldBinding = Absent => \A a \in Managed : Home[a] = Active =>
    /\ (\A op \in Pending : ~Archives(txs[op], a)) => store[Grant(a)] = Absent
    /\ \A op \in Pending : Archives(txs[op], a) => Before(txs[op], Grant(a)) = Absent

-----------------------------------------------------------------------------
(* Transactions that are not settled *)

\* Of a's grants, v is no newer than w.
NoNewer(v, a, w) == Whose(v) = a => w # Absent /\ v.gen <= w.gen

\* No image of an account's grant is newer than what the active home held, if
\* the account is archived, or than what its own home holds; an account that is
\* switched to itself stays where it is.
OutgoingSound(t, a) ==
  \A v \in {Before(t, GrantAt), After(t, GrantAt), Before(t, Grant(a))} :
    NoNewer(v, a, Before(t, GrantAt))

HomeSound(t, a) ==
  \A v \in {Before(t, GrantAt), After(t, GrantAt)} : NoNewer(v, a, store[Grant(a)])

InPlaceSound(t, a) == AtActive(a) /\ Before(t, GrantAt) = After(t, GrantAt)

OpenSound ==
  \A t \in Open : \A a \in Managed \ forfeited :
    /\ Archives(t, a) => OutgoingSound(t, a)
    /\ ~Archives(t, a) => IF Home[a] = Active THEN InPlaceSound(t, a) ELSE HomeSound(t, a)

\* An account's reference is as before the pending transaction or as it wants it.
RefsKnown ==
  \A op \in Pending : \A a \in Managed :
    \/ refs[a] = Home[a]
    \/ \E i \in DOMAIN txs[op].refs : txs[op].refs[i].id = a /\ refs[a] = txs[op].refs[i].after

\* A committed transaction has the grant among its images.
Recorded(g) ==
  \E op \in Ops : /\ txs[op] # NoTx /\ txs[op].committed
                  /\ g \in {Before(txs[op], GrantAt), After(txs[op], GrantAt)}

\* A login the vault does not know is at the active home, in a committed
\* transaction, or will be put back by the one that is pending.
OriginalSound ==
  Original \notin forfeited =>
    /\ \/ store[GrantAt] = Live(Original)
       \/ Recorded(Live(Original))
       \/ \E op \in Pending : Before(txs[op], GrantAt) = Live(Original)
    /\ \A t \in Open : After(t, GrantAt) = Live(Original) =>
         Before(t, GrantAt) = After(t, GrantAt) \/ Recorded(Live(Original))

GrantDisk ==
  /\ ImagesSound /\ Fresh /\ HomesSound /\ Placed /\ Kept /\ Unswitched
  /\ OpenSound /\ RefsKnown /\ OriginalSound

-----------------------------------------------------------------------------
(* What the holder of SWITCH_LOCK has done *)

\* Before a switch is prepared, every account that is not at the active home is
\* at its own, and what a gateway's binding does not match is a foreign login.
Ready ==
  stage \in {"renew", "prepare"} =>
    /\ \A a \in Managed \ forfeited : Home[a] # Active => store[Grant(a)] = Live(a)
    /\ Mismatch => Whose(store[GrantAt]) = Original

\* What the switch has made of a resource, unless somebody wrote it.
Made(r) == IF stage \in {"save", "check"} \/ r \in todo THEN Before(tx, r) ELSE After(tx, r)

LoggedIn ==
  /\ ~Known(tx, ProfileAt) /\ ~Known(tx, GrantAt)
  /\ Whose(store[GrantAt]) = Original /\ Whose(store[ProfileAt]) = Original

\* A switch under way: nobody writes the homes; the active store is of the
\* account it was made to hold, or of a login in between.
ForwardSound ==
  stage \in Forward =>
    /\ \A a \in Managed : \A r \in {Grant(a), Profile(a)} : r \in Covers(tx) => store[r] = Made(r)
    /\ \/ LoggedIn
       \/ store[ProfileAt] = Made(ProfileAt) /\ Whose(store[GrantAt]) = Whose(Made(GrantAt))
    /\ store[GrantAt] = Made(GrantAt) \/ (store[GrantAt] # Absent /\ Valid(store[GrantAt]))
    /\ store[Config].mode = Made(Config).mode
    /\ \A a \in Managed \ forfeited :
         ~Archives(tx, a) /\ Home[a] # Active /\ Aim(tx) = a => After(tx, GrantAt) = store[Grant(a)]

\* A switch taken back: what has been restored is as it was, or was written by
\* the tool; a grant that was archived is back at the active home.
BackwardSound ==
  /\ stage \in Backward =>
       /\ \A a \in Managed : \A r \in {Grant(a), Profile(a)} : r \in Covers(tx) =>
            Known(tx, r) /\ (r \notin todo => store[r] = Before(tx, r))
       /\ \/ LoggedIn
          \/ /\ ProfileAt \notin todo => store[ProfileAt] = Before(tx, ProfileAt)
             /\ GrantAt \notin todo => Whose(store[GrantAt]) = Whose(Before(tx, GrantAt))
       /\ Config \notin todo => store[Config].mode = Before(tx, Config).mode
       /\ GrantAt \notin todo =>
            /\ \A a \in Managed \ forfeited : Archives(tx, a) => store[GrantAt] = Live(a)
            /\ Original \notin forfeited => store[GrantAt] = Live(Original) \/ Recorded(Live(Original))
  /\ stage = "unrefs" => todo = {}

\* The grant a rollback verified is a login the vault does not know.
StampSound ==
  /\ stage \in {"idle", "renew", "prepare", "restore"} => ~keeps
  /\ stage = "restore" /\ stamp # Absent =>
       /\ Whose(stamp) = Original /\ Dated(stamp) /\ Whose(Before(tx, GrantAt)) = Original
       /\ \/ stamp = Before(tx, GrantAt) \/ Original \in forfeited \/ stamp # Live(Original)
  /\ stage \in Forward /\ keeps /\ stamp # Absent =>
       stamp = After(tx, GrantAt) /\ Whose(stamp) = Original

GrantWork == Ready /\ ForwardSound /\ BackwardSound /\ StampSound

GrantInv == GrantDisk /\ GrantWork

-----------------------------------------------------------------------------
(* Values *)

\* The account a grant belongs to, and the valid one among its grants.
LEMMA WhoseFacts ==
  /\ Whose(Absent) = Absent
  /\ \A a \in Accounts : a # Absent /\ a # Gateway
  /\ \A v \in Grants : v # Absent /\ Whose(v) = v.acct /\ v.acct \in Accounts /\ v.gen \in Nat
  /\ \A v \in Profiles : v # Absent /\ Whose(v) = v.acct /\ v.acct \in Accounts /\ v.rev \in Nat
BY SwitchConstants, NothingIsSomething DEF Whose, Grants, Profiles

LEMMA LiveFacts ==
  ASSUME latest \in [Accounts -> Nat], NEW a \in Accounts
  PROVE  /\ Live(a) \in Grants /\ Live(a) # Absent /\ Whose(Live(a)) = a
         /\ Live(a).acct = a /\ Live(a).gen = latest[a] /\ latest[a] \in Nat
         /\ \A v \in Grants \cup {Absent} :
              v = Live(a) <=> Whose(v) = a /\ v.gen = latest[a]
<1>1. /\ Live(a) \in Grants /\ Live(a).acct = a /\ Live(a).gen = latest[a] /\ latest[a] \in Nat
  BY DEF Live, Grants
<1>2. Live(a) # Absent /\ Whose(Live(a)) = a
  BY <1>1, WhoseFacts
<1>3. ASSUME NEW v \in Grants \cup {Absent}, Whose(v) = a, v.gen = latest[a]
      PROVE  v = Live(a)
  <2>1. v \in Grants /\ v.acct = a
    BY <1>3, WhoseFacts
  <2> QED
    BY <1>3, <2>1 DEF Live, Grants
<1> QED
  BY <1>1, <1>2, <1>3

\* A grant that is no older than the valid one is the valid one.
LEMMA Newest ==
  ASSUME latest \in [Accounts -> Nat], NEW a \in Accounts, NEW w \in Grants \cup {Absent},
         Dated(w), Whose(w) \in {a, Absent}, NoNewer(Live(a), a, w)
  PROVE  w = Live(a)
<1>1. Live(a) \in Grants /\ Whose(Live(a)) = a /\ Live(a).gen = latest[a] /\ latest[a] \in Nat
  BY LiveFacts
<1>2. w # Absent /\ latest[a] <= w.gen
  BY <1>1 DEF NoNewer
<1>3. w \in Grants /\ w.acct = a /\ w.gen \in Nat
  BY <1>2, WhoseFacts
<1>4. w.gen <= latest[a]
  BY <1>2, <1>3 DEF Dated
<1>5. w.gen = latest[a]
  BY <1>1, <1>2, <1>3, <1>4
<1> QED
  BY <1>3, <1>5, WhoseFacts, LiveFacts

\* What is at the resources.
LEMMA StoreKinds ==
  ASSUME TypeOK
  PROVE  /\ \A h \in Homes : /\ store[Grant(h)] \in Grants \cup {Absent}
                             /\ store[Profile(h)] \in Profiles \cup {Absent}
         /\ store[GrantAt] \in Grants \cup {Absent} /\ store[ProfileAt] \in Profiles \cup {Absent}
         /\ store[Config] \in Configs /\ store[Binding] \in Bindings \cup {Absent}
         /\ latest \in [Accounts -> Nat] /\ forfeited \subseteq Accounts
         /\ Managed \subseteq Accounts /\ Managed \subseteq Homes /\ Active \in Homes
         /\ Active \notin Managed /\ Original \in Accounts /\ Original \notin Managed
<1>1. \A h \in Homes : /\ store[Grant(h)] \in Grants \cup {Absent}
                       /\ store[Profile(h)] \in Profiles \cup {Absent}
  <2> TAKE h \in Homes
  <2>1. Grant(h) \in Resources /\ Profile(h) \in Resources
        /\ Content(Grant(h)) = Grants \cup {Absent} /\ Content(Profile(h)) = Profiles \cup {Absent}
    BY ResourceFacts
  <2> QED
    BY <2>1 DEF TypeOK
<1>2. store[Config] \in Configs /\ store[Binding] \in Bindings \cup {Absent}
  <2>1. Config \in Resources /\ Binding \in Resources
        /\ Content(Config) = Configs /\ Content(Binding) = Bindings \cup {Absent}
    BY ResourceFacts
  <2> QED
    BY <2>1 DEF TypeOK
<1>3. /\ Managed \subseteq Accounts /\ Managed \subseteq Homes /\ Active \in Homes
      /\ Active \notin Managed /\ Original \in Accounts /\ Original \notin Managed
  BY SwitchConstants DEF Accounts, Homes
<1>4. latest \in [Accounts -> Nat] /\ forfeited \subseteq Accounts
  BY DEF TypeOK
<1> QED
  BY <1>1, <1>2, <1>3, <1>4 DEF GrantAt, ProfileAt

\* What the images are.
LEMMA ImageKinds ==
  ASSUME NEW t, Typed(t), TxSound(t)
  PROVE  /\ {GrantAt, ProfileAt, Config, Binding} \subseteq Covers(t)
         /\ \A h \in Homes : Grant(h) \in Covers(t) =>
              Before(t, Grant(h)) \in Grants \cup {Absent} /\ After(t, Grant(h)) \in Grants \cup {Absent}
         /\ \A h \in Homes : Profile(h) \in Covers(t) =>
              Before(t, Profile(h)) \in Profiles \cup {Absent} /\ After(t, Profile(h)) \in Profiles \cup {Absent}
         /\ Before(t, GrantAt) \in Grants \cup {Absent} /\ After(t, GrantAt) \in Grants \cup {Absent}
         /\ Before(t, ProfileAt) \in Profiles \cup {Absent} /\ After(t, ProfileAt) \in Profiles \cup {Absent}
         /\ Before(t, Config) \in Configs /\ After(t, Config) \in Configs
         /\ Before(t, Binding) \in Bindings \cup {Absent} /\ After(t, Binding) \in Bindings \cup {Absent}
<1>1. {GrantAt, ProfileAt, Config, Binding} \subseteq Covers(t)
  BY DEF TxSound, GrantAt, ProfileAt
<1>2. /\ \A h \in Homes : Content(Grant(h)) = Grants \cup {Absent} /\ Content(Profile(h)) = Profiles \cup {Absent}
      /\ Content(Config) = Configs /\ Content(Binding) = Bindings \cup {Absent} /\ Active \in Homes
  BY ResourceFacts
<1>3. \A r \in Covers(t) : Before(t, r) \in Content(r) /\ After(t, r) \in Content(r)
  BY TypedFacts
<1> QED
  BY <1>1, <1>2, <1>3 DEF GrantAt, ProfileAt

\* The writes go to the homes before the active one.
LEMMA RankOfGrants ==
  Rank(GrantAt) = 3 /\ \A a \in Managed : Rank(Grant(a)) = 1 /\ Rank(Profile(a)) = 2
<1>1. Rank(GrantAt) = 3
  BY DEF Rank, GrantAt, Grant, Profile, Config, Binding
<1>2. ASSUME NEW a \in Managed
      PROVE  Rank(Grant(a)) = 1 /\ Rank(Profile(a)) = 2
  <2>1. a # Active
    BY SwitchConstants DEF Accounts
  <2>2. Rank(Grant(a)) = 1
    BY <2>1 DEF Rank, Grant, Profile, Config, Binding
  <2>3. Rank(Profile(a)) = 2
    BY <2>1 DEF Rank, Grant, Profile, Config, Binding
  <2> QED
    BY <2>2, <2>3
<1> QED
  BY <1>1, <1>2

\* Every transaction is a typed one.
LEMMA FilesTyped ==
  ASSUME TypeOK, DiskSound, WorkSound, NEW t \in Files
  PROVE  t # NoTx /\ Typed(t) /\ TxSound(t)
<1>1. CASE t \in Saving
  <2>1. stage = "save" /\ t = tx
    BY <1>1 DEF Saving
  <2>2. tx # NoTx /\ TxSound(tx)
    BY <2>1 DEF WorkSound, SaveSound
  <2> QED
    BY <2>1, <2>2 DEF TypeOK
<1>2. CASE \E op \in Ops : txs[op] # NoTx /\ t = txs[op]
  BY <1>2 DEF TypeOK, DiskSound, FilesSound
<1> QED
  BY <1>1, <1>2 DEF Files

LEMMA WorkFiles ==
  ASSUME SwitchInv, stage \in Forward \cup Undoing
  PROVE  tx \in Files
<1>1. CASE stage = "save"
  BY <1>1 DEF Files, Saving
<1>2. CASE stage # "save"
  <2>1. stage \in Applying \cup Undoing
    BY <1>2 DEF Forward
  <2>2. tx # NoTx /\ tx.op \in Ops /\ txs[tx.op] = tx
    BY <2>1, WorkPending DEF SwitchInv
  <2> QED
    BY <2>2 DEF Files
<1> QED
  BY <1>1, <1>2

LEMMA OpenFiles == Open \subseteq Files
BY DEF Open, Files, Pending

-----------------------------------------------------------------------------
(* What a step leaves as it was *)

LEMMA ImageStays ==
  ASSUME NEW t, ImageSound(t)
  PROVE  ImageSound(t)'
BY DEF ImageSound, StoresSound, ArchiveSound, MovesSound, GatewaySound, Covers, Before, After,
       Archives, Leaves, Arrives, Whose, ByGateway, GrantAt, ProfileAt

\* Images are sound whatever became of the transaction.
LEMMA SameImages ==
  ASSUME NEW t, NEW u, t.changes = u.changes, t.refs = u.refs
  PROVE  /\ ImageSound(t) => ImageSound(u)
         /\ FreshImages(t) => FreshImages(u)
<1>1. /\ Covers(t) = Covers(u)
      /\ \A r : Before(t, r) = Before(u, r) /\ After(t, r) = After(u, r)
      /\ \A a : (Archives(t, a) <=> Archives(u, a)) /\ (Leaves(t, a) <=> Leaves(u, a))
                /\ (Arrives(t, a) <=> Arrives(u, a))
  BY DEF Covers, Before, After, Archives, Leaves, Arrives
<1>2. ImageSound(t) => ImageSound(u)
  BY <1>1 DEF ImageSound, StoresSound, ArchiveSound, MovesSound, GatewaySound
<1>3. FreshImages(t) => FreshImages(u)
  BY <1>1 DEF FreshImages
<1> QED
  BY <1>2, <1>3

\* The vendor's record only advances.
Advances == latest' \in [Accounts -> Nat] /\ \A a \in Accounts : latest'[a] >= latest[a]

LEMMA DatedStays ==
  ASSUME latest \in [Accounts -> Nat], Advances
  PROVE  /\ \A v \in Grants \cup {Absent} : Dated(v) => Dated(v)'
         /\ \A v \in Profiles \cup {Absent} : Signed(v) => Signed(v)'
<1>1. \A v \in Grants : v.acct \in Accounts /\ v.gen \in Nat
  BY DEF Grants
<1>2. \A v \in Profiles : v.rev \in Nat
  BY DEF Profiles
<1>3. Original \in Accounts
  BY DEF Accounts
<1> QED
  BY <1>1, <1>2, <1>3 DEF Dated, Signed, Advances

LEMMA FreshStays ==
  ASSUME latest \in [Accounts -> Nat], Advances, NEW t, Typed(t), TxSound(t),
         StoresSound(t), FreshImages(t)
  PROVE  FreshImages(t)'
<1>1. ASSUME NEW h \in Homes, Grant(h) \in Covers(t)
      PROVE  /\ Dated(Before(t, Grant(h)))' /\ Dated(After(t, Grant(h)))'
             /\ Signed(Before(t, Profile(h)))' /\ Signed(After(t, Profile(h)))'
  <2>1. /\ Before(t, Grant(h)) \in Grants \cup {Absent} /\ After(t, Grant(h)) \in Grants \cup {Absent}
        /\ Before(t, Profile(h)) \in Profiles \cup {Absent} /\ After(t, Profile(h)) \in Profiles \cup {Absent}
    BY <1>1, ImageKinds DEF StoresSound
  <2>2. /\ Dated(Before(t, Grant(h))) /\ Dated(After(t, Grant(h)))
        /\ Signed(Before(t, Profile(h))) /\ Signed(After(t, Profile(h)))
    BY <1>1 DEF FreshImages
  <2> QED
    BY <2>1, <2>2, DatedStays DEF Before, After
<1> QED
  BY <1>1 DEF FreshImages, Covers

\* No home and no binding is written.
HomesSame ==
  /\ \A h \in Homes : store'[Grant(h)] = store[Grant(h)] /\ store'[Profile(h)] = store[Profile(h)]
  /\ store'[Binding] = store[Binding] /\ store'[Config].mode = store[Config].mode

\* No managed account's grant changes; the unknown login's only if it is given up.
WorldSame ==
  /\ Advances
  /\ \A a \in Managed : latest'[a] = latest[a]
  /\ \A a \in Managed : a \in forfeited => a \in forfeited'
  /\ Original \notin forfeited' => Original \notin forfeited /\ latest'[Original] = latest[Original]

LEMMA SameFacts ==
  ASSUME HomesSame, WorldSame
  PROVE  /\ store'[GrantAt] = store[GrantAt] /\ store'[ProfileAt] = store[ProfileAt]
         /\ \A h \in Homes : Paired(h) => Paired(h)'
         /\ Mismatch' = Mismatch
         /\ \A a \in Managed : Live(a)' = Live(a)
         /\ \A a \in Managed : (AtActive(a) => AtActive(a)') /\ (AtHome(a) => AtHome(a)')
<1>1. Active \in Homes /\ Managed \subseteq Homes
  BY DEF Homes
<1>2. /\ store'[GrantAt] = store[GrantAt] /\ store'[ProfileAt] = store[ProfileAt]
      /\ store'[Binding] = store[Binding]
  BY <1>1 DEF HomesSame, GrantAt, ProfileAt
<1>3. \A h \in Homes : Paired(h) => Paired(h)'
  BY DEF HomesSame, Paired, Whose
<1>4. Mismatch' = Mismatch
  BY <1>2 DEF Mismatch, ByGateway, Native, GrantAt, ProfileAt
<1>5. \A a \in Managed : Live(a)' = Live(a)
  BY DEF WorldSame, Live
<1>6. \A a \in Managed : store'[Grant(a)] = store[Grant(a)]
  BY <1>1 DEF HomesSame
<1>7. \A a \in Managed : AtActive(a) => AtActive(a)'
  BY <1>2, <1>5, <1>6 DEF AtActive, Whose
<1>8. \A a \in Managed : AtHome(a) => AtHome(a)'
  BY <1>2, <1>4, <1>5, <1>6 DEF AtHome
<1> QED
  BY <1>2, <1>3, <1>4, <1>5, <1>7, <1>8

LEMMA ImagesStay ==
  ASSUME ImagesSound, Files' \subseteq Files
  PROVE  ImagesSound'
BY ImageStays DEF ImagesSound

LEMMA FreshFiles ==
  ASSUME TypeOK, DiskSound, WorkSound, ImagesSound, Fresh, Files' \subseteq Files, Advances
  PROVE  (\A t \in Files : FreshImages(t))'
<1>1. ASSUME NEW t \in Files
      PROVE  FreshImages(t)'
  <2>1. Typed(t) /\ TxSound(t)
    BY FilesTyped
  <2>2. StoresSound(t) /\ FreshImages(t)
    BY DEF ImagesSound, ImageSound, Fresh
  <2>3. latest \in [Accounts -> Nat]
    BY DEF TypeOK
  <2> QED
    BY <2>1, <2>2, <2>3, FreshStays
<1> QED
  BY <1>1

LEMMA FreshHomes ==
  ASSUME TypeOK, Fresh, HomesSame, Advances
  PROVE  (\A h \in Homes : Dated(store[Grant(h)]) /\ Signed(store[Profile(h)]))'
<1>1. ASSUME NEW h \in Homes
      PROVE  Dated(store[Grant(h)])' /\ Signed(store[Profile(h)])'
  <2>1. Dated(store[Grant(h)]) /\ Signed(store[Profile(h)])
    BY DEF Fresh
  <2>2. /\ store[Grant(h)] \in Grants \cup {Absent} /\ store[Profile(h)] \in Profiles \cup {Absent}
        /\ latest \in [Accounts -> Nat]
    BY StoreKinds
  <2>3. store'[Grant(h)] = store[Grant(h)] /\ store'[Profile(h)] = store[Profile(h)]
    BY DEF HomesSame
  <2> QED
    BY <2>1, <2>2, <2>3, DatedStays DEF Dated, Signed
<1> QED
  BY <1>1

\* A step that writes no home, and no transaction but settled ones.
LEMMA DiskStill ==
  ASSUME SwitchInv, GrantDisk, ChoiceStays, HomesSame, WorldSame,
         txs' = txs, Saving' \subseteq Saving, RefsKnown'
  PROVE  GrantDisk'
<1>1. TypeOK /\ DiskSound /\ WorkSound
  BY DEF SwitchInv
<1>2. /\ Pending' = Pending /\ Files' \subseteq Files /\ Open' \subseteq Open
      /\ OldBinding' = OldBinding /\ Home' = Home
  <2>1. Pending' = Pending
    BY DEF Pending
  <2> QED
    BY <2>1 DEF Files, Open, ChoiceStays
<1>3. /\ store'[GrantAt] = store[GrantAt] /\ store'[ProfileAt] = store[ProfileAt]
      /\ store'[Binding] = store[Binding] /\ store'[Config].mode = store[Config].mode
      /\ \A h \in Homes : Paired(h) => Paired(h)'
      /\ \A a \in Managed : /\ store'[Grant(a)] = store[Grant(a)] /\ Live(a)' = Live(a)
                            /\ (AtActive(a) => AtActive(a)') /\ (AtHome(a) => AtHome(a)')
  BY SameFacts DEF HomesSame, Homes
<1>4. \A a \in Managed \ forfeited' : a \in Managed \ forfeited
  BY DEF WorldSame
<1>5. ImagesSound'
  BY <1>2, ImagesStay DEF GrantDisk
<1>6. Fresh'
  BY <1>1, <1>2, FreshFiles, FreshHomes DEF GrantDisk, Fresh, WorldSame
<1>7. HomesSound'
  BY <1>2, <1>3 DEF GrantDisk, HomesSound, Homes, Whose, Archives, Covers
<1>8. Placed'
  BY <1>2, <1>3, <1>4 DEF GrantDisk, Placed, Homes, Whose, ByGateway
<1>9. Kept'
  BY <1>3, <1>4 DEF GrantDisk, Kept
<1>10. Unswitched'
  BY <1>2, <1>3 DEF GrantDisk, Unswitched, Archives, Covers, Before
<1>11. OpenSound'
  BY <1>2, <1>3, <1>4 DEF GrantDisk, OpenSound, OutgoingSound, InPlaceSound, HomeSound,
       Archives, Covers, Before, After, NoNewer, Whose, GrantAt
<1>12. OriginalSound'
  <2>1. CASE Original \notin forfeited'
    <3>1. Original \notin forfeited /\ Live(Original)' = Live(Original)
      BY <2>1 DEF WorldSame, Live
    <3>2. Recorded(Live(Original)) => Recorded(Live(Original))'
      BY <3>1 DEF Recorded, Before, After, GrantAt
    <3> QED
      BY <1>2, <1>3, <3>1, <3>2 DEF GrantDisk, OriginalSound, Before, After, GrantAt
  <2> QED
    BY <2>1 DEF OriginalSound
<1> QED
  BY <1>5, <1>6, <1>7, <1>8, <1>9, <1>10, <1>11, <1>12 DEF GrantDisk

LEMMA RefsSame ==
  ASSUME RefsKnown, ChoiceStays, refs' = refs, txs' = txs
  PROVE  RefsKnown'
<1>1. Pending' = Pending
  BY DEF Pending
<1> QED
  BY <1>1 DEF RefsKnown, ChoiceStays

LEMMA AdvanceZero ==
  ASSUME TypeOK, latest' = latest
  PROVE  Advances
<1>1. \A a \in Accounts : latest[a] \in Nat
  BY DEF TypeOK
<1> QED
  BY <1>1 DEF TypeOK, Advances

LEMMA WorldUnchanged ==
  ASSUME TypeOK, latest' = latest, forfeited' = forfeited
  PROVE  WorldSame
BY AdvanceZero DEF WorldSame

LEMMA DiskQuiet ==
  ASSUME SwitchInv, GrantDisk, ChoiceStays, UNCHANGED disk, UNCHANGED world, Saving' \subseteq Saving
  PROVE  GrantDisk'
<1>1. store' = store /\ refs' = refs /\ txs' = txs /\ latest' = latest /\ forfeited' = forfeited
  BY DEF disk, world
<1>2. HomesSame /\ WorldSame
  BY <1>1, WorldUnchanged DEF HomesSame, SwitchInv
<1>3. RefsKnown'
  BY <1>1, RefsSame DEF GrantDisk
<1> QED
  BY <1>1, <1>2, <1>3, DiskStill

\* Nothing is known of a switch that is over, or that is about to be undone.
LEMMA WorkOver ==
  ASSUME stage' = "undo" \/ (stage' = "idle" /\ keeps' = FALSE)
  PROVE  GrantWork' /\ Saving' = {}
BY DEF GrantWork, Ready, ForwardSound, BackwardSound, StampSound, Forward, Backward, Applying, Saving

LEMMA OverStep ==
  ASSUME SwitchInv, GrantInv, ChoiceStays, UNCHANGED disk, UNCHANGED world,
         Return \/ \E n \in {1, 2}, keep \in BOOLEAN : Undo(n, keep)
  PROVE  GrantInv'
<1>1. stage' = "undo" \/ (stage' = "idle" /\ keeps' = FALSE)
  BY DEF Return, Undo
<1> QED
  BY <1>1, WorkOver, DiskQuiet DEF GrantInv

LEMMA AttemptOver ==
  ASSUME SwitchInv, AttemptFails
  PROVE  Return \/ \E n \in {1, 2}, keep \in BOOLEAN : Undo(n, keep)
<1>1. keeps \in BOOLEAN
  BY DEF SwitchInv, TypeOK
<1> QED
  BY <1>1 DEF AttemptFails

LEMMA FailuresKeepGrants ==
  ASSUME SwitchInv, GrantInv, ChoiceStays,
         Refuse \/ SetReferenceFails \/ CommitFails \/ UnputFails \/ ForgetFails \/ Crash
  PROVE  GrantInv'
<1>1. keeps \in BOOLEAN /\ UNCHANGED disk /\ UNCHANGED world
  BY DEF SwitchInv, TypeOK, Refuse, SetReferenceFails, CommitFails, UnputFails, ForgetFails, Crash, Quiet, world
<1>2. Return \/ \E n \in {1, 2}, keep \in BOOLEAN : Undo(n, keep)
  BY <1>1, AttemptOver DEF Refuse, SetReferenceFails, CommitFails, UnputFails, ForgetFails, Crash
<1> QED
  BY <1>1, <1>2, OverStep

\* An operation begins when the displayed state is no conflict: a gateway's
\* binding matches what is there, and every account is where it belongs.
LEMMA BeginKeepsGrants ==
  ASSUME SwitchInv, GrantInv, ChoiceStays, BeginSwitch \/ BeginProxy
  PROVE  GrantInv'
<1>1. /\ UNCHANGED disk /\ UNCHANGED world /\ Pending = {} /\ ~Conflict
      /\ stage = "idle" /\ stage' \in {"prepare", "renew"} /\ keeps' = keeps
  BY DEF BeginSwitch, BeginProxy, Quiet, Idle, world
<1>2. Saving' = {}
  BY <1>1 DEF Saving
<1>3. GrantDisk'
  BY <1>1, <1>2, DiskQuiet DEF GrantInv
<1>4. ~Mismatch
  BY <1>1 DEF Mismatch, ByGateway, Conflict, Intact, Bound, Who
<1>5. \A a \in Managed \ forfeited : Home[a] # Active => store[Grant(a)] = Live(a)
  BY <1>1, <1>4 DEF GrantInv, GrantDisk, Placed, AtHome
<1>6. store' = store /\ forfeited' = forfeited /\ latest' = latest /\ Home' = Home
  BY <1>1 DEF disk, world, ChoiceStays
<1>7. Ready'
  BY <1>4, <1>5, <1>6 DEF Ready, Live, Mismatch, ByGateway, Native
<1>8. ForwardSound' /\ BackwardSound' /\ StampSound'
  BY <1>1 DEF GrantInv, GrantWork, ForwardSound, BackwardSound, StampSound, Forward, Backward, Applying
<1> QED
  BY <1>3, <1>7, <1>8 DEF GrantInv, GrantWork

LEMMA SessionKeepsGrants ==
  ASSUME SwitchInv, GrantInv, ChoiceStays, Unlock \/ Lock \/ (UNCHANGED vars)
  PROVE  GrantInv'
<1>1. /\ UNCHANGED disk /\ UNCHANGED world /\ UNCHANGED oper
  BY DEF Unlock, Lock, vars, disk, world, oper
<1>2. /\ stage' = stage /\ stamp' = stamp /\ tx' = tx /\ todo' = todo /\ keeps' = keeps
      /\ store' = store /\ latest' = latest /\ forfeited' = forfeited /\ Home' = Home /\ txs' = txs
  BY <1>1 DEF oper, disk, world, ChoiceStays
<1>3. Saving' = Saving
  BY <1>2 DEF Saving
<1>4. GrantDisk'
  BY <1>1, <1>3, DiskQuiet DEF GrantInv
<1>5. Ready'
  BY <1>2 DEF GrantInv, GrantWork, Ready, Live, Mismatch, ByGateway, Native
<1>6. ForwardSound'
  BY <1>2 DEF GrantInv, GrantWork, ForwardSound, Covers, Made, Before, After, LoggedIn, Known,
       Whose, GrantAt, ProfileAt, Archives, Aim, Valid, Live
<1>7. BackwardSound'
  BY <1>2 DEF GrantInv, GrantWork, BackwardSound, Covers, Before, After, LoggedIn, Known,
       Whose, GrantAt, ProfileAt, Archives, Live, Recorded
<1>8. StampSound'
  BY <1>2 DEF GrantInv, GrantWork, StampSound, Before, After, Whose, Dated, GrantAt, Live
<1> QED
  BY <1>4, <1>5, <1>6, <1>7, <1>8 DEF GrantInv, GrantWork

LEMMA RecoverKeepsGrants ==
  ASSUME SwitchInv, GrantInv, ChoiceStays, Recover
  PROVE  GrantInv'
<1>1. UNCHANGED disk /\ UNCHANGED world /\ stage = "idle"
  BY DEF Recover, Idle, world
<1>2. CASE UNCHANGED oper
  <2>1. stage' = "idle" /\ keeps' = keeps /\ ~keeps
    BY <1>1, <1>2 DEF oper, GrantInv, GrantWork, StampSound
  <2>2. keeps' = FALSE
    BY <2>1 DEF SwitchInv, TypeOK
  <2> QED
    BY <1>1, <2>1, <2>2, WorkOver, DiskQuiet DEF GrantInv
<1>3. CASE stage' = "undo"
  BY <1>1, <1>3, WorkOver, DiskQuiet DEF GrantInv
<1> QED
  BY <1>2, <1>3 DEF Recover

-----------------------------------------------------------------------------
(* The transaction that is worked on *)

LEMMA WorkImages ==
  ASSUME SwitchInv, GrantInv, stage \in Applying \cup Undoing
  PROVE  /\ tx # NoTx /\ Typed(tx) /\ TxSound(tx) /\ tx \in Open /\ tx \in Files
         /\ ImageSound(tx) /\ FreshImages(tx) /\ tx.op \in Ops /\ tx.op \in Pending
         /\ txs[tx.op] = tx /\ ~tx.committed /\ Pending = {tx.op}
         /\ OldBinding = Before(tx, Binding) /\ Home = Origin(tx)
         /\ Saving = {} /\ Open = {tx}
<1>1. /\ tx # NoTx /\ Typed(tx) /\ TxSound(tx) /\ tx.op \in Ops /\ txs[tx.op] = tx /\ ~tx.committed
      /\ Pending = {tx.op} /\ OldBinding = Before(tx, Binding) /\ Home = Origin(tx)
  BY WorkPending DEF SwitchInv
<1>2. Saving = {}
  BY DEF Saving, Applying, Undoing
<1>3. Open = {tx} /\ tx \in Files
  BY <1>1, <1>2 DEF Open, Files
<1>4. ImageSound(tx) /\ FreshImages(tx)
  BY <1>3 DEF GrantInv, GrantDisk, ImagesSound, Fresh
<1> QED
  BY <1>1, <1>2, <1>3, <1>4

\* An archived grant that is still valid was at the active home.
LEMMA OutgoingImage ==
  ASSUME TypeOK, NEW t, Typed(t), TxSound(t), ImageSound(t), FreshImages(t),
         NEW a \in Managed, Archives(t, a), OutgoingSound(t, a),
         Live(a) \in {Before(t, GrantAt), After(t, GrantAt), Before(t, Grant(a)), After(t, Grant(a))}
  PROVE  Before(t, GrantAt) = Live(a)
<1>1. /\ latest \in [Accounts -> Nat] /\ a \in Accounts /\ Active \in Homes
  BY StoreKinds
<1>2. GrantAt \in Covers(t) /\ Before(t, GrantAt) \in Grants \cup {Absent}
  BY ImageKinds
<1>3. After(t, Grant(a)) = Before(t, GrantAt) /\ Whose(Before(t, GrantAt)) = a
  BY DEF ImageSound, ArchiveSound
<1>4. Dated(Before(t, GrantAt))
  BY <1>1, <1>2 DEF FreshImages, GrantAt
<1>5. Live(a) = Before(t, GrantAt) \/ NoNewer(Live(a), a, Before(t, GrantAt))
  BY <1>3 DEF OutgoingSound
<1> QED
  BY <1>1, <1>2, <1>3, <1>4, <1>5, Newest

\* So is the grant of an account that is neither archived nor at the active home.
LEMMA HomeImage ==
  ASSUME TypeOK, HomesSound, Fresh, NEW t, NEW a \in Managed, HomeSound(t, a),
         Live(a) \in {Before(t, GrantAt), After(t, GrantAt)}
  PROVE  store[Grant(a)] = Live(a)
<1>1. /\ latest \in [Accounts -> Nat] /\ a \in Accounts /\ a \in Homes
      /\ store[Grant(a)] \in Grants \cup {Absent}
  BY StoreKinds
<1>2. NoNewer(Live(a), a, store[Grant(a)])
  BY DEF HomeSound
<1>3. Whose(store[Grant(a)]) \in {a, Absent} /\ Dated(store[Grant(a)])
  BY <1>1 DEF HomesSound, Fresh
<1> QED
  BY <1>1, <1>2, <1>3, Newest

\* When both homes hold images, an archived grant is the active one's.
LEMMA TakenBack ==
  ASSUME SwitchInv, GrantInv, stage \in Applying \cup Undoing,
         NEW a \in Managed \ forfeited, Archives(tx, a),
         Known(tx, GrantAt), Known(tx, Grant(a))
  PROVE  Before(tx, GrantAt) = Live(a)
<1>1. /\ Typed(tx) /\ TxSound(tx) /\ tx \in Open /\ ImageSound(tx) /\ FreshImages(tx) /\ TypeOK
  BY WorkImages DEF SwitchInv
<1>2. OutgoingSound(tx, a)
  BY <1>1 DEF GrantInv, GrantDisk, OpenSound
<1>3. Live(a) \in {store[GrantAt], store[Grant(a)]}
  BY DEF GrantInv, GrantDisk, Kept
<1>4. Live(a) \in {Before(tx, GrantAt), After(tx, GrantAt), Before(tx, Grant(a)), After(tx, Grant(a))}
  BY <1>3 DEF Known, Before, After
<1>5. PICK t : t = tx
  OBVIOUS
<1> QED
  BY <1>1, <1>2, <1>4, <1>5, OutgoingImage

\* And so is a login that the vault does not know.
LEMMA OriginalBack ==
  ASSUME SwitchInv, GrantInv, stage \in Applying \cup Undoing,
         Original \notin forfeited, Known(tx, GrantAt)
  PROVE  Before(tx, GrantAt) = Live(Original) \/ Recorded(Live(Original))
<1>1. tx \in Open /\ Pending = {tx.op} /\ txs[tx.op] = tx
  BY WorkImages
<1>2. /\ \/ store[GrantAt] = Live(Original) \/ Recorded(Live(Original))
         \/ Before(tx, GrantAt) = Live(Original)
      /\ After(tx, GrantAt) = Live(Original) =>
           Before(tx, GrantAt) = After(tx, GrantAt) \/ Recorded(Live(Original))
  BY <1>1 DEF GrantInv, GrantDisk, OriginalSound
<1> QED
  BY <1>2 DEF Known, Before, After

-----------------------------------------------------------------------------
(* Checks and reference updates *)

\* Steps that go on with a switch, write no file and settle what each resource
\* is to hold as before.
LEMMA ForwardStill ==
  ASSUME SwitchInv, GrantInv, ChoiceStays, stage \in Applying, stage' \in Applying,
         store' = store, txs' = txs, UNCHANGED world, RefsKnown',
         tx' = tx, stamp' = stamp, keeps' = keeps,
         \A r \in Covers(tx) : Made(r)' = Made(r)
  PROVE  GrantInv'
<1>1. {GrantAt, ProfileAt, Config} \subseteq Covers(tx)
  <2>1. stage \in Applying \cup Undoing
    OBVIOUS
  <2>2. TxSound(tx)
    BY <2>1, WorkImages
  <2> QED
    BY <2>2 DEF TxSound, GrantAt, ProfileAt
<1>2. latest' = latest /\ forfeited' = forfeited /\ Home' = Home
  BY DEF world, ChoiceStays
<1>3. stage \in Forward /\ stage' \in Forward /\ stage' \notin Backward
      /\ stage' \notin {"idle", "renew", "prepare", "restore", "save"}
  BY DEF Forward, Backward, Applying
<1>4. GrantDisk'
  <2>1. HomesSame /\ WorldSame
    BY <1>2, WorldUnchanged DEF HomesSame, SwitchInv
  <2>2. Saving' \subseteq Saving
    BY <1>3 DEF Saving
  <2> QED
    BY <2>1, <2>2, DiskStill DEF GrantInv
<1>5. Covers(tx)' = Covers(tx)
  BY DEF Covers
<1>6. ForwardSound
  BY DEF GrantInv, GrantWork
<1>7. ForwardSound'
  <2>1. (\A a \in Managed : \A r \in {Grant(a), Profile(a)} : r \in Covers(tx) => store[r] = Made(r))'
    BY <1>3, <1>5, <1>6 DEF ForwardSound
  <2>2. (\/ LoggedIn
         \/ store[ProfileAt] = Made(ProfileAt) /\ Whose(store[GrantAt]) = Whose(Made(GrantAt)))'
    BY <1>1, <1>3, <1>6 DEF ForwardSound, LoggedIn, Known, Whose, GrantAt, ProfileAt
  <2>3. (store[GrantAt] = Made(GrantAt) \/ (store[GrantAt] # Absent /\ Valid(store[GrantAt])))'
    BY <1>1, <1>2, <1>3, <1>6 DEF ForwardSound, Valid, Live, GrantAt
  <2>4. (store[Config].mode = Made(Config).mode)'
    BY <1>1, <1>3, <1>6 DEF ForwardSound
  <2>5. (\A a \in Managed \ forfeited :
          ~Archives(tx, a) /\ Home[a] # Active /\ Aim(tx) = a => After(tx, GrantAt) = store[Grant(a)])'
    BY <1>2, <1>3, <1>6 DEF ForwardSound, Archives, Covers, Aim, After, GrantAt
  <2> QED
    BY <2>1, <2>2, <2>3, <2>4, <2>5 DEF ForwardSound
<1>8. Ready' /\ BackwardSound'
  BY <1>3, <1>3 DEF Ready, BackwardSound, Backward
<1>9. StampSound'
  BY <1>3 DEF GrantInv, GrantWork, StampSound, After, GrantAt
<1> QED
  BY <1>4, <1>7, <1>8, <1>9 DEF GrantInv, GrantWork

LEMMA CheckKeepsGrants ==
  ASSUME SwitchInv, GrantInv, ChoiceStays, Check \/ Recheck
  PROVE  GrantInv'
<1>1. /\ UNCHANGED disk /\ UNCHANGED world /\ stage \in Applying /\ keeps \in BOOLEAN
  BY DEF Check, Recheck, Quiet, world, Applying, SwitchInv, TypeOK
<1>2. CASE Undo(1, keeps)
  BY <1>1, <1>2, OverStep
<1>3. ASSUME stage' \in Applying, tx' = tx, stamp' = stamp, keeps' = keeps,
             \A r \in Covers(tx) : Made(r)' = Made(r)
      PROVE  GrantInv'
  <2>1. store' = store /\ txs' = txs /\ refs' = refs
    BY <1>1 DEF disk
  <2>2. RefsKnown'
    BY <2>1, RefsSame DEF GrantInv, GrantDisk
  <2> QED
    BY <1>1, <1>3, <2>1, <2>2, ForwardStill
<1>4. CASE Check /\ ~Undo(1, keeps)
  <2>1. /\ stage = "check" /\ stage' = "write" /\ todo' = Writes(tx)
        /\ tx' = tx /\ stamp' = stamp /\ keeps' = keeps
    BY <1>4 DEF Check
  <2>2. \A r \in Covers(tx) : Made(r)' = Made(r)
    BY <2>1 DEF Made, Writes, Before, After
  <2> QED
    BY <1>3, <2>1, <2>2 DEF Applying
<1>5. CASE Recheck /\ ~Undo(1, keeps)
  <2>1. /\ stage = "write" /\ stage' = "put" /\ todo' = todo
        /\ tx' = tx /\ stamp' = stamp /\ keeps' = keeps
    BY <1>5 DEF Recheck
  <2>2. \A r \in Covers(tx) : Made(r)' = Made(r)
    BY <2>1 DEF Made, Before, After
  <2> QED
    BY <1>3, <2>1, <2>2 DEF Applying
<1> QED
  BY <1>2, <1>4, <1>5

\* A reference is one of the two that the transaction knows.
LEMMA ReferenceKnown ==
  ASSUME SwitchInv, GrantInv, ChoiceStays, stage \in Applying \cup Undoing, txs' = txs,
         NEW i \in DOMAIN tx.refs, NEW h \in {tx.refs[i].before, tx.refs[i].after},
         refs' = [refs EXCEPT ![tx.refs[i].id] = h]
  PROVE  RefsKnown'
<1>1. /\ Typed(tx) /\ TxSound(tx) /\ Pending = {tx.op} /\ txs[tx.op] = tx /\ Home = Origin(tx)
  BY WorkImages
<1>2. Pending' = Pending /\ Home' = Home
  BY DEF Pending, ChoiceStays
<1>3. tx.refs[i].id \in Managed /\ refs \in [Managed -> Homes]
  BY <1>1, TypedFacts DEF SwitchInv, TypeOK
<1>4. ASSUME NEW a \in Managed
      PROVE  \/ refs'[a] = Home[a]
             \/ \E j \in DOMAIN tx.refs : tx.refs[j].id = a /\ refs'[a] = tx.refs[j].after
  <2>1. CASE a # tx.refs[i].id
    <3>1. refs'[a] = refs[a]
      BY <1>3, <2>1
    <3> QED
      BY <1>1, <3>1 DEF GrantInv, GrantDisk, RefsKnown
  <2>2. CASE a = tx.refs[i].id
    <3>1. refs'[a] = h
      BY <1>3, <2>2
    <3>2. Home[a] = tx.refs[i].before
      BY <1>1, <2>2, OriginFacts DEF TxSound
    <3> QED
      BY <2>2, <3>1, <3>2
  <2> QED
    BY <2>1, <2>2
<1> QED
  BY <1>1, <1>2, <1>4 DEF RefsKnown

LEMMA SetReferenceKeepsGrants ==
  ASSUME SwitchInv, GrantInv, ChoiceStays, SetReference
  PROVE  GrantInv'
<1>1. /\ stage = "write" /\ stage' = "write" /\ step < Len(tx.refs) /\ store' = store /\ txs' = txs
      /\ UNCHANGED world /\ tx' = tx /\ stamp' = stamp /\ keeps' = keeps /\ todo' = todo
      /\ refs' = [refs EXCEPT ![tx.refs[step + 1].id] = tx.refs[step + 1].after]
  BY DEF SetReference, Quiet, world
<1>2. stage \in Applying /\ stage' \in Applying /\ stage \in Applying \cup Undoing
  BY <1>1 DEF Applying
<1>3. step + 1 \in DOMAIN tx.refs
  <2>1. DOMAIN tx.refs = 1 .. Len(tx.refs) /\ Len(tx.refs) \in Nat
    BY <1>2, WorkImages, TypedFacts
  <2>2. step \in Nat
    BY DEF SwitchInv, TypeOK
  <2> QED
    BY <1>1, <2>1, <2>2
<1>4. PICK i \in DOMAIN tx.refs : i = step + 1
  BY <1>3
<1>5. RefsKnown'
  BY <1>1, <1>2, <1>4, ReferenceKnown
<1>6. \A r \in Covers(tx) : Made(r)' = Made(r)
  BY <1>1 DEF Made, Before, After
<1> QED
  BY <1>1, <1>2, <1>5, <1>6, ForwardStill

LEMMA SaveKeepsGrants ==
  ASSUME SwitchInv, GrantInv, ChoiceStays, Save
  PROVE  GrantInv'
<1>1. /\ stage = "save" /\ stage' = "check" /\ txs' = [txs EXCEPT ![tx.op] = tx]
      /\ store' = store /\ refs' = refs /\ tx' = tx /\ stamp' = stamp /\ keeps' = keeps /\ todo' = todo
      /\ latest' = latest /\ forfeited' = forfeited /\ Home' = Home /\ OldBinding' = OldBinding
  BY DEF Save, Quiet, ChoiceStays
<1>2. TypeOK /\ DiskSound /\ WorkSound
  BY DEF SwitchInv
<1>3. /\ Pending = {} /\ tx # NoTx /\ txs[tx.op] = NoTx /\ ~tx.committed /\ Typed(tx) /\ TxSound(tx)
  BY <1>1, <1>2 DEF WorkSound, SaveSound, TypeOK, Early
<1>4. tx.op \in Ops /\ txs \in [Ops -> Transaction \cup {NoTx}]
  BY <1>2, <1>3, TypedFacts DEF TypeOK
<1>5. txs'[tx.op] = tx /\ \A op \in Ops : op # tx.op => txs'[op] = txs[op]
  BY <1>1, <1>4
<1>6. Pending' = {tx.op}
  BY <1>3, <1>4, <1>5 DEF Pending
<1>7. Saving = {tx} /\ Saving' = {}
  BY <1>1 DEF Saving
<1>8. Files' \subseteq Files /\ Open' = {tx} /\ Open = {tx}
  <2>1. Files' \subseteq Files
    BY <1>5, <1>7 DEF Files
  <2>2. Open' = {tx} /\ Open = {tx}
    BY <1>3, <1>5, <1>6, <1>7 DEF Open
  <2> QED
    BY <2>1, <2>2
<1>9. {GrantAt, ProfileAt, Config} \subseteq Covers(tx)
  BY <1>3 DEF TxSound, GrantAt, ProfileAt
<1>10. \A r : Made(r)' = Made(r)
  BY <1>1 DEF Made, Before, After
<1>11. HomesSame /\ WorldSame
  BY <1>1, <1>2, WorldUnchanged DEF HomesSame
<1>12. /\ \A h \in Homes : Paired(h) => Paired(h)'
       /\ \A a \in Managed : Live(a)' = Live(a) /\ (AtActive(a) => AtActive(a)')
  BY <1>11, SameFacts
<1>13. ForwardSound
  BY DEF GrantInv, GrantWork
<1>14. GrantDisk'
  <2>1. ImagesSound'
    BY <1>8, ImagesStay DEF GrantInv, GrantDisk
  <2>2. Fresh'
    BY <1>2, <1>8, <1>11, FreshFiles, FreshHomes DEF GrantInv, GrantDisk, Fresh, WorldSame
  <2>3. HomesSound'
    BY <1>1, <1>3, <1>12 DEF GrantInv, GrantDisk, HomesSound, Homes, Whose
  <2>4. Placed' /\ Kept'
    BY <1>1, <1>6, <1>12 DEF GrantInv, GrantDisk, Placed, Kept, GrantAt
  <2>5. Unswitched'
    <3>1. ASSUME OldBinding = Absent, NEW a \in Managed, Home[a] = Active
          PROVE  /\ store[Grant(a)] = Absent
                 /\ Archives(tx, a) => Before(tx, Grant(a)) = Absent
      <4>1. store[Grant(a)] = Absent
        BY <1>3, <3>1 DEF GrantInv, GrantDisk, Unswitched
      <4>2. Archives(tx, a) => store[Grant(a)] = Before(tx, Grant(a))
        BY <1>1, <1>13 DEF ForwardSound, Forward, Archives, Made
      <4> QED
        BY <4>1, <4>2
    <3> QED
      BY <1>1, <1>5, <1>6, <3>1 DEF Unswitched, Archives, Covers, Before
  <2>6. OpenSound'
    BY <1>1, <1>8, <1>12 DEF GrantInv, GrantDisk, OpenSound, OutgoingSound, InPlaceSound, HomeSound,
       Archives, Covers, Before, After, NoNewer, Whose, GrantAt
  <2>7. RefsKnown'
    BY <1>1, <1>3, NonePending DEF RefsKnown
  <2>8. OriginalSound'
    <3>1. Live(Original)' = Live(Original)
      BY <1>1 DEF Live
    <3>2. Recorded(Live(Original)) => Recorded(Live(Original))'
      BY <1>3, <1>5, <3>1 DEF Recorded, Before, After, GrantAt
    <3> QED
      BY <1>1, <1>3, <1>8, <3>1, <3>2 DEF GrantInv, GrantDisk, OriginalSound, Before, After, GrantAt
  <2> QED
    BY <2>1, <2>2, <2>3, <2>4, <2>5, <2>6, <2>7, <2>8 DEF GrantDisk
<1>15. ForwardSound'
  <2>1. stage \in Forward /\ stage' \in Forward
    BY <1>1 DEF Forward, Applying
  <2>2. Covers(tx)' = Covers(tx)
    BY <1>1 DEF Covers
  <2>3. (\/ LoggedIn
         \/ store[ProfileAt] = Made(ProfileAt) /\ Whose(store[GrantAt]) = Whose(Made(GrantAt)))'
    BY <1>1, <1>10, <1>13, <2>1 DEF ForwardSound, LoggedIn, Known, Whose, GrantAt, ProfileAt
  <2>4. (store[GrantAt] = Made(GrantAt) \/ (store[GrantAt] # Absent /\ Valid(store[GrantAt])))'
    BY <1>1, <1>10, <1>13, <2>1 DEF ForwardSound, Valid, Live, GrantAt
  <2>5. (\A a \in Managed \ forfeited :
          ~Archives(tx, a) /\ Home[a] # Active /\ Aim(tx) = a => After(tx, GrantAt) = store[Grant(a)])'
    BY <1>1, <1>13, <2>1 DEF ForwardSound, Archives, Covers, Aim, After, GrantAt
  <2> QED
    BY <1>1, <1>10, <1>13, <2>1, <2>2, <2>3, <2>4, <2>5 DEF ForwardSound
<1>16. Ready' /\ BackwardSound' /\ StampSound'
  <2>1. Ready' /\ BackwardSound'
    BY <1>1 DEF Ready, BackwardSound, Backward
  <2>2. StampSound'
    BY <1>1 DEF GrantInv, GrantWork, StampSound, Forward, Applying, After, GrantAt
  <2> QED
    BY <2>1, <2>2
<1> QED
  BY <1>14, <1>15, <1>16 DEF GrantInv, GrantWork

\* Steps that go on with undoing a switch and write no file.
LEMMA BackwardStill ==
  ASSUME SwitchInv, GrantInv, ChoiceStays, stage \in Undoing, stage' \in Backward,
         store' = store, txs' = txs, UNCHANGED world, RefsKnown', BackwardSound'
  PROVE  GrantInv'
<1>1. latest' = latest /\ forfeited' = forfeited
  BY DEF world
<1>2. GrantDisk'
  <2>1. HomesSame /\ WorldSame
    BY <1>1, WorldUnchanged DEF HomesSame, SwitchInv
  <2>2. Saving' \subseteq Saving
    BY DEF Saving, Backward
  <2> QED
    BY <2>1, <2>2, DiskStill DEF GrantInv
<1>3. Ready' /\ ForwardSound' /\ StampSound'
  BY DEF Ready, ForwardSound, StampSound, Forward, Backward, Applying
<1> QED
  BY <1>2, <1>3 DEF GrantInv, GrantWork

\* Every resource that is not to be restored any more is as it was.
LEMMA BackAtActive ==
  ASSUME SwitchInv, GrantInv, stage \in Undoing, store[GrantAt] = Before(tx, GrantAt),
         \A a \in Managed : Archives(tx, a) => Known(tx, Grant(a))
  PROVE  /\ \A a \in Managed \ forfeited : Archives(tx, a) => store[GrantAt] = Live(a)
         /\ Original \notin forfeited => store[GrantAt] = Live(Original) \/ Recorded(Live(Original))
<1>1. Known(tx, GrantAt)
  BY DEF Known, Before
<1>2. stage \in Applying \cup Undoing
  OBVIOUS
<1>3. \A a \in Managed \ forfeited : Archives(tx, a) => store[GrantAt] = Live(a)
  BY <1>1, <1>2, TakenBack
<1>4. Original \notin forfeited => store[GrantAt] = Live(Original) \/ Recorded(Live(Original))
  BY <1>1, <1>2, OriginalBack
<1> QED
  BY <1>3, <1>4

LEMMA CheckImagesKeepsGrants ==
  ASSUME SwitchInv, GrantInv, ChoiceStays, CheckImages
  PROVE  GrantInv'
<1>1. /\ UNCHANGED disk /\ UNCHANGED world /\ stage = "undo"
  BY DEF CheckImages, Quiet, world
<1>2. CASE AttemptFails
  BY <1>1, <1>2, AttemptOver, OverStep
<1>3. CASE Restorable(tx) /\ stage' = "unwrite" /\ todo' = Writes(tx) /\ tx' = tx
  <2>1. stage \in Undoing /\ stage \in Applying \cup Undoing /\ stage' \in Backward
    BY <1>1, <1>3 DEF Undoing, Backward
  <2>2. /\ store' = store /\ txs' = txs /\ refs' = refs /\ latest' = latest /\ forfeited' = forfeited
    BY <1>1 DEF disk, world
  <2>3. {GrantAt, ProfileAt, Config} \subseteq Covers(tx)
    BY <2>1, WorkImages DEF TxSound, GrantAt, ProfileAt
  <2>4. \A r \in Covers(tx) : Known(tx, r) /\ (r \notin Writes(tx) => store[r] = Before(tx, r))
    BY <1>3 DEF Restorable, Known, Writes, Before
  <2>5. \A a \in Managed : Archives(tx, a) => Known(tx, Grant(a))
    BY <2>4 DEF Archives
  <2>6. GrantAt \notin Writes(tx) =>
            /\ \A a \in Managed \ forfeited : Archives(tx, a) => store[GrantAt] = Live(a)
            /\ Original \notin forfeited => store[GrantAt] = Live(Original) \/ Recorded(Live(Original))
    BY <2>1, <2>3, <2>4, <2>5, BackAtActive
  <2>7. BackwardSound'
    <3>1. (\A a \in Managed : \A r \in {Grant(a), Profile(a)} : r \in Covers(tx) =>
            Known(tx, r) /\ (r \notin todo => store[r] = Before(tx, r)))'
      BY <1>3, <2>2, <2>4 DEF Covers, Known, Before
    <3>2. (/\ ProfileAt \notin todo => store[ProfileAt] = Before(tx, ProfileAt)
           /\ GrantAt \notin todo => Whose(store[GrantAt]) = Whose(Before(tx, GrantAt))
           /\ Config \notin todo => store[Config].mode = Before(tx, Config).mode)'
      BY <1>3, <2>2, <2>3, <2>4 DEF Before, GrantAt, ProfileAt, Whose
    <3>3. (GrantAt \notin todo =>
            /\ \A a \in Managed \ forfeited : Archives(tx, a) => store[GrantAt] = Live(a)
            /\ Original \notin forfeited => store[GrantAt] = Live(Original) \/ Recorded(Live(Original)))'
      BY <1>3, <2>2, <2>6 DEF GrantAt, Archives, Covers, Live, Recorded, Before, After
    <3> QED
      BY <1>3, <3>1, <3>2, <3>3 DEF BackwardSound
  <2>8. RefsKnown'
    BY <2>2, RefsSame DEF GrantInv, GrantDisk
  <2> QED
    BY <1>1, <2>1, <2>2, <2>7, <2>8, BackwardStill
<1> QED
  BY <1>2, <1>3 DEF CheckImages

LEMMA RecheckImageKeepsGrants ==
  ASSUME SwitchInv, GrantInv, ChoiceStays, RecheckImage
  PROVE  GrantInv'
<1>1. /\ UNCHANGED disk /\ UNCHANGED world /\ stage = "unwrite" /\ todo # {}
  BY DEF RecheckImage, Quiet, world
<1>2. CASE AttemptFails
  BY <1>1, <1>2, AttemptOver, OverStep
<1>3. PICK r : r = LastOf(todo)
  OBVIOUS
<1>4. ASSUME tx' = tx, stage' \in {"unwrite", "unput"},
             todo' = todo \/ (todo' = todo \ {r} /\ store[r] = Before(tx, r))
      PROVE  GrantInv'
  <2>1. stage \in Undoing /\ stage' \in Backward /\ stage \in Backward /\ stage' # "unrefs"
    BY <1>1, <1>4 DEF Undoing, Backward
  <2>2. /\ store' = store /\ txs' = txs /\ refs' = refs /\ latest' = latest /\ forfeited' = forfeited
    BY <1>1 DEF disk, world
  <2>3. BackwardSound
    BY DEF GrantInv, GrantWork
  <2>4. todo' \subseteq todo /\ \A q : q \in todo /\ q \notin todo' => store[q] = Before(tx, q)
    BY <1>4
  <2>5. \A a \in Managed : Archives(tx, a) => Known(tx, Grant(a))
    BY <2>1, <2>3 DEF BackwardSound, Archives
  <2>6. GrantAt \notin todo' =>
            /\ \A a \in Managed \ forfeited : Archives(tx, a) => store[GrantAt] = Live(a)
            /\ Original \notin forfeited => store[GrantAt] = Live(Original) \/ Recorded(Live(Original))
    <3>1. CASE GrantAt \notin todo
      BY <2>1, <2>3, <3>1 DEF BackwardSound
    <3>2. CASE GrantAt \in todo /\ GrantAt \notin todo'
      BY <2>1, <2>4, <2>5, <3>2, BackAtActive
    <3> QED
      BY <3>1, <3>2
  <2>7. BackwardSound'
    <3>1. (\A a \in Managed : \A q \in {Grant(a), Profile(a)} : q \in Covers(tx) =>
            Known(tx, q) /\ (q \notin todo => store[q] = Before(tx, q)))'
      BY <1>4, <2>1, <2>2, <2>3, <2>4 DEF BackwardSound, Covers, Known, Before
    <3>2. (\/ LoggedIn
           \/ /\ ProfileAt \notin todo => store[ProfileAt] = Before(tx, ProfileAt)
              /\ GrantAt \notin todo => Whose(store[GrantAt]) = Whose(Before(tx, GrantAt)))'
      BY <1>4, <2>1, <2>2, <2>3, <2>4 DEF BackwardSound, LoggedIn, Known, Before, GrantAt, ProfileAt, Whose
    <3>3. (Config \notin todo => store[Config].mode = Before(tx, Config).mode)'
      BY <1>4, <2>1, <2>2, <2>3, <2>4 DEF BackwardSound, Before
    <3>4. (GrantAt \notin todo =>
            /\ \A a \in Managed \ forfeited : Archives(tx, a) => store[GrantAt] = Live(a)
            /\ Original \notin forfeited => store[GrantAt] = Live(Original) \/ Recorded(Live(Original)))'
      BY <1>4, <2>2, <2>6 DEF GrantAt, Archives, Covers, Live, Recorded, Before, After
    <3> QED
      BY <2>1, <3>1, <3>2, <3>3, <3>4 DEF BackwardSound
  <2>8. RefsKnown'
    BY <2>2, RefsSame DEF GrantInv, GrantDisk
  <2> QED
    BY <1>1, <2>1, <2>2, <2>7, <2>8, BackwardStill
<1> QED
  BY <1>1, <1>2, <1>3, <1>4 DEF RecheckImage, Before

LEMMA RestoredKeepsGrants ==
  ASSUME SwitchInv, GrantInv, ChoiceStays, Restored
  PROVE  GrantInv'
<1>1. /\ UNCHANGED disk /\ UNCHANGED world /\ stage = "unwrite" /\ todo = {} /\ keeps \in BOOLEAN
  BY DEF Restored, Quiet, world, SwitchInv, TypeOK
<1>2. CASE Undo(1, keeps)
  BY <1>1, <1>2, OverStep
<1>3. CASE stage' = "unrefs" /\ todo' = todo /\ tx' = tx
  <2>1. stage \in Undoing /\ stage' \in Backward /\ stage \in Backward
    BY <1>1, <1>3 DEF Undoing, Backward
  <2>2. /\ store' = store /\ txs' = txs /\ refs' = refs /\ latest' = latest /\ forfeited' = forfeited
    BY <1>1 DEF disk, world
  <2>3. BackwardSound'
    BY <1>1, <1>3, <2>1, <2>2 DEF GrantInv, GrantWork, BackwardSound, Covers, Before, After, LoggedIn, Known,
       Whose, GrantAt, ProfileAt, Archives, Live, Recorded
  <2>4. RefsKnown'
    BY <2>2, RefsSame DEF GrantInv, GrantDisk
  <2> QED
    BY <1>1, <2>1, <2>2, <2>3, <2>4, BackwardStill
<1> QED
  BY <1>2, <1>3 DEF Restored

LEMMA ResetReferenceKeepsGrants ==
  ASSUME SwitchInv, GrantInv, ChoiceStays, ResetReference
  PROVE  GrantInv'
<1>1. /\ stage = "unrefs" /\ step < Len(tx.refs) /\ store' = store /\ txs' = txs /\ UNCHANGED world
  BY DEF ResetReference, Quiet, world
<1>2. stage \in Undoing /\ stage \in Backward /\ stage \in Applying \cup Undoing
  BY <1>1 DEF Undoing, Backward
<1>3. CASE UNCHANGED refs /\ Return
  <2>1. UNCHANGED disk
    BY <1>1, <1>3 DEF disk
  <2> QED
    BY <1>1, <1>3, <2>1, OverStep
<1>4. CASE /\ refs' = [refs EXCEPT ![tx.refs[step + 1].id] = tx.refs[step + 1].before]
           /\ stage' = stage /\ tx' = tx /\ todo' = todo
  <2>1. step + 1 \in DOMAIN tx.refs
    <3>1. DOMAIN tx.refs = 1 .. Len(tx.refs) /\ Len(tx.refs) \in Nat
      BY <1>2, WorkImages, TypedFacts
    <3>2. step \in Nat
      BY DEF SwitchInv, TypeOK
    <3> QED
      BY <1>1, <3>1, <3>2
  <2>2. PICK i \in DOMAIN tx.refs : i = step + 1
    BY <2>1
  <2>3. RefsKnown'
    BY <1>1, <1>2, <1>4, <2>2, ReferenceKnown
  <2>4. latest' = latest /\ forfeited' = forfeited
    BY <1>1 DEF world
  <2>5. BackwardSound'
    BY <1>1, <1>2, <1>4, <2>4 DEF GrantInv, GrantWork, BackwardSound, Covers, Before, After, LoggedIn, Known,
       Whose, GrantAt, ProfileAt, Archives, Live, Recorded
  <2> QED
    BY <1>1, <1>2, <1>4, <2>3, <2>5, BackwardStill
<1> QED
  BY <1>3, <1>4 DEF ResetReference

-----------------------------------------------------------------------------
(* Writes of an image *)

\* What a write disturbs, but for the last copy of a grant.
LEMMA DiskWritten ==
  ASSUME SwitchInv, GrantInv, ChoiceStays, stage \in Applying \cup Undoing,
         NEW r \in Writes(tx), Known(tx, r), NEW v \in {Before(tx, r), After(tx, r)},
         store' = [store EXCEPT ![r] = v], txs' = txs, refs' = refs, UNCHANGED world,
         Saving' = {}, Kept'
  PROVE  GrantDisk'
<1>1. /\ Typed(tx) /\ TxSound(tx) /\ ImageSound(tx) /\ FreshImages(tx) /\ tx \in Open
      /\ Pending = {tx.op} /\ txs[tx.op] = tx /\ Saving = {} /\ Open = {tx}
  BY WorkImages
<1>2. TypeOK /\ DiskSound /\ WorkSound
  BY DEF SwitchInv
<1>3. /\ latest' = latest /\ forfeited' = forfeited /\ Home' = Home /\ OldBinding' = OldBinding
      /\ Pending' = Pending
  BY DEF world, ChoiceStays, Pending
<1>4. r \in Covers(tx) /\ r \in Resources /\ Before(tx, r) # After(tx, r)
  <2>1. r \in Covers(tx) /\ Before(tx, r) # After(tx, r)
    BY DEF Writes, Before, After
  <2> QED
    BY <1>1, <2>1, TypedFacts
<1>5. store'[r] = v /\ \A q \in Resources : q # r => store'[q] = store[q]
  BY <1>2, <1>4 DEF TypeOK
<1>6. Files' \subseteq Files /\ Open' = Open
  BY <1>1, <1>3 DEF Files, Open
<1>7. \A a \in Managed : ~Archives(tx, a) => r # Grant(a) /\ r # Profile(a)
  BY <1>1, <1>4 DEF ImageSound, StoresSound, Archives, Homes
<1>8. \A h \in Homes : Grant(h) \in Resources /\ Profile(h) \in Resources
  BY ResourceFacts
<1>9. \A a \in Managed : ~Archives(tx, a) =>
        store'[Grant(a)] = store[Grant(a)] /\ store'[Profile(a)] = store[Profile(a)]
  BY <1>5, <1>7, <1>8 DEF Homes
<1>10. \A a \in Managed : Live(a)' = Live(a)
  BY <1>3 DEF Live
<1>11. ImagesSound'
  BY <1>6, ImagesStay DEF GrantInv, GrantDisk
<1>12. Fresh'
  <2>1. Advances
    BY <1>2, <1>3, AdvanceZero
  <2>2. (\A t \in Files : FreshImages(t))'
    BY <1>2, <1>6, <2>1, FreshFiles DEF GrantInv, GrantDisk
  <2>3. ASSUME NEW h \in Homes
        PROVE  Dated(store[Grant(h)])' /\ Signed(store[Profile(h)])'
    <3>1. Dated(store[Grant(h)]) /\ Signed(store[Profile(h)])
      BY DEF GrantInv, GrantDisk, Fresh
    <3>2. CASE r = Grant(h)
      <4>1. Dated(v) /\ r # Profile(h)
        BY <1>1, <1>4, <3>2, ResourceFacts DEF FreshImages
      <4> QED
        BY <1>3, <1>5, <1>8, <3>1, <3>2, <4>1 DEF Dated, Signed
    <3>3. CASE r = Profile(h)
      <4>1. Signed(v) /\ r # Grant(h)
        BY <1>1, <1>4, <3>3, ResourceFacts DEF FreshImages, ImageSound, StoresSound
      <4> QED
        BY <1>3, <1>5, <1>8, <3>1, <3>3, <4>1 DEF Dated, Signed
    <3>4. CASE r # Grant(h) /\ r # Profile(h)
      BY <1>3, <1>5, <1>8, <3>1, <3>4 DEF Dated, Signed
    <3> QED
      BY <3>2, <3>3, <3>4
  <2> QED
    BY <2>2, <2>3 DEF Fresh
<1>13. HomesSound'
  <2>1. ASSUME NEW a \in Managed
        PROVE  Whose(store'[Grant(a)]) \in {a, Absent}
    <3>1. Whose(store[Grant(a)]) \in {a, Absent}
      BY DEF GrantInv, GrantDisk, HomesSound
    <3>2. CASE r = Grant(a)
      BY <1>1, <1>4, <1>5, <3>2 DEF ImageSound, ArchiveSound, Archives
    <3>3. CASE r # Grant(a)
      BY <1>5, <1>8, <3>1, <3>3 DEF Homes
    <3> QED
      BY <3>2, <3>3
  <2>2. ASSUME NEW a \in Managed, ~Archives(tx, a)
        PROVE  Paired(a)'
    <3>1. Paired(a)
      BY <1>1, <2>2 DEF GrantInv, GrantDisk, HomesSound
    <3> QED
      BY <1>9, <2>2, <3>1 DEF Paired, Whose
  <2> QED
    BY <1>1, <1>3, <2>1, <2>2 DEF HomesSound, Whose, Archives, Covers
<1>14. Placed'
  BY <1>1, <1>3 DEF Placed
<1>15. Unswitched'
  BY <1>1, <1>3, <1>9 DEF GrantInv, GrantDisk, Unswitched, Archives, Covers, Before
<1>16. OpenSound'
  <2>1. ASSUME NEW a \in Managed \ forfeited, Archives(tx, a)
        PROVE  OutgoingSound(tx, a)
    BY <1>1, <2>1 DEF GrantInv, GrantDisk, OpenSound
  <2>2. ASSUME NEW a \in Managed \ forfeited, ~Archives(tx, a), Home[a] = Active
        PROVE  InPlaceSound(tx, a) /\ AtActive(a)'
    <3>1. InPlaceSound(tx, a)
      BY <1>1, <2>2 DEF GrantInv, GrantDisk, OpenSound
    <3>2. r # GrantAt
      BY <1>4, <3>1 DEF InPlaceSound
    <3>3. store'[GrantAt] = store[GrantAt]
      BY <1>5, <1>8, <3>2 DEF Homes, GrantAt
    <3> QED
      BY <1>9, <1>10, <2>2, <3>1, <3>3 DEF InPlaceSound, AtActive, Whose
  <2>3. ASSUME NEW a \in Managed \ forfeited, ~Archives(tx, a), Home[a] # Active
        PROVE  HomeSound(tx, a) /\ store'[Grant(a)] = store[Grant(a)]
    BY <1>1, <1>9, <2>3 DEF GrantInv, GrantDisk, OpenSound
  <2>4. PICK t : t = tx
    OBVIOUS
  <2>5. Open' = {t}
    BY <1>1, <1>6, <2>4
  <2>6. ASSUME NEW a \in Managed \ forfeited
        PROVE  (/\ Archives(t, a) => OutgoingSound(t, a)
                /\ ~Archives(t, a) => IF Home[a] = Active THEN InPlaceSound(t, a) ELSE HomeSound(t, a))'
    BY <1>3, <2>1, <2>2, <2>3, <2>4 DEF OutgoingSound, InPlaceSound, HomeSound,
       Archives, Covers, Before, After, NoNewer, Whose, GrantAt
  <2> QED
    BY <1>3, <2>5, <2>6 DEF OpenSound
<1>17. RefsKnown'
  BY RefsSame DEF GrantInv, GrantDisk
<1>18. OriginalSound'
  <2>1. Live(Original)' = Live(Original)
    BY <1>3 DEF Live
  <2>2. Recorded(Live(Original)) => Recorded(Live(Original))'
    BY <2>1 DEF Recorded, Before, After, GrantAt
  <2>3. ASSUME Original \notin forfeited
        PROVE  \/ store'[GrantAt] = Live(Original)
               \/ Recorded(Live(Original))
               \/ Before(tx, GrantAt) = Live(Original)
    <3>1. CASE r = GrantAt
      BY <2>3, <3>1, OriginalBack
    <3>2. CASE r # GrantAt
      <4>1. store'[GrantAt] = store[GrantAt]
        BY <1>5, <1>8, <3>2 DEF Homes, GrantAt
      <4> QED
        BY <1>1, <2>3, <4>1 DEF GrantInv, GrantDisk, OriginalSound
    <3> QED
      BY <3>1, <3>2
  <2>4. Original \notin forfeited /\ After(tx, GrantAt) = Live(Original) =>
          Before(tx, GrantAt) = After(tx, GrantAt) \/ Recorded(Live(Original))
    BY <1>1 DEF GrantInv, GrantDisk, OriginalSound
  <2>5. PICK t : t = tx
    OBVIOUS
  <2>6. Open' = {t} /\ Pending' = {t.op} /\ txs'[t.op] = t
    BY <1>1, <1>3, <1>6, <2>5
  <2> QED
    BY <1>3, <2>1, <2>2, <2>3, <2>4, <2>5, <2>6 DEF OriginalSound, Before, After, GrantAt
<1> QED
  BY <1>11, <1>12, <1>13, <1>14, <1>15, <1>16, <1>17, <1>18 DEF GrantDisk

\* What any write of an image means for the last copy of a grant: only one of
\* an archived account is at stake, and it was at the active home.
LEMMA CopyAtStake ==
  ASSUME SwitchInv, GrantInv, stage \in Applying \cup Undoing,
         NEW r \in Writes(tx), Known(tx, r), NEW v \in {Before(tx, r), After(tx, r)},
         store' = [store EXCEPT ![r] = v], UNCHANGED world,
         NEW a \in Managed \ forfeited, Live(a) \notin {store'[GrantAt], store'[Grant(a)]}
  PROVE  /\ Archives(tx, a) /\ Before(tx, GrantAt) = Live(a) /\ Whose(Live(a)) = a
         /\ After(tx, Grant(a)) = Live(a) /\ v # Live(a)
         /\ \/ r = GrantAt /\ store[GrantAt] = Live(a) /\ store[Grant(a)] # Live(a)
            \/ r = Grant(a) /\ store[Grant(a)] = Live(a) /\ store[GrantAt] # Live(a)
<1>1. /\ Typed(tx) /\ TxSound(tx) /\ ImageSound(tx) /\ FreshImages(tx) /\ tx \in Open
  BY WorkImages
<1>2. TypeOK /\ HomesSound /\ Fresh /\ latest \in [Accounts -> Nat] /\ a \in Accounts
  BY StoreKinds DEF SwitchInv, GrantInv, GrantDisk
<1>3. r \in Covers(tx) /\ r \in Resources /\ Before(tx, r) # After(tx, r)
  <2>1. r \in Covers(tx) /\ Before(tx, r) # After(tx, r)
    BY DEF Writes, Before, After
  <2> QED
    BY <1>1, <2>1, TypedFacts
<1>4. store'[r] = v /\ \A q \in Resources : q # r => store'[q] = store[q]
  BY <1>2, <1>3 DEF TypeOK
<1>5. GrantAt \in Resources /\ Grant(a) \in Resources /\ Grant(a) # GrantAt
  <2>1. a # Active /\ a \in Homes /\ Active \in Homes
    BY SwitchConstants DEF Accounts, Homes
  <2> QED
    BY <2>1, ResourceFacts DEF GrantAt, Grant
<1>6. Live(a) \in {store[GrantAt], store[Grant(a)]}
  BY DEF GrantInv, GrantDisk, Kept
<1>7. \/ r = GrantAt /\ store[GrantAt] = Live(a) /\ store[Grant(a)] # Live(a)
      \/ r = Grant(a) /\ store[Grant(a)] = Live(a) /\ store[GrantAt] # Live(a)
  BY <1>4, <1>5, <1>6
<1>8. Live(a) \in {Before(tx, r), After(tx, r)}
  BY <1>7 DEF Known, Before, After
<1>9. Archives(tx, a)
  <2>1. SUFFICES ASSUME ~Archives(tx, a) PROVE FALSE
    OBVIOUS
  <2>2. r = GrantAt /\ store[Grant(a)] # Live(a)
    BY <1>3, <1>7, <2>1 DEF Archives
  <2>3. CASE Home[a] = Active
    <3>1. Before(tx, GrantAt) = After(tx, GrantAt)
      BY <1>1, <2>1, <2>3 DEF GrantInv, GrantDisk, OpenSound, InPlaceSound
    <3> QED
      BY <1>3, <2>2, <3>1
  <2>4. CASE Home[a] # Active
    <3>1. HomeSound(tx, a)
      BY <1>1, <2>1, <2>4 DEF GrantInv, GrantDisk, OpenSound
    <3>2. PICK t : t = tx
      OBVIOUS
    <3> QED
      BY <1>2, <1>8, <2>2, <3>1, <3>2, HomeImage
  <2> QED
    BY <2>3, <2>4
<1>10. Before(tx, GrantAt) = Live(a)
  <2>1. OutgoingSound(tx, a)
    BY <1>1, <1>9 DEF GrantInv, GrantDisk, OpenSound
  <2>2. PICK t : t = tx
    OBVIOUS
  <2>3. Live(a) \in {Before(t, GrantAt), After(t, GrantAt), Before(t, Grant(a)), After(t, Grant(a))}
    BY <1>7, <1>8, <2>2
  <2> QED
    BY <1>1, <1>2, <1>9, <2>1, <2>2, <2>3, OutgoingImage
<1>11. After(tx, Grant(a)) = Live(a)
  BY <1>1, <1>9, <1>10 DEF ImageSound, ArchiveSound
<1>12. v # Live(a) /\ Whose(Live(a)) = a
  BY <1>2, <1>4, <1>7, LiveFacts
<1> QED
  BY <1>7, <1>9, <1>10, <1>11, <1>12

\* The outgoing account is archived before the active home is written.
LEMMA PutKeepsCopies ==
  ASSUME SwitchInv, GrantInv, stage = "put",
         NEW r \in todo, r = FirstOf(todo), store[r] = Before(tx, r),
         store' = [store EXCEPT ![r] = After(tx, r)], UNCHANGED world
  PROVE  Kept'
<1>1. stage \in Applying \cup Undoing /\ stage \in Forward /\ stage \notin {"save", "check"}
  BY DEF Applying, Forward
<1>2. TypeOK /\ WorkSound /\ Typed(tx)
  BY <1>1, WorkImages DEF SwitchInv
<1>3. todo \subseteq Writes(tx) /\ todo \in SUBSET Resources
  BY <1>2, TodoFacts
<1>4. r \in Writes(tx) /\ Known(tx, r)
  BY <1>3 DEF Known, Before
<1>5. ASSUME NEW a \in Managed \ forfeited, Live(a) \notin {store'[GrantAt], store'[Grant(a)]}
      PROVE  FALSE
  <2>1. PICK v \in {Before(tx, r), After(tx, r)} : v = After(tx, r)
    OBVIOUS
  <2>2. /\ Archives(tx, a) /\ After(tx, Grant(a)) = Live(a) /\ v # Live(a)
        /\ \/ r = GrantAt /\ store[GrantAt] = Live(a) /\ store[Grant(a)] # Live(a)
           \/ r = Grant(a) /\ store[Grant(a)] = Live(a) /\ store[GrantAt] # Live(a)
    BY <1>1, <1>4, <1>5, <2>1, CopyAtStake
  <2>3. r = GrantAt /\ store[Grant(a)] # Live(a)
    BY <2>1, <2>2
  <2>4. Grant(a) \notin todo
    <3>1. Rank(GrantAt) = 3 /\ Rank(Grant(a)) = 1
      BY RankOfGrants
    <3>2. \A q \in todo : Rank(r) <= Rank(q)
      BY <1>3, OrderFacts
    <3>3. ~(3 <= 1)
      OBVIOUS
    <3> QED
      BY <2>3, <3>1, <3>2, <3>3
  <2>5. store[Grant(a)] = Made(Grant(a))
    BY <1>1, <2>2 DEF GrantInv, GrantWork, ForwardSound, Archives
  <2> QED
    BY <1>1, <2>2, <2>3, <2>4, <2>5 DEF Made
<1>6. forfeited' = forfeited /\ \A a \in Managed : Live(a)' = Live(a)
  BY DEF world, Live
<1> QED
  BY <1>5, <1>6 DEF Kept, GrantAt

\* The active home is restored before the outgoing account's.
LEMMA UnputKeepsCopies ==
  ASSUME SwitchInv, GrantInv, stage = "unput",
         NEW r \in todo, r = LastOf(todo), Known(tx, r),
         store' = [store EXCEPT ![r] = Before(tx, r)], UNCHANGED world
  PROVE  Kept'
<1>1. stage \in Applying \cup Undoing /\ stage \in Backward
  BY DEF Undoing, Backward
<1>2. TypeOK /\ WorkSound /\ Typed(tx)
  BY <1>1, WorkImages DEF SwitchInv
<1>3. todo \subseteq Writes(tx) /\ todo \in SUBSET Resources
  BY <1>2, TodoFacts
<1>4. r \in Writes(tx)
  BY <1>3
<1>5. ASSUME NEW a \in Managed \ forfeited, Live(a) \notin {store'[GrantAt], store'[Grant(a)]}
      PROVE  FALSE
  <2>1. PICK v \in {Before(tx, r), After(tx, r)} : v = Before(tx, r)
    OBVIOUS
  <2>2. /\ Archives(tx, a) /\ Before(tx, GrantAt) = Live(a) /\ v # Live(a)
        /\ \/ r = GrantAt /\ store[GrantAt] = Live(a) /\ store[Grant(a)] # Live(a)
           \/ r = Grant(a) /\ store[Grant(a)] = Live(a) /\ store[GrantAt] # Live(a)
    BY <1>1, <1>4, <1>5, <2>1, CopyAtStake
  <2>3. r = Grant(a) /\ store[GrantAt] # Live(a)
    BY <2>1, <2>2
  <2>4. GrantAt \notin todo
    <3>1. Rank(GrantAt) = 3 /\ Rank(Grant(a)) = 1
      BY RankOfGrants
    <3>2. \A q \in todo : Rank(q) <= Rank(r)
      BY <1>3, OrderFacts
    <3>3. ~(3 <= 1)
      OBVIOUS
    <3> QED
      BY <2>3, <3>1, <3>2, <3>3
  <2>5. store[GrantAt] = Live(a)
    BY <1>1, <2>2, <2>4 DEF GrantInv, GrantWork, BackwardSound
  <2> QED
    BY <2>3, <2>5
<1>6. forfeited' = forfeited /\ \A a \in Managed : Live(a)' = Live(a)
  BY DEF world, Live
<1> QED
  BY <1>5, <1>6 DEF Kept, GrantAt

\* A write of an image, apart from what is left to do.
LEMMA ImageWritten ==
  ASSUME SwitchInv, GrantInv, ChoiceStays, stage \in {"put", "unput"}, todo # {},
         NEW r, r = IF stage = "put" THEN FirstOf(todo) ELSE LastOf(todo), Known(tx, r),
         stage = "put" => store[r] = Before(tx, r),
         store' = [store EXCEPT ![r] = IF stage = "put" THEN After(tx, r) ELSE Before(tx, r)],
         txs' = txs, refs' = refs, UNCHANGED world, Saving' = {}
  PROVE  /\ GrantDisk' /\ r \in Writes(tx) /\ r \in Covers(tx) /\ r \in todo /\ Typed(tx) /\ TxSound(tx)
         /\ store'[r] = IF stage = "put" THEN After(tx, r) ELSE Before(tx, r)
         /\ \A q \in Resources : q # r => store'[q] = store[q]
<1>1. stage \in Applying \cup Undoing /\ stage \in {"write", "put", "unwrite", "unput"}
  BY DEF Applying, Undoing
<1>2. TypeOK /\ WorkSound /\ Typed(tx) /\ TxSound(tx)
  BY <1>1, WorkImages DEF SwitchInv
<1>3. todo \subseteq Writes(tx) /\ todo \subseteq Covers(tx) /\ todo \subseteq Resources /\ r \in todo
  BY <1>1, <1>2, TodoFacts
<1>4. PICK v \in {Before(tx, r), After(tx, r)} :
        v = IF stage = "put" THEN After(tx, r) ELSE Before(tx, r)
  OBVIOUS
<1>5. Kept'
  <2>1. CASE stage = "put"
    BY <1>3, <2>1, PutKeepsCopies
  <2>2. CASE stage = "unput"
    BY <1>3, <2>2, UnputKeepsCopies
  <2> QED
    BY <2>1, <2>2
<1>6. GrantDisk'
  BY <1>1, <1>3, <1>4, <1>5, DiskWritten
<1>7. /\ store'[r] = IF stage = "put" THEN After(tx, r) ELSE Before(tx, r)
      /\ \A q \in Resources : q # r => store'[q] = store[q]
  BY <1>2, <1>3 DEF TypeOK
<1> QED
  BY <1>2, <1>3, <1>6, <1>7

LEMMA PutKeepsGrants ==
  ASSUME SwitchInv, GrantInv, ChoiceStays, ~Racing, Put
  PROVE  GrantInv'
<1>1. PICK r : r = FirstOf(todo)
  OBVIOUS
<1>2. /\ stage = "put" /\ stage' = "write" /\ txs' = txs /\ refs' = refs /\ UNCHANGED world
      /\ tx' = tx /\ stamp' = stamp /\ keeps' = keeps /\ todo' = todo \ {r}
      /\ store' = [store EXCEPT ![r] = After(tx, r)]
      /\ latest' = latest /\ forfeited' = forfeited /\ Home' = Home
  BY <1>1 DEF Put, Quiet, world, ChoiceStays, After
<1>3. todo # {} /\ store[r] = Before(tx, r)
  BY <1>1, <1>2 DEF SwitchInv, WorkSound, Progress, ReadSound
<1>4. Known(tx, r)
  BY <1>3 DEF Known, Before
<1>5. Saving' = {}
  BY <1>2 DEF Saving
<1>6. /\ GrantDisk' /\ r \in Covers(tx) /\ r \in todo /\ Typed(tx) /\ TxSound(tx)
      /\ store'[r] = After(tx, r) /\ \A q \in Resources : q # r => store'[q] = store[q]
  BY <1>1, <1>2, <1>3, <1>4, <1>5, ImageWritten
<1>7. /\ {GrantAt, ProfileAt, Config} \subseteq Covers(tx) /\ Covers(tx) \subseteq Resources
      /\ GrantAt # ProfileAt /\ Config \notin {GrantAt, ProfileAt}
  BY <1>6, TypedFacts, ResourceFacts DEF TxSound, GrantAt, ProfileAt
<1>8. /\ \A q : q # r => Made(q)' = Made(q)
      /\ Made(r) = Before(tx, r) /\ Made(r)' = After(tx, r)
  BY <1>2, <1>6 DEF Made, Before, After
<1>9. ForwardSound /\ stage \in Forward /\ stage' \in Forward /\ stage' \notin Backward
  BY <1>2 DEF GrantInv, GrantWork, Forward, Backward, Applying
<1>10. ForwardSound'
  <2>1. (\A a \in Managed : \A q \in {Grant(a), Profile(a)} : q \in Covers(tx) => store[q] = Made(q))'
    <3>1. Covers(tx)' = Covers(tx)
      BY <1>2 DEF Covers
    <3> QED
      BY <1>6, <1>7, <1>8, <1>9, <3>1 DEF ForwardSound
  <2>2. (\/ LoggedIn
         \/ store[ProfileAt] = Made(ProfileAt) /\ Whose(store[GrantAt]) = Whose(Made(GrantAt)))'
    <3>1. CASE LoggedIn
      <4>1. r # ProfileAt /\ r # GrantAt
        BY <1>4, <3>1 DEF LoggedIn
      <4>2. store'[GrantAt] = store[GrantAt] /\ store'[ProfileAt] = store[ProfileAt]
        BY <1>6, <1>7, <4>1
      <4> QED
        BY <1>2, <3>1, <4>2 DEF LoggedIn, Known, Whose, GrantAt, ProfileAt
    <3>2. CASE store[ProfileAt] = Made(ProfileAt) /\ Whose(store[GrantAt]) = Whose(Made(GrantAt))
      <4>1. store'[ProfileAt] = Made(ProfileAt)'
        BY <1>6, <1>7, <1>8, <3>2
      <4>2. (Whose(store[GrantAt]) = Whose(Made(GrantAt)))'
        BY <1>6, <1>7, <1>8, <3>2 DEF Whose, GrantAt
      <4> QED
        BY <4>1, <4>2 DEF ProfileAt
    <3> QED
      BY <1>9, <3>1, <3>2 DEF ForwardSound
  <2>3. (store[GrantAt] = Made(GrantAt) \/ (store[GrantAt] # Absent /\ Valid(store[GrantAt])))'
    BY <1>2, <1>6, <1>7, <1>8, <1>9 DEF ForwardSound, Valid, Live, GrantAt
  <2>4. (store[Config].mode = Made(Config).mode)'
    BY <1>6, <1>7, <1>8, <1>9 DEF ForwardSound
  <2>5. (\A a \in Managed \ forfeited :
          ~Archives(tx, a) /\ Home[a] # Active /\ Aim(tx) = a => After(tx, GrantAt) = store[Grant(a)])'
    <3>1. \A a \in Managed : ~Archives(tx, a) => store'[Grant(a)] = store[Grant(a)]
      BY <1>6, <1>7, ResourceFacts DEF Archives, Homes
    <3> QED
      BY <1>2, <1>9, <3>1 DEF ForwardSound, Archives, Covers, Aim, After, GrantAt
  <2> QED
    BY <2>1, <2>2, <2>3, <2>4, <2>5 DEF ForwardSound
<1>11. Ready' /\ BackwardSound'
  BY <1>2 DEF Ready, BackwardSound, Backward
<1>12. StampSound'
  BY <1>2, <1>9 DEF GrantInv, GrantWork, StampSound, After, GrantAt
<1> QED
  BY <1>6, <1>10, <1>11, <1>12 DEF GrantInv, GrantWork

LEMMA PutFailsKeepsGrants ==
  ASSUME SwitchInv, GrantInv, ChoiceStays, ~Racing, PutFails
  PROVE  GrantInv'
<1>1. PICK r : r = FirstOf(todo)
  OBVIOUS
<1>2. /\ stage = "put" /\ stage' = "undo" /\ txs' = txs /\ refs' = refs /\ UNCHANGED world
      /\ \/ store' = store
         \/ store' = [store EXCEPT ![r] = After(tx, r)]
  BY <1>1 DEF PutFails, Undo, Quiet, world, After
<1>3. todo # {} /\ store[r] = Before(tx, r)
  BY <1>1, <1>2 DEF SwitchInv, WorkSound, Progress, ReadSound
<1>4. Known(tx, r)
  BY <1>3 DEF Known, Before
<1>5. GrantWork' /\ Saving' = {}
  BY <1>2, WorkOver
<1>6. CASE store' = store
  <2>1. UNCHANGED disk
    BY <1>2, <1>6 DEF disk
  <2> QED
    BY <1>2, <1>5, <2>1, DiskQuiet DEF GrantInv
<1>7. CASE store' = [store EXCEPT ![r] = After(tx, r)]
  BY <1>1, <1>2, <1>3, <1>4, <1>5, <1>7, ImageWritten DEF GrantInv
<1> QED
  BY <1>2, <1>6, <1>7

LEMMA UnputKeepsGrants ==
  ASSUME SwitchInv, GrantInv, ChoiceStays, ~Racing, Unput
  PROVE  GrantInv'
<1>1. PICK r : r = LastOf(todo)
  OBVIOUS
<1>2. /\ stage = "unput" /\ txs' = txs /\ refs' = refs /\ UNCHANGED world
      /\ store' = [store EXCEPT ![r] = Before(tx, r)]
      /\ latest' = latest /\ forfeited' = forfeited
      /\ \/ todo' = todo \ {r} /\ stage' = "unwrite" /\ tx' = tx
         \/ AttemptFails
  BY <1>1 DEF Unput, Quiet, world, Before
<1>3. todo # {} /\ Known(tx, r)
  BY <1>1, <1>2 DEF SwitchInv, WorkSound, Progress, ReadSound
<1>4. stage \in Undoing /\ stage \in Applying \cup Undoing /\ stage \in Backward /\ stage # "put"
  BY <1>2 DEF Undoing, Backward
<1>5. Saving' = {} => /\ GrantDisk' /\ r \in Covers(tx) /\ r \in todo /\ Typed(tx) /\ TxSound(tx)
        /\ store'[r] = Before(tx, r) /\ \A q \in Resources : q # r => store'[q] = store[q]
  BY <1>1, <1>2, <1>3, <1>4, ImageWritten
<1>6. CASE AttemptFails
  <2>1. GrantWork' /\ Saving' = {}
    BY <1>6, AttemptOver, WorkOver DEF Return, Undo
  <2> QED
    BY <1>5, <2>1 DEF GrantInv
<1>7. CASE todo' = todo \ {r} /\ stage' = "unwrite" /\ tx' = tx
  <2>1. Saving' = {}
    BY <1>7 DEF Saving
  <2>2. /\ GrantDisk' /\ r \in Covers(tx) /\ r \in todo /\ Typed(tx) /\ TxSound(tx)
        /\ store'[r] = Before(tx, r) /\ \A q \in Resources : q # r => store'[q] = store[q]
    BY <1>5, <2>1
  <2>3. /\ {GrantAt, ProfileAt, Config} \subseteq Covers(tx) /\ Covers(tx) \subseteq Resources
        /\ GrantAt # ProfileAt /\ Config \notin {GrantAt, ProfileAt}
    BY <2>2, TypedFacts, ResourceFacts DEF TxSound, GrantAt, ProfileAt
  <2>4. BackwardSound
    BY DEF GrantInv, GrantWork
  <2>5. \A a \in Managed : Archives(tx, a) => Known(tx, Grant(a))
    BY <1>4, <2>4 DEF BackwardSound, Archives
  <2>6. GrantAt \notin todo' =>
            /\ \A a \in Managed \ forfeited : Archives(tx, a) => store'[GrantAt] = Live(a)
            /\ Original \notin forfeited => store'[GrantAt] = Live(Original) \/ Recorded(Live(Original))
    <3>1. CASE GrantAt = r
      <4>1. store'[GrantAt] = Before(tx, GrantAt) /\ Known(tx, GrantAt)
        BY <1>3, <2>2, <3>1
      <4>2. \A a \in Managed \ forfeited : Archives(tx, a) => Before(tx, GrantAt) = Live(a)
        BY <1>4, <2>5, <4>1, TakenBack
      <4>3. Original \notin forfeited => Before(tx, GrantAt) = Live(Original) \/ Recorded(Live(Original))
        BY <1>4, <4>1, OriginalBack
      <4> QED
        BY <4>1, <4>2, <4>3
    <3>2. CASE GrantAt # r
      <4>1. store'[GrantAt] = store[GrantAt]
        BY <2>2, <2>3, <3>2
      <4>2. GrantAt \notin todo' => GrantAt \notin todo
        BY <1>7, <3>2
      <4> QED
        BY <1>4, <2>4, <4>1, <4>2 DEF BackwardSound
    <3> QED
      BY <3>1, <3>2
  <2>7. BackwardSound'
    <3>1. (\A a \in Managed : \A q \in {Grant(a), Profile(a)} : q \in Covers(tx) =>
            Known(tx, q) /\ (q \notin todo => store[q] = Before(tx, q)))'
      BY <1>4, <1>7, <2>2, <2>3, <2>4 DEF BackwardSound, Covers, Known, Before
    <3>2. (\/ LoggedIn
           \/ /\ ProfileAt \notin todo => store[ProfileAt] = Before(tx, ProfileAt)
              /\ GrantAt \notin todo => Whose(store[GrantAt]) = Whose(Before(tx, GrantAt)))'
      <4>1. CASE LoggedIn
        <5>1. r # ProfileAt /\ r # GrantAt
          BY <1>3, <4>1 DEF LoggedIn
        <5>2. store'[GrantAt] = store[GrantAt] /\ store'[ProfileAt] = store[ProfileAt]
          BY <2>2, <2>3, <5>1
        <5> QED
          BY <1>7, <4>1, <5>2 DEF LoggedIn, Known, Whose, GrantAt, ProfileAt
      <4>2. CASE /\ ProfileAt \notin todo => store[ProfileAt] = Before(tx, ProfileAt)
                 /\ GrantAt \notin todo => Whose(store[GrantAt]) = Whose(Before(tx, GrantAt))
        <5>1. ProfileAt \notin todo' => store'[ProfileAt] = Before(tx, ProfileAt)
          BY <1>7, <2>2, <2>3, <4>2
        <5>2. GrantAt \notin todo' => Whose(store'[GrantAt]) = Whose(Before(tx, GrantAt))
          BY <1>7, <2>2, <2>3, <4>2
        <5> QED
          BY <1>7, <5>1, <5>2 DEF Whose, Before, GrantAt, ProfileAt
      <4> QED
        BY <1>4, <2>4, <4>1, <4>2 DEF BackwardSound
    <3>3. (Config \notin todo => store[Config].mode = Before(tx, Config).mode)'
      BY <1>4, <1>7, <2>2, <2>3, <2>4 DEF BackwardSound, Before
    <3>4. (GrantAt \notin todo =>
            /\ \A a \in Managed \ forfeited : Archives(tx, a) => store[GrantAt] = Live(a)
            /\ Original \notin forfeited => store[GrantAt] = Live(Original) \/ Recorded(Live(Original)))'
      BY <1>2, <1>7, <2>6 DEF GrantAt, Archives, Covers, Live, Recorded, Before, After
    <3> QED
      BY <1>7, <3>1, <3>2, <3>3, <3>4 DEF BackwardSound
  <2>8. Ready' /\ ForwardSound' /\ StampSound'
    BY <1>7 DEF Ready, ForwardSound, StampSound, Forward, Applying
  <2> QED
    BY <2>2, <2>7, <2>8 DEF GrantInv, GrantWork
<1> QED
  BY <1>2, <1>6, <1>7

-----------------------------------------------------------------------------
(* Writes by others *)

LEMMA UserEditsKeepsGrants ==
  ASSUME SwitchInv, GrantInv, ChoiceStays, UserEdits
  PROVE  GrantInv'
<1>1. /\ store' = [store EXCEPT ![Config].user = @ + 1] /\ refs' = refs /\ txs' = txs
      /\ UNCHANGED oper /\ UNCHANGED world
  BY DEF UserEdits
<1>2. /\ stage' = stage /\ stamp' = stamp /\ tx' = tx /\ todo' = todo /\ keeps' = keeps
      /\ latest' = latest /\ forfeited' = forfeited /\ Home' = Home
  BY <1>1 DEF oper, world, ChoiceStays
<1>3. /\ \A r \in Resources : r # Config => store'[r] = store[r]
      /\ store'[Config].mode = store[Config].mode
  <2>1. store \in [Resources -> Contents] /\ Config \in Resources
    BY ResourceFacts DEF SwitchInv, TypeOK
  <2>2. store[Config] \in Configs
    BY StoreKinds DEF SwitchInv
  <2>3. store' = [store EXCEPT ![Config] = [store[Config] EXCEPT !.user = store[Config].user + 1]]
    BY <1>1
  <2>4. [store[Config] EXCEPT !.user = store[Config].user + 1].mode = store[Config].mode
    BY <2>2 DEF Configs
  <2> QED
    BY <2>1, <2>3, <2>4
<1>4. /\ \A h \in Homes : store'[Grant(h)] = store[Grant(h)] /\ store'[Profile(h)] = store[Profile(h)]
      /\ store'[Binding] = store[Binding]
  BY <1>3, ResourceFacts
<1>5. HomesSame /\ WorldSame
  BY <1>2, <1>3, <1>4, WorldUnchanged DEF HomesSame, SwitchInv
<1>6. RefsKnown'
  BY <1>1, RefsSame DEF GrantInv, GrantDisk
<1>7. Saving' = Saving
  BY <1>2 DEF Saving
<1>8. GrantDisk'
  BY <1>1, <1>5, <1>6, <1>7, DiskStill DEF GrantInv
<1>9. /\ store'[GrantAt] = store[GrantAt] /\ store'[ProfileAt] = store[ProfileAt] /\ Mismatch' = Mismatch
      /\ \A a \in Managed : store'[Grant(a)] = store[Grant(a)] /\ store'[Profile(a)] = store[Profile(a)]
  BY <1>4, <1>5, SameFacts DEF Homes
<1>10. Ready'
  BY <1>2, <1>9 DEF GrantInv, GrantWork, Ready, Live, Whose, GrantAt
<1>11. ForwardSound'
  <2>1. \A r : Made(r)' = Made(r)
    BY <1>2 DEF Made, Before, After
  <2>2. Covers(tx)' = Covers(tx) /\ ForwardSound
    BY <1>2 DEF Covers, GrantInv, GrantWork
  <2>3. stage \in Forward => (\A a \in Managed : \A r \in {Grant(a), Profile(a)} : r \in Covers(tx) => store[r] = Made(r))'
    BY <1>9, <2>1, <2>2 DEF ForwardSound
  <2>4. stage \in Forward => (\A a \in Managed \ forfeited :
          ~Archives(tx, a) /\ Home[a] # Active /\ Aim(tx) = a => After(tx, GrantAt) = store[Grant(a)])'
    BY <1>2, <1>9, <2>2 DEF ForwardSound, Archives, Covers, Aim, After, GrantAt
  <2>5. stage \in Forward =>
          (\/ LoggedIn
           \/ store[ProfileAt] = Made(ProfileAt) /\ Whose(store[GrantAt]) = Whose(Made(GrantAt)))'
    BY <1>2, <1>9, <2>1, <2>2 DEF ForwardSound, LoggedIn, Known, Whose, GrantAt, ProfileAt
  <2>6. stage \in Forward =>
          (/\ store[GrantAt] = Made(GrantAt) \/ (store[GrantAt] # Absent /\ Valid(store[GrantAt]))
           /\ store[Config].mode = Made(Config).mode)'
    BY <1>2, <1>3, <1>9, <2>1, <2>2 DEF ForwardSound, Valid, Live, GrantAt
  <2> QED
    BY <1>2, <2>3, <2>4, <2>5, <2>6 DEF ForwardSound
<1>12. BackwardSound'
  <2>1. BackwardSound
    BY DEF GrantInv, GrantWork
  <2>2. stage \in Backward =>
          (\A a \in Managed : \A r \in {Grant(a), Profile(a)} : r \in Covers(tx) =>
            Known(tx, r) /\ (r \notin todo => store[r] = Before(tx, r)))'
    <3>1. Covers(tx)' = Covers(tx)
      BY <1>2 DEF Covers
    <3>2. \A a \in Managed : \A r \in {Grant(a), Profile(a)} : store'[r] = store[r]
      BY <1>9
    <3> QED
      BY <1>2, <2>1, <3>1, <3>2 DEF BackwardSound, Before, Known
  <2>3. stage \in Backward =>
          (/\ \/ LoggedIn
              \/ /\ ProfileAt \notin todo => store[ProfileAt] = Before(tx, ProfileAt)
                 /\ GrantAt \notin todo => Whose(store[GrantAt]) = Whose(Before(tx, GrantAt))
           /\ Config \notin todo => store[Config].mode = Before(tx, Config).mode)'
    BY <1>2, <1>3, <1>9, <2>1 DEF BackwardSound, LoggedIn, Known, Whose, Before, GrantAt, ProfileAt
  <2>4. stage \in Backward =>
          (GrantAt \notin todo =>
            /\ \A a \in Managed \ forfeited : Archives(tx, a) => store[GrantAt] = Live(a)
            /\ Original \notin forfeited => store[GrantAt] = Live(Original) \/ Recorded(Live(Original)))'
    BY <1>1, <1>2, <1>9, <2>1 DEF BackwardSound, GrantAt, Archives, Covers, Live, Recorded, Before, After
  <2> QED
    BY <1>2, <2>1, <2>2, <2>3, <2>4 DEF BackwardSound
<1>13. StampSound'
  BY <1>2 DEF GrantInv, GrantWork, StampSound, Before, After, Whose, Dated, GrantAt, Live
<1> QED
  BY <1>8, <1>10, <1>11, <1>12, <1>13 DEF GrantInv, GrantWork

\* A grant that the vendor has just made is in no image.
LEMMA FreshGrant ==
  ASSUME SwitchInv, NEW b \in Accounts, NEW g, g = [acct |-> b, gen |-> latest[b] + 1],
         latest' = [latest EXCEPT ![b] = @ + 1]
  PROVE  /\ Advances /\ \A a \in Accounts : a # b => latest'[a] = latest[a] /\ Live(a)' = Live(a)
         /\ latest'[b] = latest[b] + 1 /\ latest[b] \in Nat
         /\ g \in Grants /\ g.acct = b /\ g.gen = latest[b] + 1 /\ g # Absent /\ Whose(g) = b
         /\ Live(b)' = g /\ Dated(g)'
         /\ \A v \in Grants \cup {Absent} : Dated(v) => v # g
<1>1. latest \in [Accounts -> Nat]
  BY DEF SwitchInv, TypeOK
<1>2. latest[b] \in Nat /\ latest'[b] = latest[b] + 1 /\ \A a \in Accounts : a # b => latest'[a] = latest[a]
  BY <1>1
<1>3. latest' \in [Accounts -> Nat]
  BY <1>1
<1>4. Advances
  <2>1. \A a \in Accounts : latest[a] \in Nat
    BY <1>1
  <2> QED
    BY <1>2, <1>3, <2>1 DEF Advances
<1>5. \A a \in Accounts : a # b => Live(a)' = Live(a)
  BY <1>2 DEF Live
<1>6. PICK n \in Nat : n = latest[b] + 1
  BY <1>2
<1>7. Live(b)' = g
  BY <1>2 DEF Live
<1>8. g \in Grants /\ g.acct = b /\ g.gen = n
  BY <1>6 DEF Grants
<1>9. g # Absent /\ Whose(g) = b
  BY <1>8, WhoseFacts
<1>10. g.gen = latest[b] + 1
  BY <1>6, <1>8
<1>11. Dated(g)'
  BY <1>2, <1>8, <1>10 DEF Dated
<1>12. ASSUME NEW v \in Grants \cup {Absent}, Dated(v), v = g
       PROVE  FALSE
  BY <1>2, <1>8, <1>9, <1>10, <1>12 DEF Dated
<1> QED
  BY <1>2, <1>4, <1>5, <1>7, <1>8, <1>9, <1>10, <1>11, <1>12

\* The tool, or AIPass in its place, rotates the grant at the active home, which
\* no gateway's binding fingerprints unless a switch is pending.
LEMMA ActiveRotates ==
  ASSUME SwitchInv, GrantInv, ChoiceStays, stage \notin {"put", "unput"},
         NEW b \in Accounts, store[GrantAt] = Live(b),
         NEW g, g = [acct |-> b, gen |-> latest[b] + 1],
         latest' = [latest EXCEPT ![b] = @ + 1], store' = [store EXCEPT ![GrantAt] = g],
         refs' = refs, txs' = txs, forfeited' = forfeited,
         tx' = tx, stamp' = stamp, todo' = todo, keeps' = keeps,
         \/ stage' = stage
         \/ stage = "renew" /\ stage' = "prepare",
         Pending = {} => ~ByGateway(store[Binding])
  PROVE  GrantInv'
<1>1. /\ Advances /\ \A a \in Accounts : a # b => latest'[a] = latest[a] /\ Live(a)' = Live(a)
      /\ g \in Grants /\ g # Absent /\ Whose(g) = b /\ Live(b)' = g /\ Dated(g)'
      /\ \A v \in Grants \cup {Absent} : Dated(v) => v # g
  BY FreshGrant
<1>2. TypeOK /\ DiskSound /\ WorkSound /\ GrantDisk /\ GrantWork
  BY DEF SwitchInv, GrantInv
<1>3. Home' = Home /\ OldBinding' = OldBinding /\ Pending' = Pending
  BY DEF ChoiceStays, Pending
<1>4. /\ Managed \subseteq Accounts /\ Original \in Accounts /\ Original \notin Managed
      /\ Managed \subseteq Homes /\ Active \in Homes /\ Active \notin Managed
      /\ latest \in [Accounts -> Nat]
  BY <1>2, StoreKinds
<1>5. /\ store'[GrantAt] = g /\ \A r \in Resources : r # GrantAt => store'[r] = store[r]
  BY <1>2, <1>4, ResourceFacts DEF TypeOK, GrantAt
<1>6. /\ \A h \in Homes : h # Active => store'[Grant(h)] = store[Grant(h)]
      /\ \A h \in Homes : store'[Profile(h)] = store[Profile(h)]
      /\ store'[ProfileAt] = store[ProfileAt] /\ store'[Binding] = store[Binding]
      /\ store'[Config] = store[Config]
  <2>1. /\ \A h \in Homes : h # Active => Grant(h) # GrantAt /\ Grant(h) \in Resources
        /\ \A h \in Homes : Profile(h) # GrantAt /\ Profile(h) \in Resources
        /\ Binding # GrantAt /\ Config # GrantAt /\ Binding \in Resources /\ Config \in Resources
    BY <1>4, ResourceFacts DEF GrantAt, Grant
  <2> QED
    BY <1>4, <1>5, <2>1 DEF ProfileAt
<1>7. \A a \in Managed : /\ store'[Grant(a)] = store[Grant(a)] /\ store'[Profile(a)] = store[Profile(a)]
                         /\ (Paired(a) => Paired(a)')
  BY <1>4, <1>6 DEF Paired, Whose
<1>8. Whose(store[GrantAt]) = b /\ Whose(store'[GrantAt]) = b /\ Live(b) # Absent
  BY <1>1, <1>4, <1>5, LiveFacts
<1>9. \A a \in Accounts : store[GrantAt] = Live(a) => a = b
  BY <1>4, <1>8, LiveFacts
<1>10. Saving' = Saving
  BY DEF Saving
<1>11. Files' = Files /\ Open' = Open
  BY <1>3, <1>10 DEF Files, Open
<1>12. \A a \in Managed : AtActive(a) => AtActive(a)'
  <2> TAKE a \in Managed
  <2>1. CASE a = b
    BY <1>1, <1>5, <2>1 DEF AtActive
  <2>2. CASE a # b
    BY <1>1, <1>4, <1>5, <1>7, <1>8, <1>9, <2>2 DEF AtActive, Whose
  <2> QED
    BY <2>1, <2>2
<1>13. \A a \in Managed : a # b => Live(a)' = Live(a)
  BY <1>1, <1>4
<1>14. GrantDisk'
  <2>1. ImagesSound'
    BY <1>2, <1>11, ImagesStay DEF GrantDisk
  <2>2. Fresh'
    <3>1. (\A t \in Files : FreshImages(t))'
      BY <1>1, <1>2, <1>11, FreshFiles DEF GrantDisk
    <3>2. ASSUME NEW h \in Homes
          PROVE  Dated(store[Grant(h)])' /\ Signed(store[Profile(h)])'
      <4>1. Dated(store[Grant(h)]) /\ Signed(store[Profile(h)])
        BY <1>2 DEF GrantDisk, Fresh
      <4>2. /\ store[Grant(h)] \in Grants \cup {Absent} /\ store[Profile(h)] \in Profiles \cup {Absent}
        BY <1>2, StoreKinds
      <4>3. Signed(store[Profile(h)])'
        BY <1>1, <1>4, <1>6, <4>1, <4>2, DatedStays DEF Signed
      <4>4. CASE h = Active
        BY <1>1, <1>5, <4>3, <4>4 DEF Dated, GrantAt
      <4>5. CASE h # Active
        BY <1>1, <1>4, <1>6, <4>1, <4>2, <4>3, <4>5, DatedStays DEF Dated
      <4> QED
        BY <4>4, <4>5
    <3> QED
      BY <3>1, <3>2 DEF Fresh
  <2>3. HomesSound'
    BY <1>2, <1>3, <1>7 DEF GrantDisk, HomesSound, Whose, Archives, Covers
  <2>4. Placed'
    <3>1. CASE Pending = {}
      <4>1. /\ Paired(Active) /\ ~ByGateway(store[Binding])
            /\ \A a \in Managed : Whose(store[GrantAt]) = a => Home[a] = Active
        BY <1>2, <3>1 DEF GrantDisk, Placed
      <4>2. Paired(Active)'
        BY <1>5, <1>6, <1>8, <4>1 DEF Paired, Whose, GrantAt, ProfileAt
      <4>3. ~ByGateway(store[Binding])'
        BY <1>6, <4>1 DEF ByGateway
      <4>4. \A a \in Managed : Whose(store'[GrantAt]) = a => Home[a] = Active
        BY <1>8, <4>1
      <4>5. ASSUME NEW a \in Managed \ forfeited
            PROVE  IF Home[a] = Active THEN AtActive(a)' ELSE AtHome(a)'
        <5>1. IF Home[a] = Active THEN AtActive(a) ELSE AtHome(a)
          BY <1>2, <3>1 DEF GrantDisk, Placed
        <5>2. CASE Home[a] = Active
          BY <1>12, <5>1, <5>2
        <5>3. CASE Home[a] # Active
          <6>1. a # b
            BY <1>8, <4>1, <5>3
          <6>2. store[Grant(a)] = Live(a)
            BY <1>4, <1>9, <5>1, <5>3, <6>1 DEF AtHome
          <6> QED
            BY <1>7, <1>13, <5>3, <6>1, <6>2 DEF AtHome
        <5> QED
          BY <5>2, <5>3
      <4> QED
        BY <1>3, <4>2, <4>3, <4>4, <4>5 DEF Placed, Whose, GrantAt
    <3> QED
      BY <1>3, <3>1 DEF Placed
  <2>5. Kept'
    <3>1. ASSUME NEW a \in Managed \ forfeited
          PROVE  Live(a)' \in {store'[GrantAt], store'[Grant(a)]}
      <4>1. Live(a) \in {store[GrantAt], store[Grant(a)]}
        BY <1>2 DEF GrantDisk, Kept
      <4>2. CASE a = b
        BY <1>1, <1>5, <4>2
      <4>3. CASE a # b
        BY <1>4, <1>7, <1>9, <1>13, <4>1, <4>3
      <4> QED
        BY <4>2, <4>3
    <3> QED
      BY <3>1 DEF Kept, GrantAt
  <2>6. Unswitched'
    BY <1>2, <1>3, <1>7 DEF GrantDisk, Unswitched, Archives, Covers, Before
  <2>7. OpenSound'
    BY <1>2, <1>3, <1>7, <1>11, <1>12 DEF GrantDisk, OpenSound, OutgoingSound, InPlaceSound, HomeSound,
       Archives, Covers, Before, After, NoNewer, Whose, GrantAt
  <2>8. RefsKnown'
    BY <1>2, RefsSame DEF GrantDisk
  <2>9. OriginalSound'
    <3>1. CASE b = Original
      <4>1. \A t \in Open : After(t, GrantAt) # g
        <5> TAKE t \in Open
        <5>1. t \in Files
          BY OpenFiles
        <5>2. Typed(t) /\ TxSound(t) /\ FreshImages(t)
          BY <1>2, <5>1, FilesTyped DEF GrantDisk, Fresh
        <5>3. After(t, GrantAt) \in Grants \cup {Absent} /\ GrantAt \in Covers(t)
          BY <5>2, ImageKinds
        <5>4. Dated(After(t, GrantAt))
          BY <1>4, <5>2, <5>3 DEF FreshImages, GrantAt
        <5> QED
          BY <1>1, <5>3, <5>4
      <4> QED
        BY <1>1, <1>5, <1>11, <3>1, <4>1 DEF OriginalSound, After, GrantAt
    <3>2. CASE b # Original
      <4>1. Live(Original)' = Live(Original) /\ store[GrantAt] # Live(Original)
        BY <1>1, <1>4, <1>9, <3>2
      <4>2. Recorded(Live(Original)) => Recorded(Live(Original))'
        BY <4>1 DEF Recorded, Before, After, GrantAt
      <4> QED
        BY <1>2, <1>3, <1>11, <4>1, <4>2 DEF GrantDisk, OriginalSound, Before, After, GrantAt
    <3> QED
      BY <3>1, <3>2
  <2> QED
    BY <2>1, <2>2, <2>3, <2>4, <2>5, <2>6, <2>7, <2>8, <2>9 DEF GrantDisk
<1>15. Ready'
  <2>1. SUFFICES ASSUME stage' \in {"renew", "prepare"} PROVE Ready'
    BY DEF Ready
  <2>2. stage \in {"renew", "prepare"} /\ Pending = {}
    BY <1>2, <2>1 DEF WorkSound, Early
  <2>3. ~ByGateway(store[Binding])' /\ ~ByGateway(store[Binding])
    BY <1>6, <2>2 DEF ByGateway
  <2>4. b \in Managed => Home[b] = Active
    BY <1>2, <1>8, <2>2, <2>3 DEF GrantDisk, Placed
  <2>5. \A a \in Managed \ forfeited : Home[a] # Active => store'[Grant(a)] = Live(a)'
    BY <1>2, <1>7, <1>13, <2>2, <2>4 DEF GrantWork, Ready
  <2> QED
    BY <1>3, <2>3, <2>5 DEF Ready, Mismatch
<1>16. stage \in Forward \cup Undoing => g \notin {Before(tx, GrantAt), After(tx, GrantAt)} /\ GrantAt \in Covers(tx)
  <2>1. SUFFICES ASSUME stage \in Forward \cup Undoing
                 PROVE  g \notin {Before(tx, GrantAt), After(tx, GrantAt)} /\ GrantAt \in Covers(tx)
    OBVIOUS
  <2>2. tx \in Files
    BY <2>1, WorkFiles
  <2>3. Typed(tx) /\ TxSound(tx) /\ FreshImages(tx)
    BY <1>2, <2>2, FilesTyped DEF GrantDisk, Fresh
  <2>4. /\ Before(tx, GrantAt) \in Grants \cup {Absent} /\ After(tx, GrantAt) \in Grants \cup {Absent}
        /\ GrantAt \in Covers(tx)
    BY <2>3, ImageKinds
  <2>5. Dated(Before(tx, GrantAt)) /\ Dated(After(tx, GrantAt))
    BY <1>4, <2>3, <2>4 DEF FreshImages, GrantAt
  <2> QED
    BY <1>1, <2>4, <2>5
<1>17. stage \in Forward \cup Backward => (LoggedIn => LoggedIn')
  <2>1. SUFFICES ASSUME stage \in Forward \cup Backward, LoggedIn PROVE LoggedIn'
    OBVIOUS
  <2>2. stage \in Forward \cup Undoing
    BY <2>1 DEF Backward, Undoing
  <2>3. b = Original
    BY <1>8, <2>1 DEF LoggedIn
  <2>4. ~Known(tx, GrantAt)'
    BY <1>5, <1>16, <2>2 DEF Known, Before, After, GrantAt
  <2>5. ~Known(tx, ProfileAt)'
    BY <1>6, <2>1 DEF LoggedIn, Known, ProfileAt
  <2> QED
    BY <1>6, <1>8, <2>1, <2>3, <2>4, <2>5 DEF LoggedIn, Whose, GrantAt, ProfileAt
<1>18. ForwardSound'
  <2>1. SUFFICES ASSUME stage' \in Forward PROVE ForwardSound'
    BY DEF ForwardSound
  <2>2. stage \in Forward /\ stage' = stage /\ ForwardSound
    BY <1>2, <2>1 DEF GrantWork, Forward, Applying
  <2>3. \A r : Made(r)' = Made(r)
    BY <2>2 DEF Made, Before, After
  <2>4. Covers(tx)' = Covers(tx)
    BY DEF Covers
  <2>5. (\A a \in Managed : \A r \in {Grant(a), Profile(a)} : r \in Covers(tx) => store[r] = Made(r))'
    BY <1>7, <2>2, <2>3, <2>4 DEF ForwardSound
  <2>6. (\/ LoggedIn
         \/ store[ProfileAt] = Made(ProfileAt) /\ Whose(store[GrantAt]) = Whose(Made(GrantAt)))'
    BY <1>6, <1>8, <1>17, <2>2, <2>3 DEF ForwardSound, Whose, GrantAt, ProfileAt
  <2>7. (store[GrantAt] = Made(GrantAt) \/ (store[GrantAt] # Absent /\ Valid(store[GrantAt])))'
    <3>1. g.acct = b
      BY FreshGrant
    <3> QED
      BY <1>1, <1>5, <3>1 DEF Valid, GrantAt, Live
  <2>8. (store[Config].mode = Made(Config).mode)'
    BY <1>6, <2>2, <2>3 DEF ForwardSound
  <2>9. (\A a \in Managed \ forfeited :
          ~Archives(tx, a) /\ Home[a] # Active /\ Aim(tx) = a => After(tx, GrantAt) = store[Grant(a)])'
    BY <1>3, <1>7, <2>2 DEF ForwardSound, Archives, Covers, Aim, After, GrantAt
  <2> QED
    BY <2>5, <2>6, <2>7, <2>8, <2>9 DEF ForwardSound
<1>19. BackwardSound'
  <2>1. SUFFICES ASSUME stage' \in Backward PROVE BackwardSound'
    BY DEF BackwardSound, Backward
  <2>2. stage \in Backward /\ stage' = stage /\ BackwardSound
    BY <1>2, <2>1 DEF GrantWork, Backward
  <2>3. (\A a \in Managed : \A r \in {Grant(a), Profile(a)} : r \in Covers(tx) =>
          Known(tx, r) /\ (r \notin todo => store[r] = Before(tx, r)))'
    <3>1. Covers(tx)' = Covers(tx)
      BY DEF Covers
    <3>2. \A a \in Managed : \A r \in {Grant(a), Profile(a)} : store'[r] = store[r]
      BY <1>7
    <3> QED
      BY <2>2, <3>1, <3>2 DEF BackwardSound, Before, Known
  <2>4. (\/ LoggedIn
         \/ /\ ProfileAt \notin todo => store[ProfileAt] = Before(tx, ProfileAt)
            /\ GrantAt \notin todo => Whose(store[GrantAt]) = Whose(Before(tx, GrantAt)))'
    BY <1>6, <1>8, <1>17, <2>2 DEF BackwardSound, Whose, Before, GrantAt, ProfileAt
  <2>5. (Config \notin todo => store[Config].mode = Before(tx, Config).mode)'
    BY <1>6, <2>2 DEF BackwardSound, Before
  <2>6. ASSUME GrantAt \notin todo
        PROVE  /\ \A a \in Managed \ forfeited : Archives(tx, a) => store'[GrantAt] = Live(a)'
               /\ Original \notin forfeited => store'[GrantAt] = Live(Original)' \/ Recorded(Live(Original))'
    <3>1. \A a \in Managed \ forfeited : Archives(tx, a) => store'[GrantAt] = Live(a)'
      BY <1>1, <1>4, <1>5, <1>9, <2>2, <2>6 DEF BackwardSound
    <3>2. ASSUME Original \notin forfeited
          PROVE  store'[GrantAt] = Live(Original)' \/ Recorded(Live(Original))'
      <4>1. CASE b = Original
        BY <1>1, <1>5, <4>1
      <4>2. CASE b # Original
        <5>1. Live(Original)' = Live(Original) /\ store[GrantAt] # Live(Original)
          BY <1>1, <1>4, <1>9, <4>2
        <5>2. Recorded(Live(Original))
          BY <2>2, <2>6, <3>2, <5>1 DEF BackwardSound
        <5> QED
          BY <5>1, <5>2 DEF Recorded, Before, After, GrantAt
      <4> QED
        BY <4>1, <4>2
    <3> QED
      BY <3>1, <3>2
  <2> QED
    BY <2>1, <2>2, <2>3, <2>4, <2>5, <2>6 DEF BackwardSound, Archives, Covers, GrantAt
<1>20. StampSound'
  <2>1. StampSound
    BY <1>2 DEF GrantWork
  <2>2. stage \in {"idle", "renew", "prepare", "restore"} <=> stage' \in {"idle", "renew", "prepare", "restore"}
    OBVIOUS
  <2>3. stage \in Forward <=> stage' \in Forward
    BY DEF Forward, Applying
  <2>4. stage = "restore" /\ stamp # Absent =>
          /\ Dated(stamp)'
          /\ \/ stamp = Before(tx, GrantAt) \/ Original \in forfeited \/ stamp # Live(Original)'
    <3>1. SUFFICES ASSUME stage = "restore", stamp # Absent
                   PROVE  /\ Dated(stamp)'
                          /\ \/ stamp = Before(tx, GrantAt) \/ Original \in forfeited
                             \/ stamp # Live(Original)'
      OBVIOUS
    <3>2. stamp \in Grants \cup {Absent} /\ Dated(stamp)
      BY <1>2, <2>1, <3>1 DEF TypeOK, StampSound
    <3>3. Dated(stamp)'
      BY <1>1, <1>4, <3>2, DatedStays DEF Dated
    <3>4. stamp = Before(tx, GrantAt) \/ Original \in forfeited \/ stamp # Live(Original)'
      BY <1>1, <1>4, <2>1, <3>1, <3>2 DEF StampSound
    <3> QED
      BY <3>3, <3>4
  <2> QED
    BY <2>1, <2>2, <2>3, <2>4 DEF StampSound, Before, After, Whose, Dated, GrantAt
<1> QED
  BY <1>14, <1>15, <1>18, <1>19, <1>20 DEF GrantInv, GrantWork

\* An account whose own home is referenced is not at the active home, unless a
\* pending transaction archives it.
LEMMA ReferencedHome ==
  ASSUME SwitchInv, GrantInv, NEW h \in Managed, NEW a \in Managed, refs[a] = h
  PROVE  /\ Pending = {} => Home[h] # Active
         /\ \A op \in Pending : ~Archives(txs[op], h) => Home[h] # Active
<1>1. TypeOK /\ DiskSound /\ WorkSound /\ h # Active
  BY SwitchConstants DEF SwitchInv, Accounts
<1>2. PICK c \in Managed \cup {Gateway, Absent} : Home = HomesFor(c)
  BY <1>1 DEF DiskSound, ChoiceSound
<1>3. \A d \in Managed : Home[d] \in {d, Active}
  BY <1>2 DEF HomesFor
<1>4. CASE Pending = {}
  <2>1. refs[a] = Home[a]
    BY <1>4, NonePending
  <2>2. a = h
    BY <1>1, <1>3, <2>1
  <2> QED
    BY <1>1, <1>4, <2>1, <2>2
<1>5. ASSUME NEW op \in Pending, ~Archives(txs[op], h), Home[h] = Active
      PROVE  FALSE
  <2>1. op \in Ops /\ txs[op] # NoTx /\ Pending = {op}
    BY <1>1 DEF Pending, DiskSound, PendingSound
  <2>2. PICK t : t = txs[op]
    OBVIOUS
  <2>3. t \in Files
    BY <2>1, <2>2 DEF Files
  <2>4. Typed(t) /\ TxSound(t) /\ ImageSound(t) /\ Home = Origin(t)
    BY <1>1, <2>1, <2>2, <2>3, FilesTyped, OnePending DEF GrantInv, GrantDisk, ImagesSound
  <2>5. CASE refs[a] = Home[a]
    BY <1>1, <1>3, <1>5, <2>5
  <2>6. CASE \E i \in DOMAIN t.refs : t.refs[i].id = a /\ refs[a] = t.refs[i].after
    <3>1. PICK i \in DOMAIN t.refs : t.refs[i].id = a /\ t.refs[i].after = h
      BY <2>6
    <3>2. a = h
      BY <1>1, <2>4, <3>1 DEF ImageSound, MovesSound
    <3>3. t.refs[i].before = Active
      BY <1>5, <2>4, <3>1, <3>2, OriginFacts DEF TxSound
    <3> QED
      BY <1>1, <1>5, <2>2, <2>4, <3>1, <3>2, <3>3 DEF ImageSound, MovesSound
  <2> QED
    BY <2>2, <2>5, <2>6 DEF GrantInv, GrantDisk, RefsKnown
<1> QED
  BY <1>4, <1>5

\* An account is renewed at its own home.
LEMMA HomeRotates ==
  ASSUME SwitchInv, GrantInv, ChoiceStays, stage \in {"idle", "renew", "prepare"},
         NEW h \in Managed, store[Grant(h)] = Live(h), \E a \in Managed : refs[a] = h,
         NEW g, g = [acct |-> h, gen |-> latest[h] + 1],
         latest' = [latest EXCEPT ![h] = @ + 1], store' = [store EXCEPT ![Grant(h)] = g],
         refs' = refs, txs' = txs, forfeited' = forfeited, tx' = tx, keeps' = keeps,
         stage' \in {"idle", "renew", "prepare"}, stage = "idle" => stage' = "idle"
  PROVE  GrantInv'
<1>1. /\ h \in Accounts /\ h \in Homes /\ h # Active /\ h # Original
      /\ Managed \subseteq Homes /\ Managed \subseteq Accounts /\ Active \in Homes
      /\ Original \in Accounts /\ latest \in [Accounts -> Nat]
  BY StoreKinds DEF SwitchInv
<1>2. /\ Advances /\ \A a \in Accounts : a # h => Live(a)' = Live(a)
      /\ g \in Grants /\ g # Absent /\ Whose(g) = h /\ Live(h)' = g /\ Dated(g)'
      /\ g.gen = latest[h] + 1 /\ latest[h] \in Nat
      /\ \A v \in Grants \cup {Absent} : Dated(v) => v # g
  <2>1. h \in Accounts /\ latest[h] \in Nat
    BY <1>1
  <2>2. PICK b \in Accounts : b = h
    BY <2>1
  <2>3. g = [acct |-> b, gen |-> latest[b] + 1] /\ latest' = [latest EXCEPT ![b] = @ + 1]
    BY <2>2
  <2>4. /\ Advances /\ \A a \in Accounts : a # b => latest'[a] = latest[a] /\ Live(a)' = Live(a)
        /\ g \in Grants /\ g # Absent /\ Whose(g) = b /\ Live(b)' = g /\ Dated(g)'
        /\ \A v \in Grants \cup {Absent} : Dated(v) => v # g
    BY <2>3, FreshGrant
  <2>5. g.gen = latest[h] + 1
    BY <2>1
  <2> QED
    BY <2>1, <2>2, <2>4, <2>5
<1>3. TypeOK /\ DiskSound /\ WorkSound /\ GrantDisk /\ GrantWork
  BY DEF SwitchInv, GrantInv
<1>4. Home' = Home /\ OldBinding' = OldBinding /\ Pending' = Pending
  BY DEF ChoiceStays, Pending
<1>5. store'[Grant(h)] = g /\ \A r \in Resources : r # Grant(h) => store'[r] = store[r]
  BY <1>1, <1>3, ResourceFacts DEF TypeOK
<1>6. /\ \A d \in Homes : d # h => store'[Grant(d)] = store[Grant(d)]
      /\ \A d \in Homes : store'[Profile(d)] = store[Profile(d)]
      /\ store'[ProfileAt] = store[ProfileAt] /\ store'[Binding] = store[Binding]
      /\ store'[Config] = store[Config] /\ store'[GrantAt] = store[GrantAt]
  <2>1. /\ \A d \in Homes : d # h => Grant(d) # Grant(h) /\ Grant(d) \in Resources
        /\ \A d \in Homes : Profile(d) # Grant(h) /\ Profile(d) \in Resources
        /\ Binding # Grant(h) /\ Config # Grant(h) /\ Binding \in Resources /\ Config \in Resources
    BY <1>1, ResourceFacts DEF Grant
  <2> QED
    BY <1>1, <1>5, <2>1 DEF ProfileAt, GrantAt
<1>7. Whose(store[Grant(h)]) = h /\ Live(h) # Absent /\ Live(h).gen = latest[h]
  BY <1>1, LiveFacts
<1>8. \A d \in Homes : Whose(store'[Grant(d)]) = Whose(store[Grant(d)])
  BY <1>2, <1>5, <1>6, <1>7
<1>9. \A d \in Homes : Paired(d) => Paired(d)'
  BY <1>6, <1>8 DEF Paired, Whose
<1>10. Mismatch' = Mismatch
  BY <1>6 DEF Mismatch, ByGateway, Native, GrantAt, ProfileAt
<1>11. Saving = {} /\ Saving' = {}
  BY DEF Saving
<1>12. Files' = Files /\ Open' = Open
  BY <1>4, <1>11 DEF Files, Open
<1>13. /\ Pending = {} => Home[h] # Active
       /\ \A op \in Pending : ~Archives(txs[op], h) => Home[h] # Active
  BY ReferencedHome
<1>14. \A a \in Managed : a # h => /\ store'[Grant(a)] = store[Grant(a)] /\ Live(a)' = Live(a)
                                   /\ (AtActive(a) => AtActive(a)') /\ (AtHome(a) => AtHome(a)')
  <2>1. \A a \in Managed : a # h => store'[Grant(a)] = store[Grant(a)] /\ Live(a)' = Live(a)
    BY <1>1, <1>2, <1>6
  <2> QED
    BY <1>6, <1>10, <2>1 DEF AtActive, AtHome, Whose, GrantAt
<1>15. GrantDisk'
  <2>1. ImagesSound'
    BY <1>3, <1>12, ImagesStay DEF GrantDisk
  <2>2. Fresh'
    <3>1. (\A t \in Files : FreshImages(t))'
      BY <1>2, <1>3, <1>12, FreshFiles DEF GrantDisk
    <3>2. ASSUME NEW d \in Homes
          PROVE  Dated(store[Grant(d)])' /\ Signed(store[Profile(d)])'
      <4>1. Dated(store[Grant(d)]) /\ Signed(store[Profile(d)])
        BY <1>3 DEF GrantDisk, Fresh
      <4>2. /\ store[Grant(d)] \in Grants \cup {Absent} /\ store[Profile(d)] \in Profiles \cup {Absent}
        BY <1>3, StoreKinds
      <4>3. Signed(store[Profile(d)])'
        BY <1>1, <1>2, <1>6, <4>1, <4>2, DatedStays DEF Signed
      <4>4. CASE d = h
        BY <1>2, <1>5, <4>3, <4>4 DEF Dated
      <4>5. CASE d # h
        BY <1>1, <1>2, <1>6, <4>1, <4>2, <4>3, <4>5, DatedStays DEF Dated
      <4> QED
        BY <4>4, <4>5
    <3> QED
      BY <3>1, <3>2 DEF Fresh
  <2>3. HomesSound'
    BY <1>1, <1>3, <1>4, <1>8, <1>9 DEF GrantDisk, HomesSound, Whose, Archives, Covers
  <2>4. Placed'
    <3>1. CASE Pending = {}
      <4>1. ASSUME NEW a \in Managed \ forfeited
            PROVE  IF Home[a] = Active THEN AtActive(a)' ELSE AtHome(a)'
        <5>1. IF Home[a] = Active THEN AtActive(a) ELSE AtHome(a)
          BY <1>3, <3>1 DEF GrantDisk, Placed
        <5>2. CASE a = h
          BY <1>2, <1>5, <1>13, <3>1, <5>2 DEF AtHome
        <5>3. CASE a # h
          BY <1>14, <5>1, <5>3
        <5> QED
          BY <5>2, <5>3
      <4> QED
        BY <1>1, <1>3, <1>4, <1>6, <1>9, <3>1, <4>1 DEF GrantDisk, Placed, Whose, GrantAt, ByGateway
    <3> QED
      BY <1>4, <3>1 DEF Placed
  <2>5. Kept'
    <3>1. ASSUME NEW a \in Managed \ forfeited
          PROVE  Live(a)' \in {store'[GrantAt], store'[Grant(a)]}
      <4>1. Live(a) \in {store[GrantAt], store[Grant(a)]}
        BY <1>3 DEF GrantDisk, Kept
      <4>2. CASE a = h
        BY <1>2, <1>5, <4>2
      <4>3. CASE a # h
        BY <1>6, <1>14, <4>1, <4>3
      <4> QED
        BY <4>2, <4>3
    <3> QED
      BY <3>1 DEF Kept, GrantAt
  <2>6. Unswitched'
    <3>1. ASSUME OldBinding = Absent, NEW a \in Managed, Home[a] = Active,
                 \A op \in Pending : ~Archives(txs[op], a)
          PROVE  store'[Grant(a)] = Absent
      <4>1. store[Grant(a)] = Absent
        BY <1>3, <3>1 DEF GrantDisk, Unswitched
      <4>2. a # h
        BY <1>7, <4>1
      <4> QED
        BY <1>14, <4>1, <4>2
    <3> QED
      BY <1>3, <1>4, <3>1 DEF GrantDisk, Unswitched, Archives, Covers, Before
  <2>7. OpenSound'
    <3>1. ASSUME NEW t \in Open, NEW a \in Managed \ forfeited
          PROVE  (/\ Archives(t, a) => OutgoingSound(t, a)
                  /\ ~Archives(t, a) => IF Home[a] = Active THEN InPlaceSound(t, a) ELSE HomeSound(t, a))'
      <4>1. /\ Archives(t, a) => OutgoingSound(t, a)
            /\ ~Archives(t, a) => IF Home[a] = Active THEN InPlaceSound(t, a) ELSE HomeSound(t, a)
        BY <1>3 DEF GrantDisk, OpenSound
      <4>2. CASE a # h
        BY <1>4, <1>14, <4>1, <4>2 DEF OutgoingSound, InPlaceSound, HomeSound,
          Archives, Covers, Before, After, NoNewer, Whose, GrantAt
      <4>3. CASE a = h /\ Archives(t, h)
        BY <4>1, <4>3 DEF OutgoingSound, Archives, Covers, Before, After, NoNewer, Whose, GrantAt
      <4>4. CASE a = h /\ ~Archives(t, h)
        <5>1. Home[h] # Active
          BY <1>11, <1>13, <4>4 DEF Open
        <5>2. \A v \in {Before(t, GrantAt), After(t, GrantAt)} : NoNewer(v, h, Live(h))
          BY <4>1, <4>4, <5>1 DEF HomeSound
        <5>3. Typed(t) /\ TxSound(t)
          BY <1>3, FilesTyped, OpenFiles
        <5>4. Before(t, GrantAt) \in Grants \cup {Absent} /\ After(t, GrantAt) \in Grants \cup {Absent}
          BY <5>3, ImageKinds
        <5>5. ASSUME NEW v \in Grants \cup {Absent}, NoNewer(v, h, Live(h))
              PROVE  NoNewer(v, h, g)
          <6>1. SUFFICES ASSUME Whose(v) = h PROVE v.gen <= g.gen
            BY <1>2 DEF NoNewer
          <6>2. v.gen \in Nat /\ v.gen <= latest[h]
            BY <1>1, <1>7, <5>5, <6>1, WhoseFacts DEF NoNewer
          <6> QED
            BY <1>2, <6>2
        <5>6. \A v \in {Before(t, GrantAt), After(t, GrantAt)} : NoNewer(v, h, store'[Grant(h)])
          BY <1>5, <5>2, <5>4, <5>5
        <5> QED
          BY <1>4, <4>4, <5>1, <5>6 DEF HomeSound, Archives, Covers, Before, After, NoNewer, Whose, GrantAt
      <4> QED
        BY <4>2, <4>3, <4>4
    <3> QED
      BY <1>12, <3>1 DEF OpenSound
  <2>8. RefsKnown'
    BY <1>3, RefsSame DEF GrantDisk
  <2>9. OriginalSound'
    <3>1. Live(Original)' = Live(Original)
      BY <1>1, <1>2
    <3>2. Recorded(Live(Original)) => Recorded(Live(Original))'
      BY <3>1 DEF Recorded, Before, After, GrantAt
    <3> QED
      BY <1>3, <1>4, <1>6, <1>12, <3>1, <3>2 DEF GrantDisk, OriginalSound, Before, After, GrantAt
  <2> QED
    BY <2>1, <2>2, <2>3, <2>4, <2>5, <2>6, <2>7, <2>8, <2>9 DEF GrantDisk
<1>16. Ready'
  <2>1. ASSUME NEW a \in Managed \ forfeited, stage' \in {"renew", "prepare"}, Home[a] # Active
        PROVE  store'[Grant(a)] = Live(a)'
    <3>1. stage \in {"renew", "prepare"}
      BY <2>1
    <3>2. store[Grant(a)] = Live(a)
      BY <1>3, <2>1, <3>1 DEF GrantWork, Ready
    <3> QED
      BY <1>2, <1>5, <1>14, <3>2
  <2>2. stage' \in {"renew", "prepare"} /\ Mismatch => Whose(store'[GrantAt]) = Original
    <3>1. stage' \in {"renew", "prepare"} => stage \in {"renew", "prepare"}
      OBVIOUS
    <3>2. Mismatch /\ stage \in {"renew", "prepare"} => Whose(store[GrantAt]) = Original
      BY <1>3 DEF GrantWork, Ready
    <3> QED
      BY <1>6, <3>1, <3>2
  <2> QED
    BY <1>4, <1>10, <2>1, <2>2 DEF Ready, Whose, GrantAt
<1>17. ForwardSound' /\ BackwardSound' /\ StampSound'
  BY <1>3 DEF GrantWork, StampSound, ForwardSound, BackwardSound, Forward, Backward, Applying
<1> QED
  BY <1>15, <1>16, <1>17 DEF GrantInv, GrantWork

LEMMA RotationFacts ==
  ASSUME SwitchInv, NEW h \in Homes, store[Grant(h)] # Absent, Rotated(h)
  PROVE  \E b \in Accounts :
           /\ store[Grant(h)] = Live(b) /\ Whose(store[Grant(h)]) = b
           /\ latest' = [latest EXCEPT ![b] = @ + 1]
           /\ store' = [store EXCEPT ![Grant(h)] = [acct |-> b, gen |-> latest[b] + 1]]
<1>1. store[Grant(h)] \in Grants
  BY StoreKinds DEF SwitchInv
<1>2. PICK b \in Accounts : b = store[Grant(h)].acct /\ Whose(store[Grant(h)]) = b
  BY <1>1, WhoseFacts
<1> QED
  BY <1>2 DEF Rotated, Valid

LEMMA CliRotatesKeepsGrants ==
  ASSUME ~Racing, SwitchInv, GrantInv, ChoiceStays, CliRotates
  PROVE  GrantInv'
<1>1. /\ store[Grant(Active)] # Absent /\ store[Config].mode # "gateway" /\ Rotated(Active)
      /\ refs' = refs /\ txs' = txs /\ forfeited' = forfeited /\ stage' = stage
      /\ tx' = tx /\ stamp' = stamp /\ todo' = todo /\ keeps' = keeps
      /\ stage \notin {"put", "unput"} /\ Active \in Homes
  BY ResourceFacts DEF CliRotates, oper, Exposed
<1>2. PICK b \in Accounts :
        /\ store[GrantAt] = Live(b)
        /\ latest' = [latest EXCEPT ![b] = @ + 1]
        /\ store' = [store EXCEPT ![GrantAt] = [acct |-> b, gen |-> latest[b] + 1]]
  BY <1>1, RotationFacts DEF GrantAt
<1>3. PICK g : g = [acct |-> b, gen |-> latest[b] + 1]
  OBVIOUS
<1>4. Pending = {} => ~ByGateway(store[Binding])
  BY <1>1 DEF GrantInv, GrantDisk, Placed
<1>5. store' = [store EXCEPT ![GrantAt] = g]
  BY <1>2, <1>3
<1> QED
  BY <1>1, <1>2, <1>3, <1>4, <1>5, ActiveRotates

\* AIPass renews an account at its referenced home.
LEMMA ReferencedRotates ==
  ASSUME SwitchInv, GrantInv, ChoiceStays, stage \in {"idle", "renew", "prepare"},
         NEW a \in Managed, Identity(refs[a]) = a, Rotated(refs[a]),
         refs' = refs, txs' = txs, forfeited' = forfeited,
         tx' = tx, stamp' = stamp, todo' = todo, keeps' = keeps,
         stage' = stage \/ (stage = "renew" /\ stage' = "prepare")
  PROVE  GrantInv'
<1>1. PICK h \in Homes : h = refs[a]
  BY DEF SwitchInv, TypeOK
<1>2. /\ a \in Accounts /\ Active \in Homes /\ Managed \subseteq Homes /\ Active \notin Managed
      /\ store[Grant(h)] \in Grants /\ store[Grant(h)] # Absent
  <2>1. TypeOK /\ a \in Accounts
    BY DEF SwitchInv, Accounts
  <2>2. store[Grant(h)] \in Grants
    BY <1>1, <2>1, IdentityFacts
  <2> QED
    BY <2>1, <2>2, StoreKinds, WhoseFacts
<1>3. PICK b \in Accounts :
        /\ store[Grant(h)] = Live(b) /\ Whose(store[Grant(h)]) = b
        /\ latest' = [latest EXCEPT ![b] = @ + 1]
        /\ store' = [store EXCEPT ![Grant(h)] = [acct |-> b, gen |-> latest[b] + 1]]
  BY <1>1, <1>2, RotationFacts
<1>4. PICK g : g = [acct |-> b, gen |-> latest[b] + 1]
  OBVIOUS
<1>5. store' = [store EXCEPT ![Grant(h)] = g]
  BY <1>3, <1>4
<1>6. CASE h = Active
  <2>1. ASSUME Pending = {}, ByGateway(store[Binding])
        PROVE  FALSE
    <3>1. Home = refs /\ OldBinding = store[Binding] /\ OldBinding # Absent /\ OldBinding.who = Gateway
      BY <2>1, NonePending DEF ByGateway
    <3>2. refs = HomesFor(Gateway)
      BY <3>1 DEF SwitchInv, DiskSound, ChoiceSound
    <3>3. a # Gateway
      BY <1>2, SwitchConstants
    <3> QED
      BY <1>1, <1>2, <1>6, <3>2, <3>3 DEF HomesFor
  <2>2. store[GrantAt] = Live(b) /\ store' = [store EXCEPT ![GrantAt] = g]
    BY <1>3, <1>5, <1>6 DEF GrantAt
  <2>3. stage \notin {"put", "unput"}
    OBVIOUS
  <2> QED
    BY <1>3, <1>4, <2>1, <2>2, <2>3, ActiveRotates
<1>7. CASE h # Active
  <2>1. h \in Managed
    BY <1>7 DEF Homes
  <2>2. b = h
    BY <1>2, <1>3, <2>1, LiveFacts, WhoseFacts DEF GrantInv, GrantDisk, HomesSound, SwitchInv, TypeOK
  <2>3. stage' \in {"idle", "renew", "prepare"} /\ (stage = "idle" => stage' = "idle")
    OBVIOUS
  <2>4. /\ store[Grant(h)] = Live(h) /\ g = [acct |-> h, gen |-> latest[h] + 1]
        /\ latest' = [latest EXCEPT ![h] = @ + 1]
    BY <1>3, <1>4, <2>2
  <2>5. \E c \in Managed : refs[c] = h
    BY <1>1
  <2> QED
    BY <1>5, <2>1, <2>3, <2>4, <2>5, HomeRotates
<1> QED
  BY <1>6, <1>7

LEMMA RenewalsKeepGrants ==
  ASSUME SwitchInv, GrantInv, ChoiceStays, ProxyRenews \/ Renew
  PROVE  GrantInv'
<1>1. CASE ProxyRenews
  <2>1. PICK a \in Managed : Identity(refs[a]) = a /\ Rotated(refs[a])
    BY <1>1 DEF ProxyRenews
  <2>2. /\ stage \in {"idle", "renew", "prepare"} /\ stage' = stage
        /\ refs' = refs /\ txs' = txs /\ forfeited' = forfeited
        /\ tx' = tx /\ stamp' = stamp /\ todo' = todo /\ keeps' = keeps
    BY <1>1 DEF ProxyRenews, oper
  <2> QED
    BY <2>1, <2>2, ReferencedRotates
<1>2. CASE Renew
  <2>1. /\ stage = "renew" /\ stage' = "prepare" /\ Identity(refs[goal]) = goal
        /\ refs' = refs /\ txs' = txs /\ forfeited' = forfeited
        /\ tx' = tx /\ stamp' = stamp /\ todo' = todo /\ keeps' = keeps /\ goal \in Managed
    BY <1>2 DEF Renew, SwitchInv, WorkSound
  <2>2. CASE UNCHANGED <<store, latest, disturbed>>
    <3>1. UNCHANGED disk /\ UNCHANGED world /\ Saving' \subseteq Saving
      BY <2>1, <2>2 DEF disk, world, Saving
    <3>2. GrantDisk'
      BY <3>1, DiskQuiet DEF GrantInv
    <3>3. Ready'
      BY <2>1, <2>2 DEF GrantInv, GrantWork, Ready, Live, Mismatch, ByGateway, Native, ChoiceStays, Whose, GrantAt
    <3>4. ForwardSound' /\ BackwardSound' /\ StampSound'
      BY <2>1 DEF GrantInv, GrantWork, ForwardSound, BackwardSound, StampSound, Forward, Backward, Applying
    <3> QED
      BY <3>2, <3>3, <3>4 DEF GrantInv, GrantWork
  <2>3. CASE Rotated(refs[goal])
    <3>1. stage \in {"idle", "renew", "prepare"}
      BY <2>1
    <3>2. PICK a \in Managed : a = goal
      BY <2>1
    <3>3. Identity(refs[a]) = a /\ Rotated(refs[a])
      BY <2>1, <2>3, <3>2
    <3> QED
      BY <2>1, <3>1, <3>3, ReferencedRotates
  <2> QED
    BY <1>2, <2>2, <2>3 DEF Renew
<1> QED
  BY <1>1, <1>2

-----------------------------------------------------------------------------
(* A login *)

\* Whoever has not given up their grant has it at their own home when the user
\* signs in to another account at the active one.
LEMMA LoginSpares ==
  ASSUME SwitchInv, GrantInv, CliLogin, NEW a \in Managed \ forfeited'
  PROVE  /\ a \notin forfeited /\ store[Grant(a)] = Live(a)
         /\ store[GrantAt] = Live(a) => \A op \in Pending : ~Archives(txs[op], a)
<1>1. /\ Managed \subseteq Accounts /\ Managed \subseteq Homes /\ a # Original /\ latest \in [Accounts -> Nat]
  BY StoreKinds DEF SwitchInv
<1>2. a \notin forfeited
  BY <1>1 DEF CliLogin
<1>3. CASE store[GrantAt] = Live(a)
  <2>1. PICK h \in Managed : /\ store[Grant(h)] = Live(a)
                             /\ \A op \in Pending : Grant(h) \notin Covers(txs[op])
    BY <1>1, <1>3 DEF CliLogin, GrantAt
  <2>2. h = a
    <3>1. Whose(store[Grant(h)]) = a /\ a # Absent
      BY <1>1, <2>1, LiveFacts, WhoseFacts
    <3> QED
      BY <3>1 DEF GrantInv, GrantDisk, HomesSound
  <2> QED
    BY <1>2, <2>1, <2>2 DEF Archives
<1>4. CASE store[GrantAt] # Live(a)
  BY <1>2, <1>4 DEF GrantInv, GrantDisk, Kept
<1> QED
  BY <1>3, <1>4

\* A profile that the tool has just written is in no image.
LEMMA FreshProfile ==
  ASSUME SwitchInv, NEW n \in Nat, latest[Original] = n,
         NEW f, f = [acct |-> Original, rev |-> n + 1],
         latest' = [latest EXCEPT ![Original] = @ + 1]
  PROVE  /\ f \in Profiles /\ f # Absent /\ Whose(f) = Original /\ Signed(f)'
         /\ \A v \in Profiles \cup {Absent} : Signed(v) => v # f
<1>1. latest \in [Accounts -> Nat] /\ Original \in Accounts
  BY StoreKinds DEF SwitchInv
<1>2. PICK m \in Nat : m = n + 1
  OBVIOUS
<1>3. f \in Profiles /\ f.rev = m /\ f.acct = Original
  BY <1>1, <1>2 DEF Profiles
<1>4. f # Absent /\ Whose(f) = Original
  BY <1>3, WhoseFacts
<1>5. latest'[Original] = n + 1
  BY <1>1
<1>6. Signed(f)'
  BY <1>2, <1>3, <1>5 DEF Signed
<1>7. ASSUME NEW v \in Profiles \cup {Absent}, Signed(v), v = f
      PROVE  FALSE
  BY <1>2, <1>3, <1>4, <1>7 DEF Signed
<1> QED
  BY <1>3, <1>4, <1>6, <1>7

LEMMA CliLoginKeepsGrants ==
  ASSUME ~Racing, SwitchInv, GrantInv, ChoiceStays, CliLogin
  PROVE  GrantInv'
<1>1. /\ TypeOK /\ DiskSound /\ WorkSound /\ GrantDisk /\ GrantWork
      /\ Managed \subseteq Accounts /\ Original \in Accounts /\ Original \notin Managed
      /\ Managed \subseteq Homes /\ Active \in Homes /\ Active \notin Managed
      /\ latest \in [Accounts -> Nat]
  BY StoreKinds DEF SwitchInv, GrantInv
<1>2. /\ refs' = refs /\ txs' = txs /\ stage' = stage /\ tx' = tx /\ stamp' = stamp /\ todo' = todo
      /\ keeps' = keeps /\ stage \notin {"put", "unput"} /\ Original \notin forfeited'
      /\ latest' = [latest EXCEPT ![Original] = @ + 1]
  BY DEF CliLogin, oper, Exposed
<1>3. PICK n \in Nat : n = latest[Original]
  BY <1>1
<1>4. PICK g : g = [acct |-> Original, gen |-> latest[Original] + 1]
  OBVIOUS
<1>5. PICK f : f = [acct |-> Original, rev |-> n + 1]
  OBVIOUS
<1>6. /\ Advances /\ \A a \in Managed : latest'[a] = latest[a] /\ Live(a)' = Live(a)
      /\ g \in Grants /\ g # Absent /\ Whose(g) = Original /\ g.acct = Original
      /\ Live(Original)' = g /\ Dated(g)'
      /\ \A v \in Grants \cup {Absent} : Dated(v) => v # g
  <2>1. /\ Advances /\ \A a \in Accounts : a # Original => latest'[a] = latest[a] /\ Live(a)' = Live(a)
        /\ g \in Grants /\ g # Absent /\ Whose(g) = Original /\ g.acct = Original
        /\ Live(Original)' = g /\ Dated(g)'
        /\ \A v \in Grants \cup {Absent} : Dated(v) => v # g
    BY <1>1, <1>2, <1>4, FreshGrant
  <2> QED
    BY <1>1, <2>1
<1>7. /\ f \in Profiles /\ f # Absent /\ Whose(f) = Original /\ Signed(f)'
      /\ \A v \in Profiles \cup {Absent} : Signed(v) => v # f
  BY <1>2, <1>3, <1>5, FreshProfile
<1>8. store' = [store EXCEPT ![GrantAt] = g, ![ProfileAt] = f]
  BY <1>3, <1>4, <1>5 DEF CliLogin, GrantAt, ProfileAt
<1>9. /\ store'[GrantAt] = g /\ store'[ProfileAt] = f
      /\ \A r \in Resources : r \notin {GrantAt, ProfileAt} => store'[r] = store[r]
  BY <1>1, <1>8, ResourceFacts DEF TypeOK, GrantAt, ProfileAt
<1>10. /\ store'[Binding] = store[Binding] /\ store'[Config] = store[Config]
       /\ \A h \in Homes : h # Active =>
            store'[Grant(h)] = store[Grant(h)] /\ store'[Profile(h)] = store[Profile(h)]
  <2>1. /\ Binding \notin {GrantAt, ProfileAt} /\ Config \notin {GrantAt, ProfileAt}
        /\ Binding \in Resources /\ Config \in Resources
    BY <1>1, ResourceFacts DEF GrantAt, ProfileAt
  <2>2. ASSUME NEW h \in Homes, h # Active
        PROVE  /\ Grant(h) \in Resources /\ Profile(h) \in Resources
               /\ Grant(h) \notin {GrantAt, ProfileAt} /\ Profile(h) \notin {GrantAt, ProfileAt}
    BY <2>2, ResourceFacts DEF GrantAt, ProfileAt, Grant, Profile
  <2> QED
    BY <1>9, <2>1, <2>2
<1>11. \A a \in Managed : /\ store'[Grant(a)] = store[Grant(a)] /\ store'[Profile(a)] = store[Profile(a)]
                          /\ (Paired(a) => Paired(a)')
  BY <1>1, <1>10 DEF Paired, Whose
<1>12. \A a \in Managed \ forfeited' :
         /\ a \notin forfeited /\ store[Grant(a)] = Live(a)
         /\ store[GrantAt] = Live(a) => \A op \in Pending : ~Archives(txs[op], a)
  BY LoginSpares
<1>13. Home' = Home /\ OldBinding' = OldBinding /\ Pending' = Pending /\ Saving' = Saving
  BY <1>2 DEF ChoiceStays, Pending, Saving
<1>14. Files' = Files /\ Open' = Open
  BY <1>2, <1>13 DEF Files, Open
<1>15. \A a \in Managed \ forfeited' : AtActive(a)' /\ AtHome(a)' /\ store'[Grant(a)] = Live(a)'
  BY <1>6, <1>9, <1>11, <1>12 DEF AtActive, AtHome, Whose, GrantAt
<1>16. GrantDisk'
  <2>1. ImagesSound'
    BY <1>1, <1>14, ImagesStay DEF GrantDisk
  <2>2. Fresh'
    <3>1. (\A t \in Files : FreshImages(t))'
      BY <1>1, <1>6, <1>14, FreshFiles DEF GrantDisk
    <3>2. ASSUME NEW h \in Homes
          PROVE  Dated(store[Grant(h)])' /\ Signed(store[Profile(h)])'
      <4>1. CASE h = Active
        BY <1>6, <1>7, <1>9, <4>1 DEF Dated, Signed, GrantAt, ProfileAt
      <4>2. CASE h # Active
        <5>1. Dated(store[Grant(h)]) /\ Signed(store[Profile(h)])
          BY <1>1 DEF GrantDisk, Fresh
        <5>2. /\ store[Grant(h)] \in Grants \cup {Absent} /\ store[Profile(h)] \in Profiles \cup {Absent}
          BY <1>1, StoreKinds
        <5> QED
          BY <1>1, <1>6, <1>10, <4>2, <5>1, <5>2, DatedStays DEF Dated, Signed
      <4> QED
        BY <4>1, <4>2
    <3> QED
      BY <3>1, <3>2 DEF Fresh
  <2>3. HomesSound'
    BY <1>1, <1>2, <1>11, <1>13 DEF GrantDisk, HomesSound, Whose, Archives, Covers
  <2>4. Placed'
    <3>1. Paired(Active)'
      BY <1>6, <1>7, <1>9 DEF Paired, Whose, GrantAt, ProfileAt
    <3>2. \A a \in Managed : Whose(store'[GrantAt]) # a
      BY <1>1, <1>6, <1>9
    <3> QED
      BY <1>1, <1>10, <1>13, <1>15, <3>1, <3>2 DEF GrantDisk, Placed, Whose, GrantAt, ByGateway
  <2>5. Kept'
    BY <1>15 DEF Kept
  <2>6. Unswitched'
    BY <1>1, <1>2, <1>11, <1>13 DEF GrantDisk, Unswitched, Archives, Covers, Before
  <2>7. OpenSound'
    <3>1. \A a \in Managed \ forfeited' : a \in Managed \ forfeited
      BY <1>12
    <3> QED
      BY <1>1, <1>11, <1>13, <1>14, <1>15, <3>1 DEF GrantDisk, OpenSound, OutgoingSound, InPlaceSound, HomeSound,
         Archives, Covers, Before, After, NoNewer, Whose, GrantAt
  <2>8. RefsKnown'
    BY <1>1, <1>2, RefsSame DEF GrantDisk
  <2>9. OriginalSound'
    <3>1. ASSUME NEW t \in Open
          PROVE  After(t, GrantAt) # g
      <4>1. t \in Files /\ FreshImages(t) /\ Typed(t) /\ TxSound(t)
        BY <1>1, OpenFiles, FilesTyped DEF GrantDisk, Fresh
      <4>2. GrantAt \in Covers(t) /\ After(t, GrantAt) \in Grants \cup {Absent}
        BY <4>1, ImageKinds
      <4>3. Dated(After(t, GrantAt))
        BY <1>1, <4>1, <4>2 DEF FreshImages, GrantAt
      <4> QED
        BY <1>6, <4>2, <4>3
    <3> QED
      BY <1>6, <1>9, <1>14, <3>1 DEF OriginalSound, After, GrantAt
  <2> QED
    BY <2>1, <2>2, <2>3, <2>4, <2>5, <2>6, <2>7, <2>8, <2>9 DEF GrantDisk
<1>17. Ready'
  BY <1>6, <1>9, <1>15 DEF Ready, Whose, GrantAt
<1>18. stage \in Forward \cup Backward => LoggedIn'
  <2>1. SUFFICES ASSUME stage \in Forward \cup Backward PROVE LoggedIn'
    OBVIOUS
  <2>2. tx \in Files
    BY <2>1, WorkFiles DEF Backward, Undoing
  <2>3. Typed(tx) /\ TxSound(tx) /\ FreshImages(tx)
    BY <1>1, <2>2, FilesTyped DEF GrantDisk, Fresh
  <2>4. /\ GrantAt \in Covers(tx)
        /\ Before(tx, GrantAt) \in Grants \cup {Absent} /\ After(tx, GrantAt) \in Grants \cup {Absent}
        /\ Before(tx, ProfileAt) \in Profiles \cup {Absent} /\ After(tx, ProfileAt) \in Profiles \cup {Absent}
    BY <2>3, ImageKinds
  <2>5. /\ Dated(Before(tx, GrantAt)) /\ Dated(After(tx, GrantAt))
        /\ Signed(Before(tx, ProfileAt)) /\ Signed(After(tx, ProfileAt))
    BY <1>1, <2>3, <2>4 DEF FreshImages, GrantAt, ProfileAt
  <2>6. g \notin {Before(tx, GrantAt), After(tx, GrantAt)} /\ f \notin {Before(tx, ProfileAt), After(tx, ProfileAt)}
    BY <1>6, <1>7, <2>4, <2>5
  <2> QED
    BY <1>2, <1>6, <1>7, <1>9, <2>6 DEF LoggedIn, Known, Before, After, Whose, GrantAt, ProfileAt
<1>19. ForwardSound'
  <2>1. SUFFICES ASSUME stage' \in Forward PROVE ForwardSound'
    BY DEF ForwardSound
  <2>2. stage \in Forward /\ ForwardSound
    BY <1>1, <1>2, <2>1 DEF GrantWork
  <2>3. \A r : Made(r)' = Made(r)
    BY <1>2 DEF Made, Before, After
  <2>4. Covers(tx)' = Covers(tx)
    BY <1>2 DEF Covers
  <2>5. (\A a \in Managed : \A r \in {Grant(a), Profile(a)} : r \in Covers(tx) => store[r] = Made(r))'
    BY <1>11, <2>2, <2>3, <2>4 DEF ForwardSound
  <2>6. (store[GrantAt] = Made(GrantAt) \/ (store[GrantAt] # Absent /\ Valid(store[GrantAt])))'
    BY <1>6, <1>9 DEF Valid, GrantAt, Live
  <2>7. (store[Config].mode = Made(Config).mode)'
    BY <1>10, <2>2, <2>3 DEF ForwardSound
  <2>8. (\A a \in Managed \ forfeited :
          ~Archives(tx, a) /\ Home[a] # Active /\ Aim(tx) = a => After(tx, GrantAt) = store[Grant(a)])'
    BY <1>2, <1>11, <1>12, <1>13, <2>2 DEF ForwardSound, Archives, Covers, Aim, After, GrantAt
  <2> QED
    BY <1>18, <2>2, <2>5, <2>6, <2>7, <2>8 DEF ForwardSound
<1>20. BackwardSound'
  <2>1. SUFFICES ASSUME stage' \in Backward PROVE BackwardSound'
    BY DEF BackwardSound, Backward
  <2>2. stage \in Backward /\ BackwardSound
    BY <1>1, <1>2, <2>1 DEF GrantWork
  <2>3. (\A a \in Managed : \A r \in {Grant(a), Profile(a)} : r \in Covers(tx) =>
          Known(tx, r) /\ (r \notin todo => store[r] = Before(tx, r)))'
    <3>1. Covers(tx)' = Covers(tx)
      BY <1>2 DEF Covers
    <3>2. \A a \in Managed : \A r \in {Grant(a), Profile(a)} : store'[r] = store[r]
      BY <1>11
    <3> QED
      BY <1>2, <2>2, <3>1, <3>2 DEF BackwardSound, Before, Known
  <2>4. (Config \notin todo => store[Config].mode = Before(tx, Config).mode)'
    BY <1>2, <1>10, <2>2 DEF BackwardSound, Before
  <2>5. ASSUME GrantAt \notin todo, NEW a \in Managed \ forfeited', Archives(tx, a)
        PROVE  FALSE
    <3>1. a \in Managed \ forfeited
      BY <1>12
    <3>2. store[GrantAt] = Live(a)
      BY <2>2, <2>5, <3>1 DEF BackwardSound
    <3>3. tx.op \in Pending /\ txs[tx.op] = tx
      BY <2>2, WorkImages DEF Backward, Undoing
    <3> QED
      BY <1>12, <2>5, <3>2, <3>3
  <2>6. (GrantAt \notin todo =>
            /\ \A a \in Managed \ forfeited : Archives(tx, a) => store[GrantAt] = Live(a)
            /\ Original \notin forfeited => store[GrantAt] = Live(Original) \/ Recorded(Live(Original)))'
    BY <1>2, <1>6, <1>9, <2>5 DEF Archives, Covers, GrantAt
  <2> QED
    BY <1>2, <1>18, <2>2, <2>3, <2>4, <2>6 DEF BackwardSound
<1>21. StampSound'
  <2>1. StampSound
    BY <1>1 DEF GrantWork
  <2>2. stage = "restore" /\ stamp # Absent => Dated(stamp)' /\ stamp # Live(Original)'
    <3>1. SUFFICES ASSUME stage = "restore", stamp # Absent
                   PROVE  Dated(stamp)' /\ stamp # Live(Original)'
      OBVIOUS
    <3>2. stamp \in Grants \cup {Absent} /\ Dated(stamp)
      BY <1>1, <2>1, <3>1 DEF TypeOK, StampSound
    <3>3. Dated(stamp)'
      BY <1>1, <1>2, <1>6, <3>2, DatedStays DEF Dated
    <3> QED
      BY <1>6, <3>2, <3>3
  <2> QED
    BY <1>2, <2>1, <2>2 DEF StampSound, Before, After, Whose, Dated, GrantAt
<1> QED
  BY <1>16, <1>17, <1>19, <1>20, <1>21 DEF GrantInv, GrantWork

-----------------------------------------------------------------------------
(* A rollback *)

\* What a first switch that archived no account replaced was a login that the
\* vault does not know.
LEMMA ReplacedLogin ==
  ASSUME TypeOK, NEW t, Typed(t), TxSound(t), ImageSound(t), Before(t, Binding) = Absent,
         \A i \in DOMAIN t.refs : t.refs[i].before = Active => t.refs[i].after = Active,
         Activates(t)
  PROVE  /\ Before(t, GrantAt) \in Grants /\ Whose(Before(t, GrantAt)) = Original
         /\ Before(t, GrantAt).acct = Original
<1>1. Before(t, GrantAt) \in Grants /\ Before(t, GrantAt) # Absent
  BY ImageKinds DEF Activates, Before, GrantAt
<1>2. Whose(Before(t, GrantAt)) \in Managed \cup {Original} /\ Active \notin Managed
  BY <1>1, WhoseFacts, SwitchConstants DEF Accounts
<1>3. ASSUME NEW a \in Managed, Whose(Before(t, GrantAt)) = a
      PROVE  FALSE
  <2>1. Leaves(t, a)
    BY <1>3 DEF ImageSound, GatewaySound, ByGateway
  <2>2. PICK i \in DOMAIN t.refs : t.refs[i].id = a /\ t.refs[i].before = Active /\ t.refs[i].after = Active
    BY <2>1 DEF Leaves
  <2>3. ~Archives(t, a)
    BY <1>2 DEF ImageSound, ArchiveSound
  <2>4. Before(t, GrantAt) = After(t, GrantAt) /\ Before(t, ProfileAt) = After(t, ProfileAt)
    BY <2>2, <2>3 DEF ImageSound, MovesSound
  <2> QED
    BY <2>4 DEF Activates, NativeParts, Before, After, GrantAt, ProfileAt
<1> QED
  BY <1>1, <1>2, <1>3, WhoseFacts

LEMMA BeginRollbackKeepsGrants ==
  ASSUME ~RollbackWhilePending, SwitchInv, GrantInv, ChoiceStays, BeginRollback
  PROVE  GrantInv'
<1>1. PICK t : t = txs[store[Binding].op]
  OBVIOUS
<1>2. /\ t # NoTx /\ Before(t, Binding) = Absent
      /\ \A i \in DOMAIN t.refs : t.refs[i].before = Active => t.refs[i].after = Active
      /\ tx' = t /\ stage = "idle" /\ stage' = "restore" /\ UNCHANGED disk /\ keeps' = keeps /\ Bound
  BY <1>1 DEF BeginRollback, Before, Idle
<1>3. TypeOK /\ DiskSound /\ WorkSound
  BY DEF SwitchInv
<1>4. store[Binding].op \in Ops
  BY <1>2, <1>3, StoreKinds DEF Bound, Bindings
<1>5. t \in Files
  BY <1>1, <1>2, <1>4 DEF Files
<1>6. Typed(t) /\ TxSound(t) /\ ImageSound(t)
  BY <1>3, <1>5, FilesTyped DEF GrantInv, GrantDisk, ImagesSound
<1>7. latest \in [Accounts -> Nat] /\ Original \in Accounts /\ Original \notin Managed /\ Managed \subseteq Accounts
  BY <1>3, StoreKinds
<1>8. PICK old : old = Before(t, GrantAt)
  OBVIOUS
<1>9. Activates(t) =>
        old \in Grants /\ Whose(old) = Original /\ old.acct = Original /\ old # Absent
  BY <1>2, <1>3, <1>6, <1>8, ReplacedLogin, WhoseFacts
<1>10. /\ WorldSame
       /\ stamp' # Absent =>
            /\ Whose(stamp') = Original /\ Dated(stamp)' /\ Whose(old) = Original
            /\ stamp' = old \/ Original \in forfeited'
  <2>1. CASE ~Activates(t) /\ stamp' = Absent /\ UNCHANGED world
    BY <1>3, <2>1, WorldUnchanged DEF world
  <2>2. CASE Activates(t) /\ Valid(old) /\ stamp' = old /\ UNCHANGED world
    <3>1. WorldSame /\ latest' = latest
      BY <1>3, <2>2, WorldUnchanged DEF world
    <3>2. old = Live(Original)
      BY <1>9, <2>2 DEF Valid
    <3>3. old.gen = latest[Original] /\ latest[Original] \in Nat
      BY <1>7, <3>2, LiveFacts
    <3>4. Dated(stamp)'
      BY <1>9, <2>2, <3>1, <3>3 DEF Dated
    <3> QED
      BY <1>9, <2>2, <3>1, <3>4
  <2>3. CASE /\ Activates(t) /\ Valid(old)
             /\ stamp' = [old EXCEPT !.gen = @ + 1]
             /\ latest' = [latest EXCEPT ![old.acct] = @ + 1]
             /\ forfeited' = forfeited \cup {old.acct}
    <3>1. old = Live(Original)
      BY <1>9, <2>3 DEF Valid
    <3>2. PICK n \in Nat : n = latest[Original] /\ old.gen = n
      BY <1>7, <3>1, LiveFacts
    <3>3. latest' = [latest EXCEPT ![Original] = n + 1] /\ forfeited' = forfeited \cup {Original}
      BY <1>9, <2>3, <3>2
    <3>4. latest' \in [Accounts -> Nat] /\ latest'[Original] = n + 1
          /\ \A a \in Accounts : a # Original => latest'[a] = latest[a]
      BY <1>7, <3>3
    <3>5. Advances
      <4>1. \A a \in Accounts : latest[a] \in Nat
        BY <1>7
      <4> QED
        BY <3>2, <3>4, <4>1 DEF Advances
    <3>6. WorldSame
      BY <1>7, <3>3, <3>4, <3>5 DEF WorldSame
    <3>7. PICK g : g = [old EXCEPT !.gen = @ + 1]
      OBVIOUS
    <3>8. g \in Grants /\ g.acct = Original /\ g.gen = n + 1
      <4>1. old = [acct |-> Original, gen |-> n]
        BY <1>9, <2>3, <3>2 DEF Grants
      <4>2. g = [acct |-> Original, gen |-> n + 1]
        BY <3>7, <4>1
      <4>3. n + 1 \in Nat
        BY <3>2
      <4> QED
        BY <1>7, <4>2, <4>3 DEF Grants
    <3>9. Whose(g) = Original /\ g # Absent
      BY <3>8, WhoseFacts
    <3>10. Dated(stamp)'
      BY <2>3, <3>2, <3>4, <3>7, <3>8 DEF Dated
    <3> QED
      BY <1>9, <2>3, <3>3, <3>6, <3>7, <3>9, <3>10
  <2> QED
    BY <1>1, <1>8, <2>1, <2>2, <2>3 DEF BeginRollback, Before, GrantAt
<1>11. GrantDisk'
  <2>1. store' = store /\ refs' = refs /\ txs' = txs
    BY <1>2 DEF disk
  <2>2. HomesSame /\ Saving' \subseteq Saving
    BY <1>2, <2>1 DEF HomesSame, Saving
  <2>3. RefsKnown'
    BY <2>1, RefsSame DEF GrantInv, GrantDisk
  <2> QED
    BY <1>10, <2>1, <2>2, <2>3, DiskStill DEF GrantInv
<1>12. Ready' /\ ForwardSound' /\ BackwardSound'
  BY <1>2 DEF Ready, ForwardSound, BackwardSound, Forward, Backward, Applying
<1>13. StampSound'
  <2>1. ~keeps
    BY <1>2 DEF GrantInv, GrantWork, StampSound
  <2>2. Before(tx, GrantAt)' = old
    BY <1>2, <1>8 DEF Before, GrantAt
  <2> QED
    BY <1>2, <1>10, <2>1, <2>2 DEF StampSound, Forward, Applying, Whose
<1> QED
  BY <1>11, <1>12, <1>13 DEF GrantInv, GrantWork

-----------------------------------------------------------------------------
(* A transaction is put together *)

LEMMA NoneNewer ==
  ASSUME latest \in [Accounts -> Nat], NEW a \in Accounts, NEW v \in Grants \cup {Absent}, Dated(v)
  PROVE  NoNewer(v, a, Live(a))
<1>1. Live(a) # Absent /\ Live(a).gen = latest[a] /\ a # Absent
  BY LiveFacts, WhoseFacts
<1>2. SUFFICES ASSUME Whose(v) = a PROVE v.gen <= latest[a]
  BY <1>1 DEF NoNewer
<1>3. v # Absent /\ v.acct = a
  BY <1>1, <1>2 DEF Whose
<1> QED
  BY <1>3 DEF Dated

\* What copy_store makes of a profile.
LEMMA CopiedFacts ==
  ASSUME TypeOK, NEW h \in Homes, NEW i \in Homes, store[Profile(h)] # Absent \/ i = h
  PROVE  /\ Copied(h, Grant(i)) = store[Grant(h)]
         /\ Whose(Copied(h, Profile(i))) = Whose(store[Profile(h)])
         /\ i = h => Copied(h, Profile(i)) = store[Profile(i)]
         /\ Signed(store[Profile(h)]) /\ Signed(store[Profile(i)]) => Signed(Copied(h, Profile(i)))
<1>1. /\ store[Profile(h)] \in Profiles \cup {Absent} /\ store[Profile(i)] \in Profiles \cup {Absent}
  BY StoreKinds
<1>2. Copied(h, Grant(i)) = store[Grant(h)]
  BY DEF Copied, Grant
<1>3. Copied(h, Profile(i)) = IF store[Profile(i)] = Absent THEN store[Profile(h)]
                              ELSE [store[Profile(i)] EXCEPT !.acct = store[Profile(h)].acct]
  BY DEF Copied, Profile
<1>4. CASE store[Profile(i)] = Absent
  BY <1>2, <1>3, <1>4
<1>5. CASE store[Profile(i)] # Absent
  <2>1. store[Profile(i)] \in Profiles /\ store[Profile(h)] \in Profiles
    BY <1>1, <1>5
  <2>2. PICK p : p = [store[Profile(i)] EXCEPT !.acct = store[Profile(h)].acct]
    OBVIOUS
  <2>3. p \in Profiles /\ p.acct = store[Profile(h)].acct /\ p.rev = store[Profile(i)].rev
    BY <2>1, <2>2 DEF Profiles
  <2>4. Copied(h, Profile(i)) = p
    BY <1>3, <1>5, <2>2
  <2>5. Whose(p) = Whose(store[Profile(h)]) /\ p # Absent
    BY <2>1, <2>3, WhoseFacts
  <2>6. i = h => p = store[Profile(i)]
    BY <2>1, <2>2 DEF Profiles
  <2>7. Signed(store[Profile(i)]) => Signed(p)
    BY <1>5, <2>3 DEF Signed
  <2> QED
    BY <1>2, <2>4, <2>5, <2>6, <2>7
<1> QED
  BY <1>4, <1>5

\* What archives the accounts in O, which give up the active home.
Archiving(t, O) ==
  /\ O \subseteq Managed
  /\ Covers(t) = {Grant(a) : a \in O} \cup {Profile(a) : a \in O} \cup {GrantAt, ProfileAt, Config, Binding}
  /\ \A r \in Covers(t) : Before(t, r) = store[r]
  /\ \A a \in O :
       /\ refs[a] = Active /\ Identity(Active) = a
       /\ After(t, Grant(a)) = Copied(Active, Grant(a)) /\ After(t, Profile(a)) = Copied(Active, Profile(a))
       /\ \E i \in DOMAIN t.refs : t.refs[i].id = a /\ t.refs[i].before = Active /\ t.refs[i].after = a
  /\ \A i \in DOMAIN t.refs :
       /\ t.refs[i].before = refs[t.refs[i].id]
       /\ \/ t.refs[i].after = Active
          \/ t.refs[i].id \in O /\ t.refs[i].after = t.refs[i].id
  /\ \A a \in Managed \ O : refs[a] = Active =>
       /\ Leaves(t, a)
       /\ After(t, GrantAt) = Before(t, GrantAt) /\ After(t, ProfileAt) = Before(t, ProfileAt)

\* What it puts at the active home.
Entering(t) ==
  /\ Whose(After(t, GrantAt)) = Whose(After(t, ProfileAt))
  /\ Dated(After(t, GrantAt)) /\ Signed(After(t, ProfileAt))
  /\ \A a \in Managed :
       Whose(After(t, GrantAt)) = a => Arrives(t, a) \/ ByGateway(After(t, Binding))
  /\ ByGateway(After(t, Binding)) =>
       /\ After(t, Config).mode = "gateway"
       /\ After(t, Binding).native = <<After(t, GrantAt), After(t, ProfileAt)>>

\* An operation may be prepared: what Ready says.
Calm ==
  /\ \A a \in Managed \ forfeited : Home[a] # Active => store[Grant(a)] = Live(a)
  /\ Mismatch => Whose(store[GrantAt]) = Original

LEMMA OutgoingFacts ==
  ASSUME SwitchInv, GrantInv, Pending = {}, NEW a \in Managed, Identity(Active) = a
  PROVE  /\ store[GrantAt] \in Grants /\ Whose(store[GrantAt]) = a /\ store[ProfileAt] # Absent
         /\ Whose(store[ProfileAt]) = a
<1>1. a \in Accounts /\ Active \in Homes /\ TypeOK
  BY StoreKinds DEF SwitchInv
<1>2. store[GrantAt] \in Grants /\ store[ProfileAt] \in Profiles /\ store[ProfileAt].acct = a
  BY <1>1, IdentityFacts DEF GrantAt, ProfileAt
<1>3. Whose(store[ProfileAt]) = a /\ store[ProfileAt] # Absent
  BY <1>2, WhoseFacts
<1>4. Paired(Active)
  BY DEF GrantInv, GrantDisk, Placed
<1> QED
  BY <1>2, <1>3, <1>4 DEF Paired, GrantAt, ProfileAt

LEMMA PreparedImages ==
  ASSUME SwitchInv, GrantInv, Pending = {}, Calm, NEW t, Typed(t), TxSound(t),
         NEW O, Archiving(t, O), Entering(t)
  PROVE  ImageSound(t) /\ FreshImages(t)
<1>1. /\ TypeOK /\ DiskSound
      /\ Managed \subseteq Accounts /\ Managed \subseteq Homes /\ Active \in Homes /\ Active \notin Managed
      /\ Original \notin Managed /\ Home = refs
  BY StoreKinds, NonePending DEF SwitchInv
<1>2. /\ O \subseteq Managed
      /\ \A r \in Covers(t) : Before(t, r) = store[r]
      /\ {GrantAt, ProfileAt, Config, Binding} \subseteq Covers(t)
  BY DEF Archiving
<1>3. \A a \in O : /\ Whose(store[GrantAt]) = a /\ store[ProfileAt] # Absent
                   /\ Whose(store[ProfileAt]) = a
  BY <1>2, OutgoingFacts DEF Archiving
<1>4. \A h \in Homes : /\ (Grant(h) \in Covers(t) <=> h \in O \cup {Active})
                       /\ (Profile(h) \in Covers(t) <=> h \in O \cup {Active})
  <2>1. \A h \in Homes : \A i \in Homes : Grant(h) # Profile(i) /\ (Grant(h) = Grant(i) => h = i)
                                         /\ (Profile(h) = Profile(i) => h = i)
    BY ResourceFacts DEF Grant, Profile
  <2>2. \A h \in Homes : Grant(h) \notin {Config, Binding} /\ Profile(h) \notin {Config, Binding}
    BY ResourceFacts
  <2>3. Covers(t) = {Grant(a) : a \in O} \cup {Profile(a) : a \in O}
                      \cup {Grant(Active), Profile(Active), Config, Binding}
    BY DEF Archiving, GrantAt, ProfileAt
  <2> QED
    BY <1>1, <1>2, <2>1, <2>2, <2>3
<1>5. \A a \in Managed : Archives(t, a) <=> a \in O
  BY <1>1, <1>4 DEF Archives
<1>6. \A a \in O : /\ After(t, Grant(a)) = store[GrantAt] /\ Whose(After(t, Grant(a))) = a
                   /\ Whose(After(t, Profile(a))) = a
                   /\ (Signed(store[ProfileAt]) /\ Signed(store[Profile(a)]) => Signed(After(t, Profile(a))))
  <2> TAKE a \in O
  <2>1. a \in Homes /\ store[Profile(Active)] # Absent
    BY <1>1, <1>2, <1>3 DEF ProfileAt
  <2>2. /\ Copied(Active, Grant(a)) = store[Grant(Active)]
        /\ Whose(Copied(Active, Profile(a))) = Whose(store[Profile(Active)])
        /\ Signed(store[Profile(Active)]) /\ Signed(store[Profile(a)]) => Signed(Copied(Active, Profile(a)))
    BY <1>1, <2>1, CopiedFacts
  <2> QED
    BY <1>3, <2>2 DEF Archiving, GrantAt, ProfileAt
<1>7. /\ \A h \in Homes : Dated(store[Grant(h)]) /\ Signed(store[Profile(h)])
      /\ \A a \in Managed : Whose(store[Grant(a)]) \in {a, Absent} /\ Paired(a)
      /\ Paired(Active)
      /\ \A a \in Managed : Whose(store[GrantAt]) = a => refs[a] = Active \/ ByGateway(store[Binding])
      /\ ByGateway(store[Binding]) => store[Config].mode = "gateway"
  BY <1>1 DEF GrantInv, GrantDisk, Fresh, HomesSound, Placed
<1>8. StoresSound(t)
  <2>1. ASSUME NEW h \in Homes, Grant(h) \in Covers(t)
        PROVE  /\ Whose(Before(t, Grant(h))) = Whose(Before(t, Profile(h)))
               /\ Whose(After(t, Grant(h))) = Whose(After(t, Profile(h)))
    <3>1. h \in O \/ h = Active
      BY <1>4, <2>1
    <3>2. Before(t, Grant(h)) = store[Grant(h)] /\ Before(t, Profile(h)) = store[Profile(h)]
      BY <1>2, <1>4, <2>1
    <3>3. Paired(h)
      BY <1>2, <1>7, <3>1
    <3>4. Whose(After(t, Grant(h))) = Whose(After(t, Profile(h)))
      BY <1>6, <3>1 DEF Entering, GrantAt, ProfileAt
    <3> QED
      BY <3>2, <3>3, <3>4 DEF Paired
  <2> QED
    BY <1>4, <2>1 DEF StoresSound
<1>9. ArchiveSound(t)
  <2>1. ASSUME NEW a \in Managed, Archives(t, a)
        PROVE  /\ Whose(Before(t, Grant(a))) \in {a, Absent}
               /\ After(t, Grant(a)) = Before(t, GrantAt) /\ Whose(After(t, Grant(a))) = a
               /\ \E i \in DOMAIN t.refs :
                    t.refs[i].id = a /\ t.refs[i].before = Active /\ t.refs[i].after = a
    <3>1. a \in O
      BY <1>5, <2>1
    <3>2. Before(t, Grant(a)) = store[Grant(a)] /\ Before(t, GrantAt) = store[GrantAt]
      BY <1>2, <2>1 DEF Archives
    <3>3. \E i \in DOMAIN t.refs : t.refs[i].id = a /\ t.refs[i].before = Active /\ t.refs[i].after = a
      BY <3>1 DEF Archiving
    <3> QED
      BY <1>6, <1>7, <3>1, <3>2, <3>3
  <2> QED
    BY <2>1 DEF ArchiveSound
<1>10. MovesSound(t)
  <2>1. \A i \in DOMAIN t.refs :
          /\ t.refs[i].id \in Managed /\ t.refs[i].before = refs[t.refs[i].id]
          /\ \/ t.refs[i].after = Active
             \/ t.refs[i].id \in O /\ t.refs[i].after = t.refs[i].id
    BY TypedFacts DEF Archiving
  <2>2. \A i, j \in DOMAIN t.refs :
          t.refs[i].before = Active /\ t.refs[j].before = Active => t.refs[i].id = t.refs[j].id
    BY <1>1, <2>1, Occupied
  <2>3. ASSUME NEW i \in DOMAIN t.refs, t.refs[i].before = Active, t.refs[i].after = Active,
               ~Archives(t, t.refs[i].id)
        PROVE  Before(t, GrantAt) = After(t, GrantAt) /\ Before(t, ProfileAt) = After(t, ProfileAt)
    <3>1. t.refs[i].id \in Managed \ O /\ refs[t.refs[i].id] = Active
      BY <1>5, <2>1, <2>3
    <3> QED
      BY <3>1 DEF Archiving
  <2> QED
    BY <1>5, <2>1, <2>2, <2>3 DEF MovesSound
<1>11. GatewaySound(t)
  <2>1. /\ Before(t, GrantAt) = store[GrantAt] /\ Before(t, ProfileAt) = store[ProfileAt]
        /\ Before(t, Binding) = store[Binding] /\ Before(t, Config) = store[Config]
    BY <1>2
  <2>2. ASSUME NEW a \in Managed, Whose(store[GrantAt]) = a
        PROVE  Leaves(t, a) \/ ByGateway(store[Binding])
    <3>1. CASE refs[a] = Active
      <4>1. CASE a \in O
        BY <4>1 DEF Archiving, Leaves
      <4>2. CASE a \notin O
        BY <3>1, <4>2 DEF Archiving
      <4> QED
        BY <4>1, <4>2
    <3> QED
      BY <1>7, <2>2, <3>1
  <2>3. ByGateway(store[Binding]) /\ Whose(store[GrantAt]) \in Managed =>
          store[Binding].native = <<store[GrantAt], store[ProfileAt]>>
    BY <1>1 DEF Calm, Mismatch, Native, GrantAt, ProfileAt
  <2> QED
    BY <1>7, <2>1, <2>2, <2>3 DEF GatewaySound, Entering
<1>12. FreshImages(t)
  <2>1. ASSUME NEW h \in Homes, Grant(h) \in Covers(t)
        PROVE  /\ Dated(Before(t, Grant(h))) /\ Dated(After(t, Grant(h)))
               /\ Signed(Before(t, Profile(h))) /\ Signed(After(t, Profile(h)))
    <3>1. h \in O \/ h = Active
      BY <1>4, <2>1
    <3>2. Before(t, Grant(h)) = store[Grant(h)] /\ Before(t, Profile(h)) = store[Profile(h)]
      BY <1>2, <1>4, <2>1
    <3>3. CASE h = Active
      BY <1>7, <3>2, <3>3 DEF Entering, GrantAt, ProfileAt
    <3>4. CASE h \in O
      <4>1. Dated(store[GrantAt]) /\ Signed(store[ProfileAt])
        BY <1>1, <1>7 DEF GrantAt, ProfileAt
      <4> QED
        BY <1>6, <1>7, <3>2, <3>4, <4>1
    <3> QED
      BY <3>1, <3>3, <3>4
  <2> QED
    BY <2>1 DEF FreshImages
<1> QED
  BY <1>8, <1>9, <1>10, <1>11, <1>12 DEF ImageSound

LEMMA PreparedKeepsGrants ==
  ASSUME SwitchInv, GrantInv, ChoiceStays, Pending = {}, Calm, UNCHANGED disk, UNCHANGED world,
         stage # "save", stage' = "save",
         NEW t, tx' = t, Typed(t), TxSound(t), NEW O, Archiving(t, O), Entering(t),
         Original \notin forfeited /\ After(t, GrantAt) = Live(Original) =>
           Before(t, GrantAt) = After(t, GrantAt) \/ Recorded(Live(Original)),
         \A a \in Managed \ forfeited :
           Home[a] # Active /\ Aim(t) = a => After(t, GrantAt) = store[Grant(a)],
         keeps' /\ stamp' # Absent => stamp' = After(t, GrantAt) /\ Whose(stamp') = Original
  PROVE  GrantInv'
<1>1. /\ store' = store /\ refs' = refs /\ txs' = txs /\ latest' = latest /\ forfeited' = forfeited
      /\ Home' = Home /\ OldBinding' = OldBinding
  BY DEF disk, world, ChoiceStays
<1>2. /\ TypeOK /\ DiskSound /\ WorkSound /\ GrantDisk
      /\ Managed \subseteq Accounts /\ Managed \subseteq Homes /\ Active \in Homes /\ Active \notin Managed
      /\ Original \notin Managed /\ Home = refs /\ latest \in [Accounts -> Nat]
  BY StoreKinds, NonePending DEF SwitchInv, GrantInv
<1>3. ImageSound(t) /\ FreshImages(t)
  BY PreparedImages
<1>4. Saving = {} /\ Saving' = {t} /\ Pending' = {}
  BY <1>1 DEF Saving, Pending
<1>5. Files' = Files \cup {t} /\ Open' = {t}
  BY <1>1, <1>4 DEF Files, Open
<1>6. HomesSame /\ WorldSame
  BY <1>1, <1>2, WorldUnchanged DEF HomesSame
<1>7. /\ \A h \in Homes : Paired(h) => Paired(h)'
      /\ \A a \in Managed : /\ Live(a)' = Live(a)
                            /\ (AtActive(a) => AtActive(a)') /\ (AtHome(a) => AtHome(a)')
  BY <1>6, SameFacts
<1>8. /\ {GrantAt, ProfileAt, Config, Binding} \subseteq Covers(t)
      /\ \A r \in Covers(t) : Before(t, r) = store[r]
      /\ \A a \in Managed : Archives(t, a) => Grant(a) \in Covers(t) /\ Before(t, Grant(a)) = store[Grant(a)]
  BY DEF Archiving, Archives
<1>9. \A a \in Managed : Archives(t, a) => refs[a] = Active /\ Whose(store[GrantAt]) = a
  <2>1. ASSUME NEW a \in Managed, Archives(t, a)
        PROVE  a \in O
    <3>1. /\ \A h \in Homes : Grant(a) # Profile(h) /\ Grant(a) \notin {Config, Binding}
          /\ \A h \in Homes : Grant(a) = Grant(h) => a = h
      BY <1>2, ResourceFacts DEF Grant
    <3>2. Grant(a) \in {Grant(b) : b \in O} \cup {Profile(b) : b \in O}
                         \cup {Grant(Active), Profile(Active), Config, Binding}
      BY <2>1 DEF Archives, Archiving, GrantAt, ProfileAt
    <3>3. O \subseteq Managed
      BY DEF Archiving
    <3> QED
      BY <1>2, <3>1, <3>2, <3>3
  <2>2. \A a \in O : refs[a] = Active /\ Identity(Active) = a /\ a \in Managed
    BY DEF Archiving
  <2>3. \A a \in O : Whose(store[GrantAt]) = a
    BY <2>2, OutgoingFacts
  <2> QED
    BY <2>1, <2>2, <2>3
<1>10. \A a \in Managed \ forfeited : IF Home[a] = Active THEN AtActive(a) ELSE store[Grant(a)] = Live(a)
  BY <1>2 DEF GrantDisk, Placed, Calm
<1>11. GrantDisk'
  <2>1. ImagesSound'
    <3>1. \A u \in Files \cup {t} : ImageSound(u)'
      BY <1>2, <1>3, ImageStays DEF GrantDisk, ImagesSound
    <3> QED
      BY <1>5, <3>1 DEF ImagesSound
  <2>2. Fresh'
    <3>1. Advances
      BY <1>6 DEF WorldSame
    <3>2. \A u \in Files \cup {t} : Typed(u) /\ TxSound(u) /\ StoresSound(u) /\ FreshImages(u)
      BY <1>2, <1>3, FilesTyped DEF GrantDisk, ImagesSound, ImageSound, Fresh
    <3>3. \A u \in Files \cup {t} : FreshImages(u)'
      BY <1>2, <3>1, <3>2, FreshStays
    <3>4. (\A h \in Homes : Dated(store[Grant(h)]) /\ Signed(store[Profile(h)]))'
      BY <1>2, <1>6, <3>1, FreshHomes DEF GrantDisk
    <3> QED
      BY <1>5, <3>3, <3>4 DEF Fresh
  <2>3. HomesSound'
    BY <1>1, <1>2, <1>7 DEF GrantDisk, HomesSound, Whose
  <2>4. Placed' /\ Kept'
    BY <1>1, <1>2, <1>4, <1>7 DEF GrantDisk, Placed, Kept, Whose, ByGateway, GrantAt
  <2>5. Unswitched'
    BY <1>1, <1>2, <1>4 DEF GrantDisk, Unswitched
  <2>6. OpenSound'
    <3>1. ASSUME NEW a \in Managed \ forfeited, Archives(t, a)
          PROVE  OutgoingSound(t, a)
      <4>1. store[GrantAt] = Live(a)
        BY <1>2, <1>9, <1>10, <3>1 DEF AtActive
      <4>2. /\ Before(t, GrantAt) = store[GrantAt] /\ Before(t, Grant(a)) = store[Grant(a)]
            /\ Before(t, Grant(a)) \in Grants \cup {Absent} /\ a \in Accounts
            /\ Before(t, GrantAt) \in Grants \cup {Absent} /\ After(t, GrantAt) \in Grants \cup {Absent}
        BY <1>2, <1>8, <3>1, ImageKinds
      <4>3. Dated(Before(t, GrantAt)) /\ Dated(After(t, GrantAt)) /\ Dated(Before(t, Grant(a)))
        BY <1>2, <1>3, <1>8, <3>1 DEF FreshImages, GrantAt
      <4>4. \A v \in {Before(t, GrantAt), After(t, GrantAt), Before(t, Grant(a))} : NoNewer(v, a, Live(a))
        BY <1>2, <4>2, <4>3, NoneNewer
      <4> QED
        BY <4>1, <4>2, <4>4 DEF OutgoingSound
    <3>2. ASSUME NEW a \in Managed \ forfeited, ~Archives(t, a), Home[a] = Active
          PROVE  InPlaceSound(t, a)
      <4>1. a \notin O
        BY <1>8, <3>2 DEF Archiving, Archives
      <4>2. After(t, GrantAt) = Before(t, GrantAt)
        BY <1>2, <3>2, <4>1 DEF Archiving
      <4> QED
        BY <1>10, <3>2, <4>2 DEF InPlaceSound
    <3>3. ASSUME NEW a \in Managed \ forfeited, Home[a] # Active
          PROVE  HomeSound(t, a)
      <4>1. store[Grant(a)] = Live(a) /\ a \in Accounts
        BY <1>2, <1>10, <3>3
      <4>2. Before(t, GrantAt) \in Grants \cup {Absent} /\ After(t, GrantAt) \in Grants \cup {Absent}
        BY ImageKinds
      <4>3. Dated(Before(t, GrantAt)) /\ Dated(After(t, GrantAt))
        BY <1>2, <1>3, <1>8 DEF FreshImages, GrantAt
      <4>4. \A v \in {Before(t, GrantAt), After(t, GrantAt)} : NoNewer(v, a, Live(a))
        BY <1>2, <4>1, <4>2, <4>3, NoneNewer
      <4> QED
        BY <4>1, <4>4 DEF HomeSound
    <3>4. \A a \in Managed : /\ (OutgoingSound(t, a) => OutgoingSound(t, a)')
                             /\ (InPlaceSound(t, a) => InPlaceSound(t, a)')
                             /\ (HomeSound(t, a) => HomeSound(t, a)')
                             /\ (Archives(t, a)' <=> Archives(t, a))
      BY <1>1, <1>7 DEF OutgoingSound, InPlaceSound, HomeSound, Archives, Covers, Before, After,
        NoNewer, Whose, GrantAt
    <3> QED
      BY <1>1, <1>5, <3>1, <3>2, <3>3, <3>4 DEF OpenSound
  <2>7. RefsKnown'
    BY <1>4 DEF RefsKnown
  <2>8. OriginalSound'
    <3>1. Live(Original)' = Live(Original)
      BY <1>1 DEF Live
    <3>2. Recorded(Live(Original)) => Recorded(Live(Original))'
      BY <1>1, <3>1 DEF Recorded, Before, After, GrantAt
    <3>3. Original \notin forfeited => store[GrantAt] = Live(Original) \/ Recorded(Live(Original))
      BY <1>2 DEF GrantDisk, OriginalSound
    <3> QED
      BY <1>1, <1>5, <3>1, <3>2, <3>3 DEF OriginalSound, Before, After, GrantAt
  <2> QED
    BY <2>1, <2>2, <2>3, <2>4, <2>5, <2>6, <2>7, <2>8 DEF GrantDisk
<1>12. ForwardSound'
  <2>1. \A r \in Covers(t) : Made(r)' = store[r]
    BY <1>8 DEF Made, Before
  <2>2. Covers(tx)' = Covers(t)
    BY DEF Covers
  <2>3. (\A a \in Managed : \A r \in {Grant(a), Profile(a)} : r \in Covers(tx) => store[r] = Made(r))'
    BY <1>1, <2>1, <2>2
  <2>4. (/\ store[ProfileAt] = Made(ProfileAt) /\ Whose(store[GrantAt]) = Whose(Made(GrantAt))
         /\ store[GrantAt] = Made(GrantAt) /\ store[Config].mode = Made(Config).mode)'
    BY <1>1, <1>8, <2>1 DEF Whose, GrantAt, ProfileAt
  <2>5. (\A a \in Managed \ forfeited :
          ~Archives(tx, a) /\ Home[a] # Active /\ Aim(tx) = a => After(tx, GrantAt) = store[Grant(a)])'
    BY <1>1 DEF Aim, After, GrantAt
  <2> QED
    BY <2>3, <2>4, <2>5 DEF ForwardSound
<1>13. Ready' /\ BackwardSound'
  BY DEF Ready, BackwardSound, Backward
<1>14. StampSound'
  BY DEF StampSound, After, Whose, GrantAt
<1> QED
  BY <1>11, <1>12, <1>13, <1>14 DEF GrantInv, GrantWork

\* What Start puts together.
LEMMA StartShape ==
  ASSUME SwitchInv', NEW post, NEW us, Start(post, us)
  PROVE  \E t : /\ tx' = t /\ Typed(t) /\ TxSound(t) /\ t.refs = us /\ Covers(t) = DOMAIN post
                /\ \A r \in DOMAIN post : Before(t, r) = store[r] /\ After(t, r) = post[r]
<1>1. PICK t : t = tx'
  OBVIOUS
<1>2. t = [op |-> FreeOp, committed |-> FALSE, changes |-> Changes(post), refs |-> us] /\ stage' = "save"
  BY <1>1 DEF Start
<1>3. t.refs = us /\ t.changes = [r \in DOMAIN post |-> [before |-> store[r], after |-> post[r]]]
  BY <1>2 DEF Changes
<1>4. Covers(t) = DOMAIN post /\ \A r \in DOMAIN post : Before(t, r) = store[r] /\ After(t, r) = post[r]
  BY <1>3 DEF Covers, Before, After
<1>5. (tx # NoTx /\ TxSound(tx))'
  BY <1>2 DEF SwitchInv, WorkSound, SaveSound
<1>6. Typed(tx)'
  BY <1>5 DEF SwitchInv, TypeOK
<1>7. TxSound(t)
  BY <1>1, <1>5 DEF TxSound, Covers, Before, After, RefsSound
<1>8. Typed(t)
  BY <1>1, <1>6 DEF Typed, Covers
<1> QED
  BY <1>1, <1>3, <1>4, <1>7, <1>8

\* What is put together archives the outgoing accounts.
LEMMA ArchivingShape ==
  ASSUME SwitchInv, Pending = {}, NEW g, MayArchive(g), NEW t, Typed(t),
         NEW mv \in Seq(RefUpdate), Len(mv) <= 1, t.refs = MoveOut(g) \o mv,
         Covers(t) = DOMAIN Archived(g) \cup {GrantAt, ProfileAt, Config, Binding},
         \A r \in Covers(t) : Before(t, r) = store[r],
         \A r \in DOMAIN Archived(g) : r \notin {GrantAt, ProfileAt, Config, Binding} =>
           After(t, r) = Archived(g)[r],
         Len(mv) = 1 => mv[1].before = refs[mv[1].id] /\ mv[1].after = Active,
         \A a \in Managed \ Outgoing(g) : refs[a] = Active =>
           /\ Len(mv) = 1 /\ mv[1].id = a
           /\ After(t, GrantAt) = Before(t, GrantAt) /\ After(t, ProfileAt) = Before(t, ProfileAt)
  PROVE  Archiving(t, Outgoing(g))
<1>1. TypeOK /\ DiskSound /\ Active \notin Managed /\ Managed \subseteq Homes /\ Active \in Homes
  BY StoreKinds DEF SwitchInv
<1>2. PICK O : O = Outgoing(g)
  OBVIOUS
<1>3. O \subseteq Managed /\ \A a \in O : a \in Managed /\ refs[a] = Active /\ Identity(Active) = a
  BY <1>2 DEF Outgoing, MayArchive
<1>4. /\ DOMAIN Archived(g) = {Grant(a) : a \in O} \cup {Profile(a) : a \in O}
      /\ \A r \in DOMAIN Archived(g) : Archived(g)[r] = Copied(Active, r)
  BY <1>2 DEF Archived
<1>5. ASSUME NEW a \in O
      PROVE  After(t, Grant(a)) = Copied(Active, Grant(a)) /\ After(t, Profile(a)) = Copied(Active, Profile(a))
  <2>1. /\ Grant(a) \notin {GrantAt, ProfileAt, Config, Binding}
        /\ Profile(a) \notin {GrantAt, ProfileAt, Config, Binding}
    <3>1. a \in Homes /\ a # Active
      BY <1>1, <1>3
    <3> QED
      BY <1>1, <3>1, ResourceFacts DEF GrantAt, ProfileAt, Grant, Profile
  <2> QED
    BY <1>4, <2>1
<1>6. PICK out : out = MoveOut(g)
  OBVIOUS
<1>7. /\ out \in Seq(RefUpdate) /\ Len(out) <= 1
      /\ O # {} => Len(out) = 1
      /\ Len(out) = 1 => \E a \in Managed : a # g /\ refs[a] = Active
                           /\ out[1] = [id |-> a, before |-> Active, after |-> a]
  BY <1>1, <1>2, <1>6, MoveOutFacts
<1>8. PICK us : us = out \o mv
  OBVIOUS
<1>9. /\ \A i \in DOMAIN us : \/ i = 1 /\ Len(out) = 1 /\ us[i] = out[1]
                              \/ i = Len(out) + 1 /\ Len(mv) = 1 /\ us[i] = mv[1]
      /\ Len(out) = 1 => 1 \in DOMAIN us /\ us[1] = out[1]
      /\ Len(mv) = 1 => Len(out) + 1 \in DOMAIN us /\ us[Len(out) + 1] = mv[1]
  BY <1>7, <1>8, JoinedFacts
<1>10. t.refs = us
  BY <1>6, <1>8
<1>11. Len(out) = 1 => \E a \in O : out[1] = [id |-> a, before |-> Active, after |-> a]
  BY <1>2, <1>7 DEF Outgoing
<1>12. ASSUME NEW a \in O
       PROVE  \E i \in DOMAIN us : us[i].id = a /\ us[i].before = Active /\ us[i].after = a
  <2>1. PICK b \in O : out[1] = [id |-> b, before |-> Active, after |-> b]
    BY <1>7, <1>11
  <2>2. b = a
    BY <1>1, <1>3, Occupied
  <2>3. 1 \in DOMAIN us /\ us[1] = out[1]
    BY <1>7, <1>9
  <2> QED
    BY <2>1, <2>2, <2>3
<1>13. ASSUME NEW i \in DOMAIN us
       PROVE  /\ us[i].before = refs[us[i].id]
              /\ us[i].after = Active \/ (us[i].id \in O /\ us[i].after = us[i].id)
  <2>1. CASE Len(out) = 1 /\ us[i] = out[1]
    BY <1>3, <1>11, <2>1
  <2>2. CASE Len(mv) = 1 /\ us[i] = mv[1]
    BY <2>2
  <2> QED
    BY <1>9, <2>1, <2>2
<1>14. ASSUME NEW a \in Managed \ O, refs[a] = Active
       PROVE  /\ \E i \in DOMAIN us : us[i].id = a /\ us[i].before = Active
              /\ After(t, GrantAt) = Before(t, GrantAt) /\ After(t, ProfileAt) = Before(t, ProfileAt)
  <2>1. /\ Len(mv) = 1 /\ mv[1].id = a /\ mv[1].before = Active
        /\ After(t, GrantAt) = Before(t, GrantAt) /\ After(t, ProfileAt) = Before(t, ProfileAt)
    BY <1>2, <1>14
  <2> QED
    BY <1>9, <2>1
<1>15. Archiving(t, O)
  <2>1. Covers(t) = {Grant(a) : a \in O} \cup {Profile(a) : a \in O} \cup {GrantAt, ProfileAt, Config, Binding}
    BY <1>4
  <2>2. \A a \in Managed \ O : refs[a] = Active =>
          /\ Leaves(t, a)
          /\ After(t, GrantAt) = Before(t, GrantAt) /\ After(t, ProfileAt) = Before(t, ProfileAt)
    BY <1>10, <1>14 DEF Leaves
  <2> QED
    BY <1>3, <1>5, <1>10, <1>12, <1>13, <2>1, <2>2 DEF Archiving
<1> QED
  BY <1>2, <1>15

LEMMA PrepareKeepsGrants ==
  ASSUME SwitchInv, SwitchInv', GrantInv, ChoiceStays, Prepare
  PROVE  GrantInv'
<1>1. /\ TypeOK /\ DiskSound /\ WorkSound /\ GrantDisk
      /\ Managed \subseteq Accounts /\ Managed \subseteq Homes /\ Active \in Homes /\ Active \notin Managed
      /\ Original \notin Managed /\ latest \in [Accounts -> Nat]
  BY StoreKinds DEF SwitchInv, GrantInv
<1>2. /\ stage = "prepare" /\ Pending = {} /\ goal \in Managed \cup {Gateway} /\ stage' = "save"
      /\ MayArchive(goal) /\ (goal # Gateway => Identity(refs[goal]) = goal)
      /\ UNCHANGED disk /\ UNCHANGED world /\ keeps' = keeps /\ Gateway \notin Managed /\ Home = refs
  BY <1>1, NonePending, SwitchConstants DEF Prepare, WorkSound, Early, TypeOK, Start, Accounts
<1>3. PICK h \in Homes : h = IF goal = Gateway THEN Active ELSE refs[goal]
  BY <1>1, <1>2 DEF TypeOK
<1>4. goal # Gateway => /\ goal \in Managed /\ store[Profile(h)] # Absent
                        /\ Whose(store[Profile(h)]) = goal
  <2>1. SUFFICES ASSUME goal # Gateway
                 PROVE  goal \in Managed /\ store[Profile(h)] # Absent /\ Whose(store[Profile(h)]) = goal
    OBVIOUS
  <2>2. goal \in Managed /\ goal \in Accounts /\ Identity(h) = goal
    BY <1>1, <1>2, <1>3, <2>1
  <2>3. store[Profile(h)] \in Profiles /\ store[Profile(h)].acct = goal
    BY <1>1, <2>2, IdentityFacts
  <2> QED
    BY <2>2, <2>3, WhoseFacts
<1>5. Paired(h) /\ Dated(store[Grant(h)]) /\ \A d \in Homes : Signed(store[Profile(d)])
  BY <1>1, <1>2 DEF GrantDisk, HomesSound, Placed, Fresh, Homes
<1>6. /\ Copied(h, GrantAt) = store[Grant(h)]
      /\ Whose(Copied(h, ProfileAt)) = Whose(store[Profile(h)])
      /\ (h = Active => Copied(h, ProfileAt) = store[ProfileAt])
      /\ Signed(Copied(h, ProfileAt))
  <2>1. store[Profile(h)] # Absent \/ Active = h
    BY <1>3, <1>4
  <2> QED
    BY <1>1, <1>5, <2>1, CopiedFacts DEF GrantAt, ProfileAt
<1>7. PICK config : config = Plan(IF goal = Gateway THEN "gateway" ELSE "official")
  OBVIOUS
<1>8. PICK native : native = Incoming(goal)
  OBVIOUS
<1>9. /\ DOMAIN native = {GrantAt, ProfileAt}
      /\ native[GrantAt] = Copied(h, GrantAt) /\ native[ProfileAt] = Copied(h, ProfileAt)
  <2>1. native = [r \in {GrantAt, ProfileAt} |-> Copied(h, r)]
    BY <1>3, <1>8 DEF Incoming, GrantAt, ProfileAt
  <2> QED
    BY <2>1
<1>10. PICK binding : binding = [op |-> FreeOp, who |-> goal, config |-> config,
                      native |-> IF goal = Gateway THEN <<native[GrantAt], native[ProfileAt]>> ELSE Absent]
  OBVIOUS
<1>11. PICK cb : cb = [r \in {Config, Binding} |-> IF r = Config THEN config ELSE binding]
  OBVIOUS
<1>12. DOMAIN cb = {Config, Binding} /\ cb[Config] = config /\ cb[Binding] = binding
  BY <1>11, ResourceFacts
<1>13. PICK ar : ar = Archived(goal)
  OBVIOUS
<1>14. PICK post : post = Merge(Merge(ar, native), cb)
  OBVIOUS
<1>15. /\ DOMAIN post = DOMAIN ar \cup DOMAIN native \cup DOMAIN cb
       /\ \A r \in DOMAIN cb : post[r] = cb[r]
       /\ \A r \in DOMAIN native : r \notin DOMAIN cb => post[r] = native[r]
       /\ \A r \in DOMAIN ar : r \notin DOMAIN cb \cup DOMAIN native => post[r] = ar[r]
  <2>1. PICK m : m = Merge(ar, native)
    OBVIOUS
  <2>2. /\ DOMAIN m = DOMAIN ar \cup DOMAIN native
        /\ \A r \in DOMAIN native : m[r] = native[r]
        /\ \A r \in DOMAIN ar : r \notin DOMAIN native => m[r] = ar[r]
    BY <2>1 DEF Merge
  <2>3. /\ DOMAIN post = DOMAIN m \cup DOMAIN cb
        /\ \A r \in DOMAIN cb : post[r] = cb[r]
        /\ \A r \in DOMAIN m : r \notin DOMAIN cb => post[r] = m[r]
    BY <1>14, <2>1 DEF Merge
  <2> QED
    BY <2>2, <2>3
<1>16. PICK us : us = MoveOut(goal) \o MoveIn(goal)
  OBVIOUS
<1>17. Start(post, us)
  BY <1>7, <1>8, <1>10, <1>11, <1>13, <1>14, <1>16 DEF Prepare, GrantAt, ProfileAt
<1>18. PICK t : /\ tx' = t /\ Typed(t) /\ TxSound(t) /\ t.refs = us /\ Covers(t) = DOMAIN post
                /\ \A r \in DOMAIN post : Before(t, r) = store[r] /\ After(t, r) = post[r]
  BY <1>17, StartShape
<1>19. /\ Covers(t) = DOMAIN ar \cup {GrantAt, ProfileAt, Config, Binding}
       /\ {GrantAt, ProfileAt, Config, Binding} \subseteq DOMAIN post
       /\ \A r \in DOMAIN ar : r \notin {GrantAt, ProfileAt, Config, Binding} => After(t, r) = ar[r]
  BY <1>9, <1>12, <1>15, <1>18
<1>20. /\ After(t, GrantAt) = Copied(h, GrantAt) /\ After(t, ProfileAt) = Copied(h, ProfileAt)
       /\ After(t, Config) = config /\ After(t, Binding) = binding
       /\ Before(t, GrantAt) = store[GrantAt] /\ Before(t, ProfileAt) = store[ProfileAt]
  <2>1. GrantAt \notin {Config, Binding} /\ ProfileAt \notin {Config, Binding}
    BY <1>1, ResourceFacts DEF GrantAt, ProfileAt
  <2> QED
    BY <1>9, <1>12, <1>15, <1>18, <1>19, <2>1
<1>21. binding # Absent /\ binding.who = goal /\ Aim(t) = goal
  <2>1. binding \in Bindings \cup {Absent}
    BY <1>18, <1>20, ImageKinds
  <2>2. binding.who = goal
    BY <1>10
  <2>3. goal # Absent
    BY <1>1, <1>2 DEF WorkSound
  <2>4. After(t, Binding) # Absent
    <3>1. FreeOp \in Ops
      BY DEF Prepare, HasFreeOp, FreeOp
    <3>2. config \in Configs
      BY <1>18, <1>20, ImageKinds
    <3>3. native[GrantAt] \in Grants \cup {Absent} /\ native[ProfileAt] \in Profiles \cup {Absent}
      BY <1>9, <1>18, <1>20, ImageKinds
    <3>4. binding \in Bindings
      BY <1>2, <1>10, <3>1, <3>2, <3>3 DEF Bindings
    <3> QED
      BY <1>20, <3>4, NothingIsSomething
  <2> QED
    BY <1>20, <2>2, <2>4 DEF Aim
<1>22. PICK inn : inn = MoveIn(goal)
  OBVIOUS
<1>23. /\ inn \in Seq(RefUpdate) /\ Len(inn) <= 1
       /\ goal # Gateway => Len(inn) = 1
       /\ Len(inn) = 1 => inn[1].id = goal /\ inn[1].before = refs[inn[1].id] /\ inn[1].after = Active
  <2>1. CASE goal = Gateway
    <3>1. inn = <<>>
      BY <1>22, <2>1 DEF MoveIn
    <3> QED
      BY <2>1, <3>1
  <2>2. CASE goal # Gateway
    <3>1. inn = <<[id |-> goal, before |-> refs[goal], after |-> Active]>>
      BY <1>22, <2>2 DEF MoveIn
    <3>2. goal \in Managed /\ refs[goal] \in Homes
      BY <1>1, <1>2, <2>2 DEF TypeOK
    <3>3. [id |-> goal, before |-> refs[goal], after |-> Active] \in RefUpdate
      BY <1>1, <3>2 DEF RefUpdate
    <3> QED
      BY <3>1, <3>3
  <2> QED
    BY <2>1, <2>2
<1>24. PICK O : O = Outgoing(goal)
  OBVIOUS
<1>25. Archiving(t, O)
  <2>1. ASSUME NEW a \in Managed \ O, refs[a] = Active
        PROVE  /\ Len(inn) = 1 /\ inn[1].id = a
               /\ After(t, GrantAt) = Before(t, GrantAt) /\ After(t, ProfileAt) = Before(t, ProfileAt)
    <3>1. a = goal /\ goal # Gateway
      BY <1>2, <1>24, <2>1 DEF Outgoing
    <3>2. h = Active
      BY <1>3, <2>1, <3>1
    <3> QED
      BY <1>6, <1>20, <1>23, <3>1, <3>2 DEF GrantAt, ProfileAt
  <2>2. t.refs = MoveOut(goal) \o inn
    BY <1>16, <1>18, <1>22
  <2>3. \A r \in Covers(t) : Before(t, r) = store[r]
    BY <1>18
  <2> QED
    BY <1>2, <1>13, <1>18, <1>19, <1>23, <1>24, <2>1, <2>2, <2>3, ArchivingShape
<1>26. Whose(store[Grant(h)]) = Whose(store[Profile(h)])
  BY <1>5 DEF Paired
<1>27. Entering(t)
  <2>1. ASSUME NEW a \in Managed, Whose(After(t, GrantAt)) = a, goal # Gateway
        PROVE  Arrives(t, a)
    <3>1. a = goal /\ Len(inn) = 1
      BY <1>4, <1>6, <1>20, <1>23, <1>26, <2>1
    <3>2. MoveOut(goal) \in Seq(RefUpdate) /\ Len(MoveOut(goal)) <= 1
      BY <1>1, MoveOutFacts
    <3>3. \E i \in DOMAIN us : us[i] = inn[1]
      BY <1>16, <1>22, <1>23, <3>1, <3>2, JoinedFacts
    <3> QED
      BY <1>18, <1>23, <3>1, <3>3 DEF Arrives
  <2>2. goal = Gateway => ByGateway(After(t, Binding))
    BY <1>20, <1>21 DEF ByGateway
  <2>3. ByGateway(After(t, Binding)) =>
          /\ After(t, Config).mode = "gateway"
          /\ After(t, Binding).native = <<After(t, GrantAt), After(t, ProfileAt)>>
    <3>1. SUFFICES ASSUME goal = Gateway
                   PROVE  config.mode = "gateway" /\ binding.native = <<native[GrantAt], native[ProfileAt]>>
      BY <1>9, <1>20, <1>21 DEF ByGateway
    <3>2. store[Config] \in Configs
      BY <1>1, StoreKinds
    <3>3. config.mode = "gateway"
      BY <1>7, <3>1, <3>2 DEF Plan, Configs
    <3> QED
      BY <1>10, <3>1, <3>3
  <2>4. Dated(After(t, GrantAt)) /\ Signed(After(t, ProfileAt))
    BY <1>5, <1>6, <1>20
  <2> QED
    BY <1>6, <1>20, <1>26, <2>1, <2>2, <2>3, <2>4 DEF Entering
<1>28. Calm
  BY <1>2 DEF GrantInv, GrantWork, Ready, Calm
<1>29. After(t, GrantAt) = Live(Original) => Before(t, GrantAt) = After(t, GrantAt)
  <2>1. SUFFICES ASSUME After(t, GrantAt) = Live(Original), goal # Gateway PROVE FALSE
    BY <1>3, <1>6, <1>20 DEF GrantAt
  <2>2. Whose(Live(Original)) = Original
    BY <1>1, LiveFacts DEF Accounts
  <2>3. Whose(After(t, GrantAt)) = goal /\ goal \in Managed
    BY <1>4, <1>6, <1>20, <1>26, <2>1
  <2> QED
    BY <1>1, <2>1, <2>2, <2>3
<1>30. ASSUME NEW a \in Managed \ forfeited, Home[a] # Active, Aim(t) = a
       PROVE  After(t, GrantAt) = store[Grant(a)]
  <2>1. a = goal /\ goal # Gateway
    BY <1>2, <1>21, <1>30
  <2>2. refs[a] = a
    BY <1>1, <1>2, <1>30, Occupied
  <2>3. h = a
    BY <1>3, <2>1, <2>2
  <2> QED
    BY <1>6, <1>20, <2>3
<1>31. ~keeps'
  BY <1>2 DEF GrantInv, GrantWork, StampSound
<1>32. stage # "save"
  BY <1>2
<1> QED
  BY <1>2, <1>18, <1>25, <1>27, <1>28, <1>29, <1>30, <1>31, <1>32, PreparedKeepsGrants

\* The account whose grant a first switch replaced, if the vault knows it, is
\* the one that the rollback moves back.
LEMMA MovedBack ==
  ASSUME TypeOK, DiskSound, WorkSound, Pending = {}, RollbackSound, ImageSound(tx),
         NEW a \in Managed, Whose(Before(tx, GrantAt)) = a
  PROVE  /\ Len(MoveBack(tx)) = 1
         /\ MoveBack(tx)[1] = [id |-> a, before |-> Active, after |-> Active]
<1>1. PICK t : t = tx
  OBVIOUS
<1>2. /\ Typed(t) /\ TxSound(t) /\ After(t, Binding) = store[Binding] /\ store[Binding] # Absent
      /\ Before(t, Binding) = Absent /\ ImageSound(t) /\ Whose(Before(t, GrantAt)) = a
      /\ \A i \in DOMAIN t.refs : t.refs[i].before = Active => t.refs[i].after = Active
  BY <1>1, RollbackFacts DEF RollbackSound, Bound
<1>3. Leaves(t, a)
  BY <1>2 DEF ImageSound, GatewaySound, ByGateway
<1>4. PICK i \in DOMAIN t.refs : t.refs[i].id = a /\ t.refs[i].before = Active /\ t.refs[i].after = Active
  BY <1>2, <1>3 DEF Leaves
<1>5. a = Who
  BY <1>2, <1>4 DEF TxSound, Who
<1>6. Len(MoveBack(t)) # 0
  <2>1. PICK moved : moved = {t.refs[j].id : j \in {j \in DOMAIN t.refs : t.refs[j].before = Active}}
    OBVIOUS
  <2>2. moved # {}
    BY <1>4, <2>1
  <2>3. PICK b : b = CHOOSE x \in moved : TRUE
    OBVIOUS
  <2>4. MoveBack(t) = <<[id |-> b, before |-> refs[b], after |-> Active]>>
    BY <2>1, <2>2, <2>3 DEF MoveBack
  <2> QED
    BY <2>4
<1>7. /\ Len(MoveBack(tx)) = 1 /\ MoveBack(tx)[1] = [id |-> Who, before |-> Active, after |-> Active]
  BY <1>1, <1>6, MoveBackFacts
<1> QED
  BY <1>5, <1>7

LEMMA PrepareRollbackKeepsGrants ==
  ASSUME SwitchInv, SwitchInv', GrantInv, ChoiceStays, PrepareRollback
  PROVE  GrantInv'
<1>1. /\ TypeOK /\ DiskSound /\ WorkSound /\ GrantDisk
      /\ Managed \subseteq Accounts /\ Managed \subseteq Homes /\ Active \in Homes /\ Active \notin Managed
      /\ Original \notin Managed /\ latest \in [Accounts -> Nat]
  BY StoreKinds DEF SwitchInv, GrantInv
<1>2. /\ stage = "restore" /\ Pending = {} /\ RollbackSound /\ stage' = "save"
      /\ MayArchive(Gateway) /\ Intact /\ UNCHANGED disk /\ UNCHANGED world /\ stamp' = stamp
      /\ Gateway \notin Managed /\ Absent \notin Managed /\ Home = refs
  BY <1>1, NonePending, SwitchConstants DEF PrepareRollback, WorkSound, Early, Start, Accounts
<1>3. PICK t0 : t0 = tx
  OBVIOUS
<1>4. /\ t0 # NoTx /\ Typed(t0) /\ TxSound(t0) /\ t0.op \in Ops
      /\ t0 = txs[t0.op] /\ t0.committed /\ Before(t0, Binding) = Absent
  <2>1. /\ tx # NoTx /\ Typed(tx) /\ TxSound(tx) /\ tx.op \in Ops /\ store[Binding] # Absent
        /\ tx = txs[store[Binding].op] /\ tx.op = store[Binding].op /\ Before(tx, Binding) = Absent
    BY <1>1, <1>2, RollbackFacts DEF RollbackSound, Bound
  <2>2. Rooted(store[Binding])
    BY <1>1, <1>2, NonePending DEF DiskSound, ChoiceSound
  <2> QED
    BY <1>3, <2>1, <2>2 DEF Rooted
<1>5. t0 \in Files
  BY <1>4 DEF Files
<1>6. ImageSound(t0) /\ FreshImages(t0)
  BY <1>1, <1>5 DEF GrantDisk, ImagesSound, Fresh
<1>7. /\ Whose(Before(t0, GrantAt)) = Whose(Before(t0, ProfileAt))
      /\ Dated(Before(t0, GrantAt)) /\ Signed(Before(t0, ProfileAt))
  <2>1. Grant(Active) \in Covers(t0)
    BY <1>4 DEF TxSound
  <2> QED
    BY <1>1, <1>6, <2>1 DEF ImageSound, StoresSound, FreshImages, GrantAt, ProfileAt
<1>8. stamp # Absent =>
        /\ Whose(stamp) = Original /\ Dated(stamp) /\ Whose(Before(t0, GrantAt)) = Original
        /\ \/ stamp = Before(t0, GrantAt) \/ Original \in forfeited \/ stamp # Live(Original)
  BY <1>2, <1>3 DEF GrantInv, GrantWork, StampSound
<1>9. PICK old : old = [r \in NativeParts \cup {Config, Binding} |->
                          IF r = Grant(Active) /\ stamp # Absent THEN stamp
                          ELSE tx.changes[r].before]
  OBVIOUS
<1>10. /\ DOMAIN old = {GrantAt, ProfileAt, Config, Binding}
       /\ old[Binding] = Absent /\ old[ProfileAt] = Before(t0, ProfileAt)
       /\ old[GrantAt] = IF stamp # Absent THEN stamp ELSE Before(t0, GrantAt)
  <2>1. DOMAIN old = {Grant(Active), Profile(Active), Config, Binding}
    BY <1>9 DEF NativeParts
  <2>2. \A r \in DOMAIN old : \/ r = Grant(Active) /\ stamp # Absent /\ old[r] = stamp
                              \/ (r # Grant(Active) \/ stamp = Absent) /\ old[r] = Before(t0, r)
    BY <1>3, <1>9 DEF NativeParts, Before
  <2>3. Binding # Grant(Active) /\ Profile(Active) # Grant(Active)
    BY ResourceFacts
  <2> QED
    BY <1>4, <2>1, <2>2, <2>3 DEF GrantAt, ProfileAt
<1>11. PICK ar : ar = Archived(Gateway)
  OBVIOUS
<1>12. PICK post : post = Merge(ar, old)
  OBVIOUS
<1>13. /\ DOMAIN post = DOMAIN ar \cup DOMAIN old
       /\ \A r \in DOMAIN old : post[r] = old[r]
       /\ \A r \in DOMAIN ar : r \notin DOMAIN old => post[r] = ar[r]
  BY <1>12 DEF Merge
<1>14. PICK back : back = MoveBack(tx)
  OBVIOUS
<1>15. PICK us : us = MoveOut(Gateway) \o back
  OBVIOUS
<1>16. Start(post, us)
  BY <1>9, <1>11, <1>12, <1>14, <1>15 DEF PrepareRollback
<1>17. PICK t : /\ tx' = t /\ Typed(t) /\ TxSound(t) /\ t.refs = us /\ Covers(t) = DOMAIN post
                /\ \A r \in DOMAIN post : Before(t, r) = store[r] /\ After(t, r) = post[r]
  BY <1>16, StartShape
<1>18. /\ Covers(t) = DOMAIN ar \cup {GrantAt, ProfileAt, Config, Binding}
       /\ \A r \in DOMAIN ar : r \notin {GrantAt, ProfileAt, Config, Binding} => After(t, r) = ar[r]
       /\ After(t, GrantAt) = IF stamp # Absent THEN stamp ELSE Before(t0, GrantAt)
       /\ After(t, ProfileAt) = Before(t0, ProfileAt) /\ After(t, Binding) = Absent
  BY <1>10, <1>13, <1>17
<1>19. /\ back \in Seq(RefUpdate) /\ Len(back) <= 1
       /\ Len(back) = 1 => back[1].before = refs[back[1].id] /\ back[1].after = Active
  <2>1. \/ Len(back) = 0
        \/ /\ Len(back) = 1 /\ refs[Who] = Active
           /\ back[1] = [id |-> Who, before |-> Active, after |-> Active]
    BY <1>1, <1>2, <1>14, MoveBackFacts
  <2>2. back \in Seq(RefUpdate)
    BY <1>1, <1>2, <1>14, MoveBackFacts
  <2>3. 0 <= 1 /\ 1 <= 1 /\ 0 # 1
    OBVIOUS
  <2>4. Len(back) <= 1
    BY <2>1, <2>3
  <2>5. Len(back) = 1 => back[1].before = refs[back[1].id] /\ back[1].after = Active
    <3>1. CASE Len(back) = 0
      BY <2>3, <3>1
    <3>2. CASE refs[Who] = Active /\ back[1] = [id |-> Who, before |-> Active, after |-> Active]
      BY <3>2
    <3> QED
      BY <2>1, <3>1, <3>2
  <2> QED
    BY <2>2, <2>4, <2>5
<1>20. PICK O : O = Outgoing(Gateway)
  OBVIOUS
<1>21. Archiving(t, O)
  <2>1. \A a \in Managed \ O : refs[a] # Active
    BY <1>2, <1>20 DEF Outgoing
  <2>2. t.refs = MoveOut(Gateway) \o back
    BY <1>15, <1>17
  <2>3. \A r \in Covers(t) : Before(t, r) = store[r]
    BY <1>17
  <2>4. \A a \in Managed \ Outgoing(Gateway) : refs[a] # Active
    BY <1>20, <2>1
  <2> QED
    BY <1>2, <1>11, <1>14, <1>17, <1>18, <1>19, <1>20, <2>1, <2>2, <2>3, <2>4, ArchivingShape
<1>22. Whose(After(t, GrantAt)) = Whose(Before(t0, GrantAt))
  BY <1>8, <1>18
<1>23. Entering(t)
  <2>1. ASSUME NEW a \in Managed, Whose(After(t, GrantAt)) = a
        PROVE  Arrives(t, a)
    <3>1. Len(back) = 1 /\ back[1] = [id |-> a, before |-> Active, after |-> Active]
      BY <1>1, <1>2, <1>3, <1>6, <1>14, <1>22, <2>1, MovedBack
    <3>2. MoveOut(Gateway) \in Seq(RefUpdate) /\ Len(MoveOut(Gateway)) <= 1
      BY <1>1, MoveOutFacts
    <3>3. \E i \in DOMAIN us : us[i] = back[1]
      BY <1>15, <1>19, <3>1, <3>2, JoinedFacts
    <3> QED
      BY <1>17, <3>1, <3>3 DEF Arrives
  <2>2. ~ByGateway(After(t, Binding))
    BY <1>18 DEF ByGateway
  <2>3. Dated(After(t, GrantAt)) /\ Signed(After(t, ProfileAt))
    BY <1>7, <1>8, <1>18
  <2>4. Whose(After(t, GrantAt)) = Whose(After(t, ProfileAt))
    BY <1>7, <1>18, <1>22
  <2> QED
    BY <2>1, <2>2, <2>3, <2>4 DEF Entering
<1>24. Calm
  <2>1. ~Mismatch
    BY <1>2 DEF Intact, Mismatch, ByGateway, Who
  <2>2. \A a \in Managed \ forfeited : refs[a] # Active => AtHome(a)
    BY <1>1, <1>2 DEF GrantDisk, Placed
  <2> QED
    BY <1>2, <2>1, <2>2 DEF Calm, AtHome
<1>25. ASSUME Original \notin forfeited, After(t, GrantAt) = Live(Original)
       PROVE  Recorded(Live(Original))
  <2>1. Before(t0, GrantAt) = Live(Original)
    BY <1>8, <1>18, <1>25
  <2> QED
    BY <1>4, <2>1 DEF Recorded
<1>26. \A a \in Managed : Aim(t) # a
  BY <1>2, <1>18 DEF Aim
<1>27. stamp' # Absent => stamp' = After(t, GrantAt) /\ Whose(stamp') = Original
  BY <1>2, <1>8, <1>18
<1>28. stage # "save"
  BY <1>2
<1> QED
  BY <1>2, <1>17, <1>21, <1>23, <1>24, <1>25, <1>26, <1>27, <1>28, PreparedKeepsGrants

-----------------------------------------------------------------------------
(* The switch commits *)

\* What is known when everything has been written.
LEMMA SwitchedFacts ==
  ASSUME SwitchInv, GrantInv, stage = "write", todo = {}, step = Len(tx.refs), NEW t, t = tx
  PROVE  /\ t # NoTx /\ Typed(t) /\ TxSound(t) /\ ImageSound(t) /\ FreshImages(t) /\ t \in Open
         /\ t.op \in Ops /\ txs[t.op] = t /\ Pending = {t.op} /\ Saving = {}
         /\ store[Binding] = After(t, Binding) /\ store[Config].mode = After(t, Config).mode
         /\ \A a \in Managed : Archives(t, a) =>
              store[Grant(a)] = After(t, Grant(a)) /\ store[Profile(a)] = After(t, Profile(a))
         /\ \/ Whose(store[GrantAt]) = Original /\ Whose(store[ProfileAt]) = Original
            \/ store[ProfileAt] = After(t, ProfileAt) /\ Whose(store[GrantAt]) = Whose(After(t, GrantAt))
         /\ store[GrantAt] = After(t, GrantAt) \/ (store[GrantAt] # Absent /\ Valid(store[GrantAt]))
         /\ \A a \in Managed \ forfeited :
              ~Archives(t, a) /\ Home[a] # Active /\ Aim(t) = a => After(t, GrantAt) = store[Grant(a)]
         /\ \A i \in DOMAIN t.refs : refs[t.refs[i].id] = t.refs[i].after
         /\ keeps /\ stamp # Absent => stamp = After(t, GrantAt) /\ Whose(stamp) = Original
<1>1. stage \in Applying \cup Undoing /\ stage \in Forward
  BY DEF Applying, Forward
<1>2. /\ t # NoTx /\ Typed(t) /\ TxSound(t) /\ ImageSound(t) /\ FreshImages(t) /\ t \in Open
      /\ t.op \in Ops /\ txs[t.op] = t /\ Pending = {t.op} /\ Saving = {}
  BY <1>1, WorkImages
<1>3. \A r : Made(r) = After(t, r)
  BY DEF Made
<1>4. /\ \A a \in Managed : \A r \in {Grant(a), Profile(a)} : r \in Covers(t) => store[r] = Made(r)
      /\ \/ LoggedIn
         \/ store[ProfileAt] = Made(ProfileAt) /\ Whose(store[GrantAt]) = Whose(Made(GrantAt))
      /\ store[GrantAt] = Made(GrantAt) \/ (store[GrantAt] # Absent /\ Valid(store[GrantAt]))
      /\ store[Config].mode = Made(Config).mode
      /\ \A a \in Managed \ forfeited :
           ~Archives(t, a) /\ Home[a] # Active /\ Aim(t) = a => After(t, GrantAt) = store[Grant(a)]
  BY <1>1 DEF GrantInv, GrantWork, ForwardSound
<1>5. ASSUME NEW a \in Managed, Archives(t, a)
      PROVE  store[Grant(a)] = After(t, Grant(a)) /\ store[Profile(a)] = After(t, Profile(a))
  <2>1. Grant(a) \in Covers(t) /\ Profile(a) \in Covers(t)
    BY <1>2, <1>5, StoreKinds DEF SwitchInv, Archives, ImageSound, StoresSound
  <2> QED
    BY <1>3, <1>4, <2>1
<1>6. \/ Whose(store[GrantAt]) = Original /\ Whose(store[ProfileAt]) = Original
      \/ store[ProfileAt] = After(t, ProfileAt) /\ Whose(store[GrantAt]) = Whose(After(t, GrantAt))
  BY <1>3, <1>4 DEF LoggedIn
<1>7. store[Binding] = After(t, Binding)
  BY DEF SwitchInv, WorkSound, Progress
<1>8. \A i \in DOMAIN t.refs : refs[t.refs[i].id] = t.refs[i].after
  <2>1. \A i \in 1 .. step : refs[tx.refs[i].id] = tx.refs[i].after
    BY DEF SwitchInv, WorkSound, Progress
  <2>2. DOMAIN t.refs = 1 .. step
    BY <1>2, TypedFacts
  <2> QED
    BY <2>1, <2>2
<1>9. keeps /\ stamp # Absent => stamp = After(t, GrantAt) /\ Whose(stamp) = Original
  BY <1>1 DEF GrantInv, GrantWork, StampSound
<1>10. store[Config].mode = After(t, Config).mode
  BY <1>3, <1>4
<1>11. store[GrantAt] = After(t, GrantAt) \/ (store[GrantAt] # Absent /\ Valid(store[GrantAt]))
  BY <1>3, <1>4
<1> QED
  BY <1>2, <1>4, <1>5, <1>6, <1>7, <1>8, <1>9, <1>10, <1>11

\* An account's grant that the tool renewed behind a gateway shows.
LEMMA RenewedCopyShows ==
  ASSUME SwitchInv, GrantInv, stage = "write", todo = {}, step = Len(tx.refs), NEW t, t = tx,
         NEW a \in Managed, store[GrantAt] = Live(a), After(t, GrantAt) # Live(a), refs[a] # Active
  PROVE  Mismatch
<1>1. Whose(Live(a)) = a /\ a # Original
  BY StoreKinds, LiveFacts DEF SwitchInv
<1>2. /\ Whose(store[GrantAt]) = Original \/ Whose(store[GrantAt]) = Whose(After(t, GrantAt))
      /\ ImageSound(t) /\ store[Binding] = After(t, Binding)
      /\ \A i \in DOMAIN t.refs : refs[t.refs[i].id] = t.refs[i].after
  BY SwitchedFacts
<1>3. Whose(After(t, GrantAt)) = a
  BY <1>1, <1>2
<1>4. ~Arrives(t, a)
  BY <1>2 DEF Arrives
<1>5. ByGateway(After(t, Binding)) /\ After(t, Binding).native = <<After(t, GrantAt), After(t, ProfileAt)>>
  BY <1>2, <1>3, <1>4 DEF ImageSound, GatewaySound
<1>6. store[Binding].native # Native
  BY <1>2, <1>5 DEF Native, GrantAt
<1> QED
  BY <1>2, <1>5, <1>6 DEF Mismatch

\* Every account is where the references of the committed switch say.
LEMMA SwitchedPlace ==
  ASSUME SwitchInv, GrantInv, stage = "write", todo = {}, step = Len(tx.refs), NEW t, t = tx,
         refs = HomesFor(Aim(t)), NEW a \in Managed \ forfeited
  PROVE  IF refs[a] = Active THEN AtActive(a) ELSE AtHome(a)
<1>1. /\ TypeOK /\ Typed(t) /\ TxSound(t) /\ ImageSound(t) /\ FreshImages(t) /\ t \in Open
      /\ \A i \in DOMAIN t.refs : refs[t.refs[i].id] = t.refs[i].after
  BY SwitchedFacts DEF SwitchInv
<1>2. /\ latest \in [Accounts -> Nat] /\ a \in Accounts /\ a # Active /\ a # Original
      /\ store[GrantAt] \in Grants \cup {Absent}
  BY <1>1, StoreKinds
<1>3. Whose(Live(a)) = a
  BY <1>2, LiveFacts
<1>4. Live(a) \in {store[GrantAt], store[Grant(a)]} /\ HomesSound /\ Fresh
  BY DEF GrantInv, GrantDisk, Kept
<1>5. refs[a] # Active /\ store[GrantAt] = Live(a) /\ After(t, GrantAt) # Live(a) => AtHome(a)
  BY RenewedCopyShows DEF AtHome
<1>6. /\ Archives(t, a) => OutgoingSound(t, a)
      /\ ~Archives(t, a) => IF Home[a] = Active THEN InPlaceSound(t, a) ELSE HomeSound(t, a)
  BY <1>1 DEF GrantInv, GrantDisk, OpenSound
<1>7. CASE Archives(t, a)
  <2>1. /\ store[Grant(a)] = After(t, Grant(a)) /\ After(t, Grant(a)) = Before(t, GrantAt)
        /\ refs[a] = a
    <3>1. store[Grant(a)] = After(t, Grant(a))
      BY <1>7, SwitchedFacts
    <3>2. /\ After(t, Grant(a)) = Before(t, GrantAt)
          /\ \E i \in DOMAIN t.refs : t.refs[i].id = a /\ t.refs[i].before = Active /\ t.refs[i].after = a
      BY <1>1, <1>7 DEF ImageSound, ArchiveSound
    <3> QED
      BY <1>1, <3>1, <3>2
  <2>2. CASE store[Grant(a)] = Live(a)
    BY <1>2, <2>1, <2>2 DEF AtHome
  <2>3. CASE store[Grant(a)] # Live(a)
    <3>1. store[GrantAt] = Live(a)
      BY <1>4, <2>3
    <3>2. After(t, GrantAt) # Live(a)
      BY <1>1, <1>6, <1>7, <2>1, <2>3, OutgoingImage
    <3> QED
      BY <1>2, <1>5, <2>1, <3>1, <3>2
  <2> QED
    BY <2>2, <2>3
<1>8. CASE ~Archives(t, a) /\ Home[a] = Active
  <2>1. AtActive(a)
    BY <1>6, <1>8 DEF InPlaceSound
  <2>2. Home[a] = Origin(t)[a] /\ RefsSound(t.refs)
    <3>1. stage \in Applying \cup Undoing
      BY DEF Applying
    <3> QED
      BY <1>1, <3>1, WorkImages DEF TxSound
  <2>3. refs[a] = Active
    <3>1. CASE \E i \in DOMAIN t.refs : t.refs[i].id = a
      <4>1. PICK i \in DOMAIN t.refs : t.refs[i].id = a
        BY <3>1
      <4>2. t.refs[i].before = Active
        BY <1>1, <1>8, <2>2, <4>1, OriginFacts
      <4>3. t.refs[i].after = Active
        BY <1>1, <1>8, <4>1, <4>2 DEF ImageSound, MovesSound
      <4> QED
        BY <1>1, <4>1, <4>3
    <3>2. CASE \A i \in DOMAIN t.refs : t.refs[i].id # a
      BY <1>1, <1>8, <2>2, <3>2, OriginFacts
    <3> QED
      BY <3>1, <3>2
  <2> QED
    BY <2>1, <2>3
<1>9. CASE ~Archives(t, a) /\ Home[a] # Active
  <2>1. HomeSound(t, a)
    BY <1>6, <1>9
  <2>2. CASE refs[a] = Active
    <3>1. Aim(t) = a
      BY <1>2, <2>2 DEF HomesFor
    <3>2. After(t, GrantAt) = store[Grant(a)]
      BY <1>9, <3>1, SwitchedFacts
    <3>3. CASE store[GrantAt] = Live(a)
      BY <2>2, <3>3 DEF AtActive
    <3>4. CASE store[GrantAt] # Live(a)
      <4>1. store[Grant(a)] = Live(a) /\ After(t, GrantAt) = Live(a)
        BY <1>4, <3>2, <3>4
      <4>2. store[GrantAt] # Absent /\ Valid(store[GrantAt])
        BY <3>4, <4>1, SwitchedFacts
      <4>3. Whose(store[GrantAt]) # a
        BY <1>2, <3>4, <4>2, WhoseFacts DEF Valid
      <4>4. Whose(store[GrantAt]) = Original
        BY <1>3, <4>1, <4>3, SwitchedFacts
      <4> QED
        BY <2>2, <4>1, <4>4 DEF AtActive
    <3> QED
      BY <3>3, <3>4
  <2>3. CASE refs[a] # Active
    <3>1. CASE store[Grant(a)] = Live(a)
      BY <2>3, <3>1 DEF AtHome
    <3>2. CASE store[Grant(a)] # Live(a)
      <4>1. store[GrantAt] = Live(a)
        BY <1>4, <3>2
      <4>2. After(t, GrantAt) # Live(a)
        BY <1>1, <1>4, <2>1, <3>2, HomeImage
      <4> QED
        BY <1>5, <2>3, <4>1, <4>2
    <3> QED
      BY <3>1, <3>2
  <2> QED
    BY <2>2, <2>3
<1> QED
  BY <1>7, <1>8, <1>9

LEMMA CommitKeepsGrants ==
  ASSUME SwitchInv, GrantInv, Commit
  PROVE  GrantInv'
<1>1. PICK t : t = tx
  OBVIOUS
<1>2. /\ TypeOK /\ DiskSound /\ WorkSound /\ GrantDisk
      /\ Managed \subseteq Accounts /\ Managed \subseteq Homes /\ Active \in Homes /\ Active \notin Managed
      /\ Original \in Accounts /\ Original \notin Managed /\ latest \in [Accounts -> Nat]
  BY StoreKinds DEF SwitchInv, GrantInv
<1>3. /\ stage = "write" /\ todo = {} /\ step = Len(tx.refs)
      /\ txs' = [txs EXCEPT ![t.op] = Committed(t)]
      /\ store' = store /\ refs' = refs /\ latest' = latest
      /\ stage' = "idle" /\ keeps' = FALSE
      /\ forfeited' = IF keeps THEN forfeited \ {a \in Accounts : stamp = Live(a)} ELSE forfeited
  BY <1>1 DEF Commit, Return
<1>4. /\ Pending' = {} /\ OldBinding' = After(t, Binding) /\ Home' = HomesFor(Aim(t))
  BY <1>1, CommitStep
<1>5. /\ t # NoTx /\ Typed(t) /\ TxSound(t) /\ ImageSound(t) /\ FreshImages(t) /\ t \in Open
      /\ t.op \in Ops /\ txs[t.op] = t /\ Pending = {t.op} /\ Saving = {}
      /\ store[Binding] = After(t, Binding) /\ store[Config].mode = After(t, Config).mode
      /\ \A a \in Managed : Archives(t, a) =>
           store[Grant(a)] = After(t, Grant(a)) /\ store[Profile(a)] = After(t, Profile(a))
      /\ \/ Whose(store[GrantAt]) = Original /\ Whose(store[ProfileAt]) = Original
         \/ store[ProfileAt] = After(t, ProfileAt) /\ Whose(store[GrantAt]) = Whose(After(t, GrantAt))
      /\ \A i \in DOMAIN t.refs : refs[t.refs[i].id] = t.refs[i].after
      /\ keeps /\ stamp # Absent => stamp = After(t, GrantAt) /\ Whose(stamp) = Original
  BY <1>1, <1>3, SwitchedFacts
<1>6. PICK u : u = Committed(t)
  OBVIOUS
<1>7. /\ Typed(u) /\ u.committed /\ u # NoTx /\ u.op = t.op /\ u.changes = t.changes /\ u.refs = t.refs
  BY <1>5, <1>6, CommittedFacts
<1>8. /\ txs'[t.op] = u /\ \A op \in Ops : op # t.op => txs'[op] = txs[op]
  BY <1>2, <1>3, <1>5, <1>6 DEF TypeOK
<1>9. Home' = refs /\ refs = HomesFor(Aim(t))
  BY <1>3, <1>4 DEF Home
<1>10. Saving' = {} /\ Open' = {}
  BY <1>3, <1>4 DEF Saving, Open
<1>11. \A v \in Files' : v = u \/ v \in Files
  BY <1>8, <1>10 DEF Files
<1>12. /\ \A a \in Managed : a \in forfeited' <=> a \in forfeited
       /\ Original \notin forfeited' /\ Original \in forfeited => After(t, GrantAt) = Live(Original)
  <2>1. ASSUME keeps, NEW a \in Accounts, stamp = Live(a)
        PROVE  a = Original /\ After(t, GrantAt) = Live(Original)
    <3>1. Live(a) # Absent /\ Whose(Live(a)) = a
      BY <1>2, LiveFacts
    <3> QED
      BY <1>5, <2>1, <3>1
  <2> QED
    BY <1>2, <1>3, <2>1
<1>13. HomesSame /\ Advances
  BY <1>2, <1>3, AdvanceZero DEF HomesSame
<1>14. /\ \A a : Live(a)' = Live(a)
       /\ \A a : (AtActive(a)' <=> AtActive(a)) /\ (AtHome(a)' <=> AtHome(a))
       /\ \A h : Paired(h)' <=> Paired(h)
  BY <1>3 DEF Live, AtActive, AtHome, Mismatch, Native, ByGateway, Paired, Whose
<1>15. ImageSound(u) /\ FreshImages(u) /\ TxSound(u)
  <2>1. t.changes = u.changes /\ t.refs = u.refs /\ t.op = u.op
    BY <1>7
  <2>2. ImageSound(u) /\ FreshImages(u)
    BY <1>5, <2>1, SameImages
  <2>3. TxSound(u)
    BY <1>5, <2>1, SameSound
  <2> QED
    BY <2>2, <2>3
<1>16. ASSUME NEW v \in Files'
       PROVE  ImageSound(v) /\ FreshImages(v) /\ Typed(v) /\ TxSound(v)
  <2>1. CASE v = u
    BY <1>7, <1>15, <2>1
  <2>2. CASE v \in Files
    BY <1>2, <2>2, FilesTyped DEF GrantDisk, ImagesSound, Fresh
  <2> QED
    BY <1>11, <2>1, <2>2
<1>17. ImagesSound'
  <2>1. ASSUME NEW v \in Files'
        PROVE  ImageSound(v)'
    BY <1>16, ImageStays
  <2> QED
    BY <2>1 DEF ImagesSound
<1>18. Fresh'
  <2>1. ASSUME NEW v \in Files'
        PROVE  FreshImages(v)'
    <3>1. StoresSound(v)
      BY <1>16 DEF ImageSound
    <3> QED
      BY <1>2, <1>13, <1>16, <3>1, FreshStays
  <2>2. (\A h \in Homes : Dated(store[Grant(h)]) /\ Signed(store[Profile(h)]))'
    BY <1>2, <1>13, FreshHomes DEF GrantDisk
  <2>3. (\A v \in Files : FreshImages(v))'
    BY <2>1
  <2> QED
    BY <2>2, <2>3 DEF Fresh
<1>19. ASSUME NEW a \in Managed
       PROVE  Paired(a) /\ Whose(store[Grant(a)]) \in {a, Absent}
  <2>1. CASE Archives(t, a)
    <3>1. store[Grant(a)] = After(t, Grant(a)) /\ store[Profile(a)] = After(t, Profile(a))
      BY <1>5, <2>1
    <3>2. Whose(After(t, Grant(a))) = Whose(After(t, Profile(a)))
      BY <1>2, <1>5, <2>1 DEF ImageSound, StoresSound, Archives
    <3> QED
      BY <1>2, <3>1, <3>2 DEF Paired, GrantDisk, HomesSound
  <2>2. CASE ~Archives(t, a)
    BY <1>2, <1>5, <2>2 DEF GrantDisk, HomesSound
  <2> QED
    BY <2>1, <2>2
<1>20. HomesSound'
  BY <1>3, <1>14, <1>19 DEF HomesSound, Whose
<1>21. Paired(Active)
  <2>1. Whose(After(t, GrantAt)) = Whose(After(t, ProfileAt))
    <3>1. Grant(Active) \in Covers(t)
      BY <1>5 DEF TxSound
    <3> QED
      BY <1>2, <1>5, <3>1 DEF ImageSound, StoresSound, GrantAt, ProfileAt
  <2> QED
    BY <1>5, <2>1 DEF Paired, GrantAt, ProfileAt
<1>22. ASSUME NEW a \in Managed, Whose(store[GrantAt]) = a
       PROVE  refs[a] = Active \/ ByGateway(store[Binding])
  <2>1. Whose(After(t, GrantAt)) = a
    BY <1>2, <1>5, <1>22
  <2>2. Arrives(t, a) \/ ByGateway(After(t, Binding))
    BY <1>5, <2>1 DEF ImageSound, GatewaySound
  <2> QED
    BY <1>5, <2>2 DEF Arrives
<1>23. ByGateway(store[Binding]) => store[Config].mode = "gateway"
  BY <1>5 DEF ImageSound, GatewaySound
<1>24. \A a \in Managed \ forfeited : IF refs[a] = Active THEN AtActive(a) ELSE AtHome(a)
  BY <1>1, <1>3, <1>9, SwitchedPlace
<1>25. Placed'
  <2>1. Paired(Active)'
    BY <1>14, <1>21
  <2>2. (\A a \in Managed : Whose(store[GrantAt]) = a => Home[a] = Active \/ ByGateway(store[Binding]))'
    BY <1>3, <1>9, <1>22 DEF Whose, ByGateway, GrantAt
  <2>3. (ByGateway(store[Binding]) => store[Config].mode = "gateway")'
    BY <1>3, <1>23 DEF ByGateway
  <2>4. (\A a \in Managed \ forfeited : IF Home[a] = Active THEN AtActive(a) ELSE AtHome(a))'
    BY <1>9, <1>12, <1>14, <1>24
  <2> QED
    BY <2>1, <2>2, <2>3, <2>4 DEF Placed
<1>26. Kept'
  BY <1>2, <1>3, <1>12, <1>14 DEF GrantDisk, Kept, GrantAt
<1>27. Unswitched'
  <2>1. After(t, Binding) = Absent => \A a \in Managed : refs[a] # Active
    <3>1. Absent \notin Managed /\ (After(t, Binding) = Absent => Aim(t) = Absent)
      BY SwitchConstants DEF Aim, Accounts
    <3> QED
      BY <1>2, <1>9, <3>1 DEF HomesFor
  <2> QED
    BY <1>4, <1>9, <2>1 DEF Unswitched
<1>28. OpenSound' /\ RefsKnown'
  BY <1>4, <1>10 DEF OpenSound, RefsKnown
<1>29. OriginalSound'
  <2>1. SUFFICES ASSUME Original \notin forfeited'
                 PROVE  (store[GrantAt] = Live(Original) \/ Recorded(Live(Original)))'
    BY <1>10 DEF OriginalSound
  <2>2. PICK g : g = Live(Original)
    OBVIOUS
  <2>3. Live(Original)' = g
    BY <1>14, <2>2
  <2>4. Recorded(g) \/ g \in {Before(t, GrantAt), After(t, GrantAt)} => Recorded(g)'
    <3>1. ASSUME g \in {Before(t, GrantAt), After(t, GrantAt)}
          PROVE  Recorded(g)'
      <4>1. g \in {Before(u, GrantAt), After(u, GrantAt)}
        BY <1>7, <3>1 DEF Before, After
      <4>2. txs'[t.op] # NoTx /\ txs'[t.op].committed
            /\ g \in {txs'[t.op].changes[GrantAt].before, txs'[t.op].changes[GrantAt].after}
        BY <1>7, <1>8, <4>1 DEF Before, After
      <4> QED
        BY <1>5, <4>2 DEF Recorded, Before, After, GrantAt
    <3>2. ASSUME Recorded(g)
          PROVE  Recorded(g)'
      <4>1. PICK op \in Ops : /\ txs[op] # NoTx /\ txs[op].committed
                              /\ g \in {txs[op].changes[GrantAt].before, txs[op].changes[GrantAt].after}
        BY <3>2 DEF Recorded, Before, After
      <4>2. op # t.op
        BY <1>5, <4>1 DEF Pending
      <4> QED
        BY <1>8, <4>1, <4>2 DEF Recorded, Before, After, GrantAt
    <3> QED
      BY <3>1, <3>2
  <2>5. store[GrantAt] = g \/ Recorded(g) \/ g \in {Before(t, GrantAt), After(t, GrantAt)}
    <3>1. CASE Original \in forfeited
      BY <1>12, <2>1, <2>2, <3>1
    <3>2. CASE Original \notin forfeited
      BY <1>2, <1>5, <2>2, <3>2 DEF GrantDisk, OriginalSound
    <3> QED
      BY <3>1, <3>2
  <2>6. store'[GrantAt] = g \/ Recorded(g)'
    BY <1>3, <2>4, <2>5
  <2> QED
    BY <2>3, <2>6 DEF Recorded, GrantAt
<1>30. GrantDisk'
  BY <1>17, <1>18, <1>20, <1>25, <1>26, <1>27, <1>28, <1>29 DEF GrantDisk
<1> QED
  BY <1>3, <1>30, WorkOver DEF GrantInv

-----------------------------------------------------------------------------
(* The switch has been taken back *)

\* What is known when everything has been restored.
LEMMA UndoneFacts ==
  ASSUME SwitchInv, GrantInv, stage = "unrefs", step = Len(tx.refs), NEW t, t = tx
  PROVE  /\ t # NoTx /\ Typed(t) /\ TxSound(t) /\ ImageSound(t) /\ FreshImages(t) /\ t \in Open
         /\ t.op \in Ops /\ txs[t.op] = t /\ Pending = {t.op} /\ Saving = {} /\ ~t.committed
         /\ OldBinding = Before(t, Binding) /\ Home = Origin(t)
         /\ store[Binding] = Before(t, Binding) /\ store[Config].mode = Before(t, Config).mode
         /\ \A a \in Managed : Archives(t, a) =>
              store[Grant(a)] = Before(t, Grant(a)) /\ store[Profile(a)] = Before(t, Profile(a))
         /\ \/ Whose(store[GrantAt]) = Original /\ Whose(store[ProfileAt]) = Original
            \/ store[ProfileAt] = Before(t, ProfileAt) /\ Whose(store[GrantAt]) = Whose(Before(t, GrantAt))
         /\ \A a \in Managed \ forfeited : Archives(t, a) => store[GrantAt] = Live(a)
         /\ Original \notin forfeited => store[GrantAt] = Live(Original) \/ Recorded(Live(Original))
         /\ \A i \in DOMAIN t.refs : refs[t.refs[i].id] = t.refs[i].before
<1>1. stage \in Applying \cup Undoing /\ stage \in Backward
  BY DEF Undoing, Backward
<1>2. /\ t # NoTx /\ Typed(t) /\ TxSound(t) /\ ImageSound(t) /\ FreshImages(t) /\ t \in Open
      /\ t.op \in Ops /\ txs[t.op] = t /\ Pending = {t.op} /\ Saving = {} /\ ~t.committed
      /\ OldBinding = Before(t, Binding) /\ Home = Origin(t)
  BY <1>1, WorkImages
<1>3. todo = {}
  BY DEF GrantInv, GrantWork, BackwardSound
<1>4. /\ \A a \in Managed : \A r \in {Grant(a), Profile(a)} : r \in Covers(t) => store[r] = Before(t, r)
      /\ \/ LoggedIn
         \/ store[ProfileAt] = Before(t, ProfileAt) /\ Whose(store[GrantAt]) = Whose(Before(t, GrantAt))
      /\ store[Config].mode = Before(t, Config).mode
      /\ \A a \in Managed \ forfeited : Archives(t, a) => store[GrantAt] = Live(a)
      /\ Original \notin forfeited => store[GrantAt] = Live(Original) \/ Recorded(Live(Original))
  BY <1>1, <1>3 DEF GrantInv, GrantWork, BackwardSound
<1>5. ASSUME NEW a \in Managed, Archives(t, a)
      PROVE  store[Grant(a)] = Before(t, Grant(a)) /\ store[Profile(a)] = Before(t, Profile(a))
  <2>1. Grant(a) \in Covers(t) /\ Profile(a) \in Covers(t)
    BY <1>2, <1>5, StoreKinds DEF SwitchInv, Archives, ImageSound, StoresSound
  <2> QED
    BY <1>4, <2>1
<1>6. \/ Whose(store[GrantAt]) = Original /\ Whose(store[ProfileAt]) = Original
      \/ store[ProfileAt] = Before(t, ProfileAt) /\ Whose(store[GrantAt]) = Whose(Before(t, GrantAt))
  BY <1>4 DEF LoggedIn
<1>7. store[Binding] = Before(t, Binding)
  BY DEF SwitchInv, WorkSound, Progress
<1>8. \A i \in DOMAIN t.refs : refs[t.refs[i].id] = t.refs[i].before
  <2>1. \A i \in 1 .. step : refs[tx.refs[i].id] = tx.refs[i].before
    BY DEF SwitchInv, WorkSound, Progress
  <2>2. DOMAIN t.refs = 1 .. step
    BY <1>2, TypedFacts
  <2> QED
    BY <2>1, <2>2
<1> QED
  BY <1>2, <1>4, <1>5, <1>6, <1>7, <1>8

\* Every account is where the references said before.
LEMMA UndonePlace ==
  ASSUME SwitchInv, GrantInv, stage = "unrefs", step = Len(tx.refs), NEW t, t = tx,
         NEW a \in Managed \ forfeited
  PROVE  IF Home[a] = Active THEN AtActive(a) ELSE AtHome(a)
<1>1. /\ TypeOK /\ Typed(t) /\ TxSound(t) /\ ImageSound(t) /\ t \in Open /\ Home = Origin(t)
      /\ store[Binding] = Before(t, Binding)
  BY UndoneFacts DEF SwitchInv
<1>2. /\ latest \in [Accounts -> Nat] /\ a \in Accounts /\ a # Active /\ a # Original
  BY <1>1, StoreKinds
<1>3. Whose(Live(a)) = a
  BY <1>2, LiveFacts
<1>4. Live(a) \in {store[GrantAt], store[Grant(a)]} /\ HomesSound /\ Fresh
  BY DEF GrantInv, GrantDisk, Kept
<1>5. /\ Archives(t, a) => store[GrantAt] = Live(a)
      /\ ~Archives(t, a) => IF Home[a] = Active THEN InPlaceSound(t, a) ELSE HomeSound(t, a)
  BY <1>1, UndoneFacts DEF GrantInv, GrantDisk, OpenSound
<1>6. Leaves(t, a) => Home[a] = Active
  <2>1. RefsSound(t.refs)
    BY <1>1 DEF TxSound
  <2> QED
    BY <1>1, <2>1, OriginFacts DEF Leaves
<1>7. CASE Archives(t, a)
  <2>1. Leaves(t, a)
    BY <1>1, <1>7 DEF ImageSound, ArchiveSound, Leaves
  <2> QED
    BY <1>5, <1>6, <1>7, <2>1 DEF AtActive
<1>8. CASE ~Archives(t, a) /\ Home[a] = Active
  BY <1>5, <1>8 DEF InPlaceSound
<1>9. CASE ~Archives(t, a) /\ Home[a] # Active
  <2>1. CASE store[Grant(a)] = Live(a)
    BY <1>9, <2>1 DEF AtHome
  <2>2. CASE store[Grant(a)] # Live(a)
    <3>1. store[GrantAt] = Live(a)
      BY <1>4, <2>2
    <3>2. Before(t, GrantAt) # Live(a)
      BY <1>1, <1>4, <1>5, <1>9, <2>2, HomeImage
    <3>3. Whose(Before(t, GrantAt)) = a
      BY <1>2, <1>3, <3>1, UndoneFacts
    <3>4. /\ ByGateway(Before(t, Binding))
          /\ Before(t, Binding).native = <<Before(t, GrantAt), Before(t, ProfileAt)>>
      BY <1>1, <1>6, <1>9, <3>3 DEF ImageSound, GatewaySound
    <3>5. Mismatch
      BY <1>1, <3>1, <3>2, <3>4 DEF Mismatch, Native, GrantAt
    <3> QED
      BY <1>9, <3>1, <3>5 DEF AtHome
  <2> QED
    BY <2>1, <2>2
<1> QED
  BY <1>7, <1>8, <1>9

LEMMA ForgetKeepsGrants ==
  ASSUME SwitchInv, GrantInv, ChoiceStays, Forget
  PROVE  GrantInv'
<1>1. PICK t : t = tx
  OBVIOUS
<1>2. /\ TypeOK /\ DiskSound /\ WorkSound /\ GrantDisk
      /\ Managed \subseteq Accounts /\ Managed \subseteq Homes /\ Active \in Homes /\ Active \notin Managed
      /\ Original \in Accounts /\ Original \notin Managed /\ latest \in [Accounts -> Nat]
  BY StoreKinds DEF SwitchInv, GrantInv
<1>3. /\ stage = "unrefs" /\ step = Len(tx.refs) /\ Return /\ UNCHANGED world
      /\ store' = store /\ refs' = refs /\ latest' = latest /\ forfeited' = forfeited
  BY DEF Forget, world
<1>4. CASE keeps
  <2>1. UNCHANGED disk
    BY <1>3, <1>4 DEF Forget, disk
  <2> QED
    BY <1>3, <2>1, OverStep
<1>5. CASE ~keeps
  <2>1. /\ t # NoTx /\ Typed(t) /\ TxSound(t) /\ ImageSound(t) /\ FreshImages(t) /\ t \in Open
        /\ t.op \in Ops /\ txs[t.op] = t /\ Pending = {t.op} /\ Saving = {} /\ ~t.committed
        /\ OldBinding = Before(t, Binding) /\ Home = Origin(t)
        /\ store[Binding] = Before(t, Binding) /\ store[Config].mode = Before(t, Config).mode
        /\ \A a \in Managed : Archives(t, a) =>
             store[Grant(a)] = Before(t, Grant(a)) /\ store[Profile(a)] = Before(t, Profile(a))
        /\ \/ Whose(store[GrantAt]) = Original /\ Whose(store[ProfileAt]) = Original
           \/ store[ProfileAt] = Before(t, ProfileAt) /\ Whose(store[GrantAt]) = Whose(Before(t, GrantAt))
        /\ Original \notin forfeited => store[GrantAt] = Live(Original) \/ Recorded(Live(Original))
        /\ \A i \in DOMAIN t.refs : refs[t.refs[i].id] = t.refs[i].before
    BY <1>1, <1>3, UndoneFacts
  <2>2. /\ txs'[t.op] = NoTx /\ \A op \in Ops : op # t.op => txs'[op] = txs[op]
    BY <1>1, <1>2, <1>5, <2>1 DEF Forget, TypeOK
  <2>3. Pending' = {}
    <3>1. \A op \in Ops : op \notin Pending'
      BY <2>1, <2>2 DEF Pending
    <3> QED
      BY <3>1 DEF Pending
  <2>4. Saving' = {} /\ Open' = {} /\ Files' \subseteq Files /\ stage' = "idle" /\ keeps' = FALSE
    <3>1. Saving' = {} /\ stage' = "idle" /\ keeps' = FALSE
      BY <1>3 DEF Saving, Return
    <3> QED
      BY <2>2, <2>3, <3>1 DEF Files, Open
  <2>5. OldBinding' = OldBinding /\ Home' = Home
    BY DEF ChoiceStays
  <2>6. HomesSame /\ Advances
    BY <1>2, <1>3, AdvanceZero DEF HomesSame
  <2>7. /\ \A a : Live(a)' = Live(a)
        /\ \A a : (AtActive(a)' <=> AtActive(a)) /\ (AtHome(a)' <=> AtHome(a))
        /\ \A h : Paired(h)' <=> Paired(h)
    BY <1>3 DEF Live, AtActive, AtHome, Mismatch, Native, ByGateway, Paired, Whose
  <2>8. ImagesSound'
    BY <1>2, <2>4, ImagesStay DEF GrantDisk
  <2>9. Fresh'
    BY <1>2, <2>4, <2>6, FreshFiles, FreshHomes DEF GrantDisk, Fresh
  <2>10. ASSUME NEW a \in Managed
         PROVE  Paired(a) /\ Whose(store[Grant(a)]) \in {a, Absent}
    <3>1. CASE Archives(t, a)
      <4>1. store[Grant(a)] = Before(t, Grant(a)) /\ store[Profile(a)] = Before(t, Profile(a))
        BY <2>1, <3>1
      <4>2. Whose(Before(t, Grant(a))) = Whose(Before(t, Profile(a)))
        BY <1>2, <2>1, <3>1 DEF ImageSound, StoresSound, Archives
      <4> QED
        BY <1>2, <4>1, <4>2 DEF Paired, GrantDisk, HomesSound
    <3>2. CASE ~Archives(t, a)
      BY <1>2, <2>1, <3>2 DEF GrantDisk, HomesSound
    <3> QED
      BY <3>1, <3>2
  <2>11. HomesSound'
    BY <1>3, <2>7, <2>10 DEF HomesSound, Whose
  <2>12. Paired(Active)
    <3>1. Whose(Before(t, GrantAt)) = Whose(Before(t, ProfileAt))
      <4>1. Grant(Active) \in Covers(t)
        BY <2>1 DEF TxSound
      <4> QED
        BY <1>2, <2>1, <4>1 DEF ImageSound, StoresSound, GrantAt, ProfileAt
    <3> QED
      BY <2>1, <3>1 DEF Paired, GrantAt, ProfileAt
  <2>13. ASSUME NEW a \in Managed, Whose(store[GrantAt]) = a
         PROVE  Home[a] = Active \/ ByGateway(store[Binding])
    <3>1. Whose(Before(t, GrantAt)) = a
      BY <1>2, <2>1, <2>13
    <3>2. Leaves(t, a) \/ ByGateway(Before(t, Binding))
      BY <2>1, <3>1 DEF ImageSound, GatewaySound
    <3>3. RefsSound(t.refs)
      BY <2>1 DEF TxSound
    <3> QED
      BY <2>1, <3>2, <3>3, OriginFacts DEF Leaves
  <2>14. ByGateway(store[Binding]) => store[Config].mode = "gateway"
    BY <2>1 DEF ImageSound, GatewaySound
  <2>15. \A a \in Managed \ forfeited : IF Home[a] = Active THEN AtActive(a) ELSE AtHome(a)
    BY <1>1, <1>3, UndonePlace
  <2>16. Placed'
    <3>1. Paired(Active)'
      BY <2>7, <2>12
    <3>2. (\A a \in Managed : Whose(store[GrantAt]) = a => Home[a] = Active \/ ByGateway(store[Binding]))'
      BY <1>3, <2>5, <2>13 DEF Whose, ByGateway, GrantAt
    <3>3. (ByGateway(store[Binding]) => store[Config].mode = "gateway")'
      BY <1>3, <2>14 DEF ByGateway
    <3>4. (\A a \in Managed \ forfeited : IF Home[a] = Active THEN AtActive(a) ELSE AtHome(a))'
      BY <1>3, <2>5, <2>7, <2>15
    <3> QED
      BY <3>1, <3>2, <3>3, <3>4 DEF Placed
  <2>17. Kept'
    BY <1>2, <1>3, <2>7 DEF GrantDisk, Kept, GrantAt
  <2>18. Unswitched'
    <3>1. SUFFICES ASSUME OldBinding = Absent, NEW a \in Managed, Home[a] = Active
                   PROVE  store[Grant(a)] = Absent
      BY <1>3, <2>3, <2>5 DEF Unswitched
    <3>2. CASE Archives(t, a)
      BY <1>2, <2>1, <3>1, <3>2 DEF GrantDisk, Unswitched
    <3>3. CASE ~Archives(t, a)
      BY <1>2, <2>1, <3>1, <3>3 DEF GrantDisk, Unswitched
    <3> QED
      BY <3>2, <3>3
  <2>19. OpenSound' /\ RefsKnown'
    BY <2>3, <2>4 DEF OpenSound, RefsKnown
  <2>20. OriginalSound'
    <3>1. SUFFICES ASSUME Original \notin forfeited'
                   PROVE  (store[GrantAt] = Live(Original) \/ Recorded(Live(Original)))'
      BY <2>4 DEF OriginalSound
    <3>2. PICK g : g = Live(Original)
      OBVIOUS
    <3>3. Recorded(g) => Recorded(g)'
      <4>1. SUFFICES ASSUME Recorded(g) PROVE Recorded(g)'
        OBVIOUS
      <4>2. PICK op \in Ops : /\ txs[op] # NoTx /\ txs[op].committed
                              /\ g \in {txs[op].changes[GrantAt].before, txs[op].changes[GrantAt].after}
        BY <4>1 DEF Recorded, Before, After
      <4>3. op # t.op
        BY <2>1, <4>2
      <4> QED
        BY <2>2, <4>2, <4>3 DEF Recorded, Before, After, GrantAt
    <3>4. store'[GrantAt] = g \/ Recorded(g)'
      BY <1>3, <2>1, <3>1, <3>2, <3>3
    <3> QED
      BY <2>7, <3>2, <3>4 DEF Recorded, GrantAt
  <2>21. GrantDisk'
    BY <2>8, <2>9, <2>11, <2>16, <2>17, <2>18, <2>19, <2>20 DEF GrantDisk
  <2> QED
    BY <2>4, <2>21, WorkOver DEF GrantInv
<1> QED
  BY <1>4, <1>5

-----------------------------------------------------------------------------
(* The invariant *)

LEMMA InitGrants ==
  ASSUME Init
  PROVE  GrantInv
<1>1. PICK who \in Accounts \cup {Absent} :
        /\ store = [r \in Resources |->
             IF r = Config THEN [mode |-> "none", user |-> 0]
             ELSE IF r = Binding THEN Absent
             ELSE LET a == IF r[1] = Active THEN who ELSE r[1] IN
                  IF a = Absent \/ r[1] = who THEN Absent
                  ELSE IF r[2] = "grant" THEN [acct |-> a, gen |-> 0]
                  ELSE [acct |-> a, rev |-> 0]]
        /\ refs = [a \in Managed |-> IF a = who THEN Active ELSE a]
        /\ latest = [a \in Accounts |-> 0]
        /\ forfeited = IF who = Original THEN {} ELSE {Original}
        /\ txs = [op \in Ops |-> NoTx]
        /\ NoWork
  BY DEF Init
<1>2. /\ Absent \notin Accounts /\ Original \notin Managed /\ Managed \subseteq Accounts
      /\ Original \in Accounts /\ Active \notin Accounts
      /\ Managed \subseteq Homes /\ Active \in Homes /\ \A h \in Homes : h = Active \/ h \in Managed
  BY SwitchConstants DEF Accounts, Homes
<1>3. stage = "idle" /\ keeps = FALSE /\ Pending = {} /\ Saving = {} /\ Files = {} /\ Open = {}
  <2>1. stage = "idle" /\ keeps = FALSE
    BY <1>1 DEF NoWork
  <2>2. Saving = {}
    BY <2>1 DEF Saving
  <2>3. Pending = {} /\ \A op \in Ops : txs[op] = NoTx
    BY <1>1 DEF Pending
  <2> QED
    BY <2>1, <2>2, <2>3 DEF Files, Open
<1>4. Home = refs /\ OldBinding = store[Binding] /\ store[Binding] = Absent
  BY <1>1, <1>3, NonePending, ResourceFacts
<1>5. ASSUME NEW h \in Homes, NEW a, a = IF h = Active THEN who ELSE h
      PROVE  /\ store[Grant(h)] = IF a = Absent \/ h = who THEN Absent ELSE [acct |-> a, gen |-> 0]
             /\ store[Profile(h)] = IF a = Absent \/ h = who THEN Absent ELSE [acct |-> a, rev |-> 0]
             /\ a \in Accounts \cup {Absent}
  <2>1. a \in Accounts \cup {Absent}
    BY <1>2, <1>5
  <2>2. Grant(h)[1] = h /\ Grant(h)[2] = "grant" /\ Profile(h)[1] = h /\ Profile(h)[2] = "profile"
    BY DEF Grant, Profile
  <2>3. store[Grant(h)] = IF a = Absent \/ h = who THEN Absent ELSE [acct |-> a, gen |-> 0]
    BY <1>1, <1>5, <2>2, ResourceFacts
  <2>4. "profile" # "grant"
    OBVIOUS
  <2>5. store[Profile(h)] = IF a = Absent \/ h = who THEN Absent ELSE [acct |-> a, rev |-> 0]
    BY <1>1, <1>5, <2>2, <2>4, ResourceFacts
  <2> QED
    BY <2>1, <2>3, <2>5
<1>6. \A a \in Accounts : /\ Live(a) = [acct |-> a, gen |-> 0] /\ latest[a] = 0
                          /\ Live(a) \in Grants /\ Whose(Live(a)) = a
                          /\ [acct |-> a, rev |-> 0] \in Profiles /\ Whose([acct |-> a, rev |-> 0]) = a
  <2>1. \A a \in Accounts : latest[a] = 0 /\ Live(a) = [acct |-> a, gen |-> 0]
    BY <1>1 DEF Live
  <2>2. \A a \in Accounts : [acct |-> a, gen |-> 0] \in Grants /\ [acct |-> a, rev |-> 0] \in Profiles
    BY DEF Grants, Profiles
  <2> QED
    BY <2>1, <2>2, WhoseFacts
<1>7. ASSUME NEW a \in Managed
      PROVE  /\ a # who => store[Grant(a)] = Live(a) /\ store[Profile(a)] = [acct |-> a, rev |-> 0]
             /\ a = who => store[Grant(a)] = Absent /\ store[Profile(a)] = Absent
             /\ refs[a] = IF a = who THEN Active ELSE a
  <2>1. a \in Homes /\ a # Active /\ a # Absent /\ a \in Accounts
    BY <1>2
  <2>2. PICK b : b = IF a = Active THEN who ELSE a
    OBVIOUS
  <2>3. /\ store[Grant(a)] = IF b = Absent \/ a = who THEN Absent ELSE [acct |-> b, gen |-> 0]
        /\ store[Profile(a)] = IF b = Absent \/ a = who THEN Absent ELSE [acct |-> b, rev |-> 0]
    BY <1>5, <2>1, <2>2
  <2>4. refs[a] = IF a = who THEN Active ELSE a
    BY <1>1
  <2> QED
    BY <1>6, <2>1, <2>2, <2>3, <2>4
<1>8. /\ who # Absent => store[GrantAt] = Live(who) /\ store[ProfileAt] = [acct |-> who, rev |-> 0]
      /\ who = Absent => store[GrantAt] = Absent /\ store[ProfileAt] = Absent
  <2>1. PICK b : b = IF Active = Active THEN who ELSE Active
    OBVIOUS
  <2>2. /\ store[Grant(Active)] = IF b = Absent \/ Active = who THEN Absent ELSE [acct |-> b, gen |-> 0]
        /\ store[Profile(Active)] = IF b = Absent \/ Active = who THEN Absent ELSE [acct |-> b, rev |-> 0]
    BY <1>2, <1>5, <2>1
  <2>3. who # Absent => who # Active /\ Live(who) = [acct |-> who, gen |-> 0]
    BY <1>2, <1>6
  <2> QED
    BY <2>1, <2>2, <2>3 DEF GrantAt, ProfileAt
<1>9. \A h \in Homes : /\ store[Grant(h)] = Absent /\ store[Profile(h)] = Absent
                       \/ \E a \in Accounts : store[Grant(h)] = Live(a) /\ store[Profile(h)] = [acct |-> a, rev |-> 0]
  BY <1>2, <1>7, <1>8 DEF GrantAt, ProfileAt
<1>10. \A h \in Homes : Paired(h)
  BY <1>6, <1>9 DEF Paired
<1>11. ImagesSound /\ OpenSound /\ RefsKnown
  BY <1>3 DEF ImagesSound, OpenSound, RefsKnown
<1>12. Fresh
  <2>1. \A a \in Accounts : Dated(Live(a)) /\ Signed([acct |-> a, rev |-> 0])
    <3> TAKE a \in Accounts
    <3>1. 0 <= 0 /\ latest[a] = 0 /\ latest[Original] = 0
      <4>1. latest[a] = 0 /\ latest[Original] = 0
        BY <1>1, <1>2
      <4> QED
        BY <4>1
    <3>2. Live(a).gen = 0 /\ Live(a).acct = a
      BY <1>1 DEF Live
    <3>3. PICK p : p = [acct |-> a, rev |-> 0]
      OBVIOUS
    <3>4. p.rev = 0
      BY <3>3
    <3>5. Signed(p)
      BY <3>1, <3>4 DEF Signed
    <3> QED
      BY <3>1, <3>2, <3>3, <3>5 DEF Dated
  <2>2. Dated(Absent) /\ Signed(Absent)
    BY DEF Dated, Signed
  <2> QED
    BY <1>3, <1>9, <2>1, <2>2 DEF Fresh
<1>13. HomesSound
  BY <1>2, <1>6, <1>7, <1>10, WhoseFacts DEF HomesSound
<1>14. ~ByGateway(store[Binding])
  BY <1>4 DEF ByGateway
<1>15. \A a \in Managed : IF refs[a] = Active THEN AtActive(a) ELSE AtHome(a)
  BY <1>2, <1>7, <1>8 DEF AtActive, AtHome
<1>16. Placed
  <2>1. \A a \in Managed : Whose(store[GrantAt]) = a => Home[a] = Active
    BY <1>2, <1>4, <1>6, <1>7, <1>8, WhoseFacts
  <2> QED
    BY <1>2, <1>4, <1>10, <1>14, <1>15, <2>1 DEF Placed
<1>17. Kept
  BY <1>2, <1>7, <1>8 DEF Kept
<1>18. Unswitched
  BY <1>2, <1>3, <1>4, <1>7 DEF Unswitched
<1>19. OriginalSound
  BY <1>1, <1>2, <1>3, <1>8 DEF OriginalSound
<1>20. GrantWork
  BY <1>3 DEF GrantWork, Ready, ForwardSound, BackwardSound, StampSound, Forward, Backward, Applying
<1> QED
  BY <1>11, <1>12, <1>13, <1>16, <1>17, <1>18, <1>19, <1>20 DEF GrantInv, GrantDisk

\* Every step keeps it, when nobody writes between a check and the write it
\* guards and a first switch is not rolled back over a pending one.
LEMMA StepGrants ==
  ASSUME ~Racing, ~RollbackWhilePending, SwitchInv, GrantInv, [Next]_vars
  PROVE  GrantInv'
<1>1. SwitchInv'
  BY StepSound
<1>2. CASE UNCHANGED vars
  BY <1>2, StutterSound, SessionKeepsGrants
<1>3. CASE Outside
  <2>1. ChoiceStays
    BY <1>3, OutsideStep
  <2> QED
    BY <1>3, <2>1, CliRotatesKeepsGrants, CliLoginKeepsGrants, UserEditsKeepsGrants,
       RenewalsKeepGrants DEF Outside
<1>4. CASE Refuse \/ SetReferenceFails \/ CommitFails \/ UnputFails \/ ForgetFails \/ Crash
  BY <1>4, FailureSteps, FailuresKeepGrants
<1>5. CASE BeginSwitch \/ BeginProxy
  BY <1>5, BeginStep, BeginKeepsGrants
<1>6. CASE Renew
  BY <1>6, RenewStep, RenewalsKeepGrants
<1>7. CASE Prepare
  BY <1>1, <1>7, PrepareStep, PrepareKeepsGrants
<1>8. CASE BeginRollback
  BY <1>8, BeginRollbackStep, BeginRollbackKeepsGrants
<1>9. CASE PrepareRollback
  BY <1>1, <1>9, PrepareRollbackStep, PrepareRollbackKeepsGrants
<1>10. CASE Save
  BY <1>10, SaveStep, SaveKeepsGrants
<1>11. CASE Check \/ Recheck
  BY <1>11, CheckStep, CheckKeepsGrants
<1>12. CASE Put
  BY <1>12, PutStep, PutKeepsGrants
<1>13. CASE PutFails
  BY <1>13, PutFailsStep, PutFailsKeepsGrants
<1>14. CASE SetReference
  BY <1>14, SetReferenceStep, SetReferenceKeepsGrants
<1>15. CASE Commit
  BY <1>15, CommitKeepsGrants
<1>16. CASE CheckImages
  BY <1>16, CheckImagesStep, CheckImagesKeepsGrants
<1>17. CASE RecheckImage
  BY <1>17, RecheckImageStep, RecheckImageKeepsGrants
<1>18. CASE Unput
  BY <1>18, UnputStep, UnputKeepsGrants
<1>19. CASE Restored
  BY <1>19, RestoredStep, RestoredKeepsGrants
<1>20. CASE ResetReference
  BY <1>20, ResetReferenceStep, ResetReferenceKeepsGrants
<1>21. CASE Forget
  BY <1>21, ForgetStep, ForgetKeepsGrants
<1>22. CASE Unlock \/ Lock
  BY <1>22, SessionStep, SessionKeepsGrants
<1>23. CASE Recover
  BY <1>23, RecoverStep, RecoverKeepsGrants
<1> QED
  BY <1>2, <1>3, <1>4, <1>5, <1>6, <1>7, <1>8, <1>9, <1>10, <1>11, <1>12, <1>13, <1>14, <1>15,
     <1>16, <1>17, <1>18, <1>19, <1>20, <1>21, <1>22, <1>23 DEF Next, Apply, Restore

\* Where the grants are, on disk and in the images of the transaction files, at
\* every point of a switch, a rollback, a crash and a recovery (apply_prepared,
\* archive_outgoing, apply_with, restore_with, recover): the tool, the proxy
\* and the user may write at any time but between a resource's check and its
\* write, and a first switch is rolled back only when none is pending.
THEOREM GrantInvariant ==
  ~RollbackWhilePending /\ ~Racing => (Spec => [](SwitchInv /\ GrantInv))
<1> SUFFICES ASSUME ~RollbackWhilePending, ~Racing
             PROVE  Spec => [](SwitchInv /\ GrantInv)
  OBVIOUS
<1>1. Init => SwitchInv /\ GrantInv
  BY InitSound, InitGrants
<1>2. (SwitchInv /\ GrantInv) /\ [Next]_vars => (SwitchInv /\ GrantInv)'
  BY StepSound, StepGrants
<1> QED
  BY <1>1, <1>2, PTL DEF Spec

\* The last copy of a grant that the vendor accepts is never overwritten or
\* deleted: archive_outgoing copies the active store before copy_store brings
\* the next account in, restore_with writes it back before it takes the archive
\* away, and what a first switch replaced stays in its transaction file.
THEOREM NoGrantIsLost ==
  ~RollbackWhilePending /\ ~Racing => (Spec => []NoGrantLost)
<1> SUFFICES ASSUME ~RollbackWhilePending, ~Racing
             PROVE  Spec => []NoGrantLost
  OBVIOUS
<1>1. SwitchInv /\ GrantInv => NoGrantLost
  <2> SUFFICES ASSUME SwitchInv, GrantInv, NEW a \in Accounts \ forfeited
               PROVE  \/ \E h \in Homes : store[Grant(h)] = Live(a)
                      \/ a = Original /\ Backed(Live(a))
    BY DEF NoGrantLost
  <2>1. CASE a \in Managed
    <3>1. Live(a) \in {store[GrantAt], store[Grant(a)]}
      BY <2>1 DEF GrantInv, GrantDisk, Kept
    <3> QED
      BY <2>1, <3>1 DEF Homes, GrantAt
  <2>2. CASE a = Original
    <3>1. ASSUME NEW op \in Ops, txs[op] # NoTx,
                 Live(a) \in {Before(txs[op], GrantAt), After(txs[op], GrantAt)}
          PROVE  Backed(Live(a))
      <4>1. GrantAt \in Covers(txs[op]) /\ GrantAt[2] = "grant"
        BY <3>1 DEF SwitchInv, DiskSound, FilesSound, TxSound, GrantAt, Grant
      <4> QED
        BY <3>1, <4>1 DEF Backed, Before, After
    <3>2. \/ store[GrantAt] = Live(a)
          \/ Recorded(Live(a))
          \/ \E op \in Pending : Before(txs[op], GrantAt) = Live(a)
      BY <2>2 DEF GrantInv, GrantDisk, OriginalSound
    <3> QED
      BY <2>2, <3>1, <3>2 DEF Recorded, Pending, Homes, GrantAt
  <2> QED
    BY <2>1, <2>2 DEF Accounts
<1> QED
  BY <1>1, GrantInvariant, PTL

\* With nothing under way or left to recover and no displayed conflict, every
\* account's reference leads to a home that is signed in to it with its valid
\* grant, and the selected account is the one at the active home
\* (set_references, apply_prepared, rollback, status_snapshot).
THEOREM AccountsAreFound ==
  ~RollbackWhilePending /\ ~Racing => (Spec => []AccountsAtHome)
<1> SUFFICES ASSUME ~RollbackWhilePending, ~Racing
             PROVE  Spec => []AccountsAtHome
  OBVIOUS
<1>1. SwitchInv /\ GrantInv => AccountsAtHome
  <2> SUFFICES ASSUME SwitchInv, GrantInv, Idle, Pending = {}, ~Conflict
               PROVE  /\ \A a \in Managed \ forfeited :
                           store[Grant(refs[a])] = Live(a) /\ Identity(refs[a]) = a
                      /\ Bound /\ Who \in Managed => refs[Who] = Active
    BY DEF AccountsAtHome
  <2>1. /\ TypeOK /\ DiskSound /\ GrantDisk /\ Home = refs
        /\ Managed \subseteq Accounts /\ Managed \subseteq Homes /\ Active \in Homes
        /\ Original \notin Managed /\ latest \in [Accounts -> Nat]
    BY StoreKinds, NonePending DEF SwitchInv, GrantInv
  <2>2. Bound /\ Who \in Managed => refs[Who] = Active
    BY <2>1, Occupied
  <2>3. ~Mismatch
    BY DEF Conflict, Intact, Mismatch, ByGateway, Bound, Who
  <2>4. ASSUME NEW h \in Homes, NEW a \in Managed, store[Grant(h)] = Live(a), Paired(h)
        PROVE  Identity(h) = a
    <3>1. Live(a) # Absent /\ Whose(Live(a)) = a /\ a # Absent
      BY <2>1, LiveFacts, WhoseFacts
    <3>2. Whose(store[Profile(h)]) = a
      BY <2>4, <3>1 DEF Paired
    <3>3. store[Profile(h)] # Absent /\ store[Profile(h)].acct = a
      BY <3>1, <3>2 DEF Whose
    <3> QED
      BY <2>4, <3>1, <3>3 DEF Identity
  <2>5. Paired(Active) /\ \A a \in Managed : Paired(a)
    BY <2>1 DEF GrantDisk, HomesSound, Placed
  <2>6. ASSUME NEW a \in Managed \ forfeited
        PROVE  store[Grant(refs[a])] = Live(a)
    <3>1. IF refs[a] = Active THEN AtActive(a) ELSE AtHome(a)
      BY <2>1 DEF GrantDisk, Placed
    <3>2. refs[a] \in {a, Active}
      BY <2>1, Occupied
    <3>3. CASE refs[a] # Active
      BY <2>3, <3>1, <3>2, <3>3 DEF AtHome
    <3>4. CASE refs[a] = Active
      <4>1. SUFFICES ASSUME Whose(store[GrantAt]) = Original, store[Grant(a)] = Live(a)
                     PROVE  FALSE
        BY <3>1, <3>4 DEF AtActive, GrantAt
      <4>2. Live(a) # Absent
        BY <2>1, LiveFacts
      <4>3. Bound
        BY <2>1, <3>4, <4>1, <4>2, NonePending DEF GrantDisk, Unswitched, Bound
      <4>4. Who = a
        <5>1. PICK c \in Managed \cup {Gateway, Absent} :
                Home = HomesFor(c) /\ (OldBinding # Absent => c = OldBinding.who)
          BY <2>1 DEF DiskSound, ChoiceSound
        <5>2. c = Who
          BY <4>3, <5>1, NonePending DEF Bound, Who
        <5>3. refs[a] = (IF a = c THEN Active ELSE a) /\ a # Active
          BY <2>1, <5>1, StoreKinds DEF HomesFor
        <5> QED
          BY <3>4, <5>2, <5>3
      <4>5. Identity(Active) = Original
        <5>1. /\ store[GrantAt] # Absent /\ store[ProfileAt] # Absent /\ store[ProfileAt].acct = Original
          BY <2>1, <2>5, <4>1, StoreKinds, WhoseFacts DEF Paired, GrantAt, ProfileAt, Whose
        <5> QED
          BY <5>1 DEF Identity, GrantAt, ProfileAt
      <4>6. Original \notin {a, Absent} /\ a # Gateway
        BY <2>1, SwitchConstants, StoreKinds, WhoseFacts
      <4> QED
        BY <4>3, <4>4, <4>5, <4>6 DEF Conflict
    <3> QED
      BY <3>3, <3>4
  <2> QED
    BY <2>1, <2>2, <2>4, <2>5, <2>6, Occupied
<1> QED
  BY <1>1, GrantInvariant, PTL
=============================================================================
