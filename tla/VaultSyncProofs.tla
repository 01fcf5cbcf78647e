--------------------------- MODULE VaultSyncProofs ---------------------------
(***************************************************************************)
(* Proofs about VaultSync, for any number of devices, records, edits,      *)
(* snapshots and faults: the inductive invariant VaultInv, from which no   *)
(* edit is lost silently, no device goes back to an older value, and       *)
(* retention keeps what is newest.                                         *)
(*                                                                         *)
(* The history of the edits and the graph of the snapshots only grow, and  *)
(* their order is defined by recursion.  What is proved of them by         *)
(* induction is proved with a least counterexample (Least).                *)
(***************************************************************************)
EXTENDS VaultSync, WellFoundedInduction, FiniteSetTheorems, TLAPS

-----------------------------------------------------------------------------
(* The history of the edits, for any history p and set q of edits given up *)

\* Each edit was made on top of an earlier value.
History(p) == p \in Seq(Nat) /\ \A e \in DOMAIN p : p[e] \in 0 .. (e - 1)

\* Overwritten, in the history p.
Below(p, e) ==
  LET B[n \in 0 .. Len(p)] == IF n = 0 THEN {} ELSE {p[n]} \cup B[p[n]]
  IN  B[e]

Earlier(p) == {p[e] : e \in DOMAIN p}

\* Value y stands for x: it is x, an edit on top of it, or x was given up.
Under(p, q, x, y) ==
  x = y \/ x \in Below(p, y) \/ x \in q \/ \E e \in q : x \in Below(p, e)

\* Content b has taken up all of content a.
Follows(p, q, a, b) == \A f \in Fields : Under(p, q, a[f], b[f])

-----------------------------------------------------------------------------
(* The snapshots, for any graph s *)

Files(p) == [Fields -> 0 .. Len(p)]
Snapshot == [parents : SUBSET Ids, content : Content]

Graph(s) ==
  /\ s \in Seq(Snapshot) /\ Len(s) <= MaxSnaps
  /\ \A i \in DOMAIN s : s[i].parents \subseteq 1 .. (i - 1)

Filed(p, s) == \A i \in DOMAIN s : s[i].content \in Files(p)

\* Within, in the graph s.
ParentsIn(s, S) == UNION {s[i].parents : i \in S}

Reach(s, i, n, known) ==
  LET R[k \in 0 .. n] == IF k = 0 THEN {i} ELSE R[k - 1] \cup ParentsIn(s, R[k - 1] \cap known)
  IN  R[n]

\* Ancestors.
Line(s, i) == Reach(s, i, MaxSnaps, DOMAIN s)

-----------------------------------------------------------------------------
(* The invariant, about a device with vault v, session o, files D and run r *)

\* What the files and the run name exists.
Named(s, v, o, D, r) ==
  /\ D.outbox \subseteq D.cache /\ D.cache \subseteq DOMAIN s
  /\ D.conflicts \subseteq DOMAIN s
  /\ D.tx # None => D.ck # None
  /\ r.todo \subseteq DOMAIN s /\ r.listed \subseteq DOMAIN s /\ r.heads \subseteq DOMAIN s
  /\ r.sending \in DOMAIN s \cup {None} /\ (r.sending # None => r.pc = "flush")
  /\ o => v # None

\* The vault has taken up all that checkpoint ck names; the checkpoint's
\* revision is that of its only head.
Based(p, q, s, ck, v) ==
  /\ v # None /\ ck.heads \subseteq DOMAIN s
  /\ \A h \in ck.heads : Follows(p, q, s[h].content, v)
  /\ ck.rev # None => \E h \in DOMAIN s : ck.heads = {h} /\ ck.rev = s[h].content

\* So with the device's checkpoint and with what it has yet to send.
DiskSound(p, q, s, v, D) ==
  /\ D.ck # None => Based(p, q, s, D.ck, v)
  /\ \A i \in D.outbox : v # None /\ Follows(p, q, s[i].content, v)

\* So with the checkpoint that synchronize holds, from which it merges.
RunSound(p, q, s, v, o, r) ==
  r.pc \in {"merge", "save"} =>
    /\ o /\ r.ck # None /\ Based(p, q, s, r.ck, v)
    /\ r.pc = "merge" /\ r.todo # {} => r.local \in r.ck.heads

Sound(p, q, s, v, o, D, r) ==
  /\ v \in Files(p) \cup {None} /\ D \in DiskType /\ r \in RunType
  /\ Named(s, v, o, D, r) /\ DiskSound(p, q, s, v, D) /\ RunSound(p, q, s, v, o, r)

\* What a run goes by is at the target R, or something built on it is; of what
\* it is about to delete, something else.
Listed(s, R, r) ==
  /\ r.pc # "delete" => \A i \in r.listed : \E j \in R : i \in Line(s, j)
  /\ r.pc = "delete" => \A i \in r.todo : \E j \in R : j # i /\ i \in Line(s, j)

\* A snapshot has taken up all of those it was built on.
SnapsSound(p, q, s) ==
  \A j \in DOMAIN s : \A i \in s[j].parents : Follows(p, q, s[i].content, s[j].content)

-----------------------------------------------------------------------------
(* The invariant *)

Types ==
  /\ History(prior) /\ Len(prior) <= MaxEdits /\ dropped \subseteq DOMAIN prior
  /\ Graph(snaps) /\ Filed(prior, snaps)
  /\ remote \subseteq DOMAIN snaps
  /\ open \in [Devices -> BOOLEAN]
  /\ faults \in 0 .. MaxFaults

\* An edit is of one field.
Contents ==
  {snaps[i].content : i \in DOMAIN snaps} \cup {vault[d] : d \in {e \in Devices : vault[e] # None}}

FieldsSound ==
  \A c, e \in Contents : \A f, g \in Fields : c[f] = e[g] /\ c[f] # 0 => f = g

\* An edit that is not in a vault is in what was sent or is about to be.
Sent == remote \cup UNION {disk[d].outbox : d \in Devices}

EditsSound ==
  \A e \in Live :
    \/ \E d \in Devices : vault[d] # None /\ e \in Values(vault[d])
    \/ \E i \in Sent : e \in Values(snaps[i].content)

DevicesSound ==
  /\ vault = [d \in Devices |-> vault[d]]
  /\ disk = [d \in Devices |-> disk[d]]
  /\ run = [d \in Devices |-> run[d]]
  /\ \A d \in Devices :
       /\ Sound(prior, dropped, snaps, vault[d], open[d], disk[d], run[d])
       /\ Listed(snaps, remote, run[d])

VaultInv ==
  Types /\ DevicesSound /\ SnapsSound(prior, dropped, snaps) /\ FieldsSound /\ EditsSound

-----------------------------------------------------------------------------
(* Induction *)

LEMMA Least ==
  ASSUME NEW S, S \subseteq Nat, S # {}
  PROVE  \E n \in S : \A m \in S : n <= m
<1>1. PICK R : R = OpToRel(<, Nat)
  OBVIOUS
<1>2. IsWellFoundedOn(R, Nat)
  BY <1>1, NatLessThanWellFounded
<1>3. PICK n \in S : \A m \in S : <<m, n>> \notin R
  BY <1>2, WFMin
<1>4. \A m \in S : ~(m < n)
  BY <1>1, <1>3 DEF OpToRel
<1> QED
  BY <1>3, <1>4

LEMMA Greatest ==
  ASSUME NEW S, NEW n \in Nat, S \subseteq 0 .. n, S # {}
  PROVE  \E m \in S : \A k \in S : k <= m
<1>1. PICK T : T = {n - k : k \in S}
  OBVIOUS
<1>2. T \subseteq Nat /\ T # {}
  <2>1. \A k \in S : k \in 0 .. n /\ n - k \in Nat
    OBVIOUS
  <2>2. PICK k \in S : TRUE
    OBVIOUS
  <2>3. n - k \in T
    BY <1>1, <2>2
  <2> QED
    BY <1>1, <2>1, <2>3
<1>3. PICK t \in T : \A u \in T : t <= u
  BY <1>2, Least
<1>4. PICK m \in S : t = n - m
  BY <1>1, <1>3
<1>5. \A k \in S : n - m <= n - k
  BY <1>1, <1>3, <1>4
<1> QED
  BY <1>4, <1>5

-----------------------------------------------------------------------------
(* The order of the edits *)

LEMMA BelowFcn ==
  ASSUME NEW p, History(p)
  PROVE  \E B : /\ \A e \in 0 .. Len(p) : Below(p, e) = B[e]
                /\ B[0] = {}
                /\ \A e \in 0 .. Len(p) : e # 0 => p[e] \in 0 .. Len(p) /\ B[e] = {p[e]} \cup B[p[e]]
<1> DEFINE Rec(f, m) == f = [n \in 0 .. m |-> IF n = 0 THEN {} ELSE {p[n]} \cup f[p[n]]]
<1>0. Len(p) \in Nat /\ DOMAIN p = 1 .. Len(p) /\ \A e \in 1 .. Len(p) : p[e] \in 0 .. (e - 1)
  BY DEF History
<1>1. \A m \in 0 .. Len(p) : \E f : Rec(f, m)
  <2> SUFFICES ASSUME NEW m0 \in 0 .. Len(p), ~ \E f : Rec(f, m0) PROVE FALSE
    OBVIOUS
  <2>1. PICK S : S = {m \in 0 .. Len(p) : ~ \E f : Rec(f, m)}
    OBVIOUS
  <2>2. PICK m \in S : \A l \in S : m <= l
    <3>1. S \subseteq Nat
      BY <1>0, <2>1
    <3>2. m0 \in S
      BY <2>1
    <3>3. S # {}
      BY <3>2
    <3> QED
      BY <3>1, <3>3, Least
  <2>3. m # 0
    <3>1. Rec([n \in 0 .. 0 |-> {}], 0)
      OBVIOUS
    <3> QED
      BY <2>1, <3>1
  <2>4. m \in 1 .. Len(p) /\ m \in Nat \ {0} /\ m - 1 \in 0 .. Len(p) /\ ~(m <= m - 1)
    BY <1>0, <2>1, <2>3 
  <2>5. PICK f : Rec(f, m - 1)
    BY <2>1, <2>2, <2>4
  <2>6. PICK g : g = [n \in 0 .. m |-> IF n = m THEN {p[m]} \cup f[p[m]] ELSE f[n]]
    OBVIOUS
  <2>7. \A n \in 0 .. m : g[n] = IF n = 0 THEN {} ELSE {p[n]} \cup g[p[n]]
    <3> SUFFICES ASSUME NEW n \in 0 .. m
                 PROVE  g[n] = IF n = 0 THEN {} ELSE {p[n]} \cup g[p[n]]
      OBVIOUS
    <3>1. CASE n = 0
      <4>1. 0 \in 0 .. m /\ 0 \in 0 .. m - 1
        BY <2>4
      <4>2. g[0] = f[0] /\ f[0] = {}
        BY <2>3, <2>5, <2>6, <4>1
      <4> QED
        BY <3>1, <4>2
    <3>2. CASE n # 0
      <4>1. n \in 1 .. Len(p)
        BY <2>4, <3>2
      <4>2. PICK q : q = p[n]
        OBVIOUS
      <4>3. q \in 0 .. n - 1
        BY <1>0, <4>1, <4>2
      <4>4. q \in 0 .. m /\ q # m /\ q \in 0 .. m - 1
        BY <2>4, <4>3
      <4>5. g[q] = f[q]
        BY <2>6, <4>4
      <4>6. CASE n = m
        BY <2>6, <3>2, <4>2, <4>5, <4>6
      <4>7. CASE n # m
        <5>1. n \in 0 .. m - 1
          BY <2>4, <4>7
        <5>2. g[n] = f[n]
          BY <2>6, <4>7
        <5>3. f[n] = {q} \cup f[q]
          BY <2>5, <3>2, <4>2, <5>1
        <5> QED
          BY <3>2, <4>2, <4>5, <5>2, <5>3
      <4> QED
        BY <4>6, <4>7
    <3> QED
      BY <3>1, <3>2
  <2>8. Rec(g, m)
    <3>1. g = [n \in 0 .. m |-> g[n]]
      BY <2>6
    <3> QED
      BY <2>7, <3>1
  <2> QED
    BY <2>1, <2>8
<1>2. Len(p) \in 0 .. Len(p)
  BY <1>0
<1>3. PICK B : B = CHOOSE f : Rec(f, Len(p))
  OBVIOUS
<1>4. Rec(B, Len(p))
  <2>1. PICK m \in 0 .. Len(p) : m = Len(p)
    BY <1>2
  <2>2. \E f : Rec(f, m)
    BY <1>1
  <2>3. B = CHOOSE f : Rec(f, m)
    BY <1>3, <2>1
  <2>4. Rec(B, m)
    BY <2>2, <2>3
  <2> QED
    BY <2>1, <2>4
<1>5. \A e : Below(p, e) = B[e]
  BY <1>3 DEF Below
<1>6. \A e \in 0 .. Len(p) : B[e] = IF e = 0 THEN {} ELSE {p[e]} \cup B[p[e]]
  BY <1>4
<1>7. 0 \in 0 .. Len(p) /\ \A e \in 0 .. Len(p) : e # 0 => p[e] \in 0 .. Len(p)
  BY <1>0
<1> QED
  BY <1>5, <1>6, <1>7

LEMMA BelowSteps ==
  ASSUME NEW p, History(p)
  PROVE  /\ Below(p, 0) = {}
         /\ \A e \in 0 .. Len(p) : e # 0 =>
              /\ p[e] \in 0 .. Len(p) /\ p[e] < e
              /\ Below(p, e) = {p[e]} \cup Below(p, p[e])
<1>1. PICK B : /\ \A e \in 0 .. Len(p) : Below(p, e) = B[e]
               /\ B[0] = {}
               /\ \A e \in 0 .. Len(p) : e # 0 => p[e] \in 0 .. Len(p) /\ B[e] = {p[e]} \cup B[p[e]]
  BY BelowFcn
<1>2. 0 \in 0 .. Len(p)
  BY DEF History
<1>3. \A e \in 0 .. Len(p) : e # 0 => p[e] < e
  BY DEF History
<1> QED
  BY <1>1, <1>2, <1>3

-----------------------------------------------------------------------------
(* The ancestors of a snapshot *)

Layers(s, i, n, known, W) ==
  /\ W[0] = {i}
  /\ \A k \in 1 .. n : W[k] = W[k - 1] \cup ParentsIn(s, W[k - 1] \cap known)
  /\ Reach(s, i, n, known) = W[n]

LEMMA ReachFcn ==
  ASSUME NEW s, NEW i, NEW n \in Nat, NEW known
  PROVE  \E W : Layers(s, i, n, known, W)
<1> DEFINE Rec(f, m) == f = [k \in 0 .. m |-> IF k = 0 THEN {i} ELSE f[k - 1] \cup ParentsIn(s, f[k - 1] \cap known)]
<1>1. \A m \in Nat : \E f : Rec(f, m)
  <2> SUFFICES ASSUME NEW m0 \in Nat, ~ \E f : Rec(f, m0) PROVE FALSE
    OBVIOUS
  <2>1. PICK S : S = {m \in Nat : ~ \E f : Rec(f, m)}
    OBVIOUS
  <2>2. PICK m \in S : \A l \in S : m <= l
    BY <2>1, Least
  <2>3. m # 0
    <3>1. Rec([k \in 0 .. 0 |-> {i}], 0)
      OBVIOUS
    <3> QED
      BY <2>1, <3>1
  <2>4. PICK f : Rec(f, m - 1)
    <3>1. m - 1 \in Nat /\ ~(m <= m - 1)
      BY <2>1, <2>3
    <3> QED
      BY <2>1, <2>2, <3>1
  <2>5. PICK g : g = [k \in 0 .. m |-> IF k = m THEN f[m - 1] \cup ParentsIn(s, f[m - 1] \cap known) ELSE f[k]]
    OBVIOUS
  <2>6. \A k \in 0 .. m : g[k] = IF k = 0 THEN {i} ELSE g[k - 1] \cup ParentsIn(s, g[k - 1] \cap known)
    <3> SUFFICES ASSUME NEW k \in 0 .. m
                 PROVE  g[k] = IF k = 0 THEN {i} ELSE g[k - 1] \cup ParentsIn(s, g[k - 1] \cap known)
      OBVIOUS
    <3>1. m \in Nat \ {0} /\ m - 1 \in Nat
      BY <2>1, <2>3
    <3>2. CASE k = m
      <4>1. m - 1 \in 0 .. m /\ m - 1 # m
        BY <3>1
      <4>2. g[m - 1] = f[m - 1] /\ g[m] = f[m - 1] \cup ParentsIn(s, f[m - 1] \cap known)
        BY <2>5, <3>1, <4>1
      <4> QED
        BY <2>3, <3>2, <4>2
    <3>3. CASE k = 0
      BY <2>3, <2>4, <2>5, <3>1, <3>3
    <3>4. CASE k # m /\ k # 0
      <4>1. k \in 0 .. m - 1 /\ k - 1 \in 0 .. m /\ k - 1 # m
        BY <3>1, <3>4
      <4>2. g[k] = f[k] /\ g[k - 1] = f[k - 1]
        BY <2>5, <3>4, <4>1
      <4>3. f[k] = f[k - 1] \cup ParentsIn(s, f[k - 1] \cap known)
        BY <2>4, <3>4, <4>1
      <4> QED
        BY <3>4, <4>2, <4>3
    <3> QED
      BY <3>2, <3>3, <3>4
  <2>7. Rec(g, m)
    <3>1. g = [k \in 0 .. m |-> g[k]]
      BY <2>5
    <3> QED
      BY <2>6, <3>1
  <2> QED
    BY <2>1, <2>7
<1>2. \E f : Rec(f, n)
  BY <1>1
<1>3. PICK W : W = CHOOSE f : Rec(f, n)
  OBVIOUS
<1>4. Rec(W, n)
  BY <1>2, <1>3
<1>5. Reach(s, i, n, known) = W[n]
  BY <1>3 DEF Reach
<1>6. \A k \in 0 .. n : W[k] = IF k = 0 THEN {i} ELSE W[k - 1] \cup ParentsIn(s, W[k - 1] \cap known)
  BY <1>4
<1>7. 0 \in 0 .. n /\ \A k \in 1 .. n : k \in 0 .. n /\ k # 0
  OBVIOUS
<1>8. W[0] = {i}
  BY <1>6, <1>7
<1>9. \A k \in 1 .. n : W[k] = W[k - 1] \cup ParentsIn(s, W[k - 1] \cap known)
  BY <1>6, <1>7
<1> QED
  BY <1>5, <1>8, <1>9 DEF Layers

-----------------------------------------------------------------------------
(* Values that stand for others *)

LEMMA BelowFacts ==
  ASSUME NEW p, History(p), NEW e \in 0 .. Len(p)
  PROVE  /\ \A x \in Below(p, e) :
              x \in 0 .. Len(p) /\ x < e /\ x \in Earlier(p) /\ Below(p, x) \subseteq Below(p, e)
         /\ e # 0 => 0 \in Below(p, e)
<1> DEFINE Ok(n) == /\ \A x \in Below(p, n) :
                         x \in 0 .. Len(p) /\ x < n /\ x \in Earlier(p) /\ Below(p, x) \subseteq Below(p, n)
                    /\ n # 0 => 0 \in Below(p, n)
<1> SUFFICES ASSUME ~Ok(e) PROVE FALSE
  OBVIOUS
<1>0. Len(p) \in Nat /\ DOMAIN p = 1 .. Len(p)
  BY DEF History
<1>1. PICK S : S = {n \in 0 .. Len(p) : ~Ok(n)}
  OBVIOUS
<1>2. S \subseteq Nat /\ e \in S
  BY <1>0, <1>1
<1>3. PICK m \in S : \A n \in S : m <= n
  <2>1. S # {}
    BY <1>2
  <2> QED
    BY <1>2, <2>1, Least
<1>4. m \in 0 .. Len(p) /\ ~Ok(m)
  BY <1>1
<1>5. m # 0
  BY <1>4, BelowSteps
<1>6. PICK q \in 0 .. Len(p) : q = p[m] /\ q < m /\ Below(p, m) = {q} \cup Below(p, q)
  BY <1>4, <1>5, BelowSteps
<1>7. Ok(q)
  <2>1. ~(m <= q)
    BY <1>0, <1>4, <1>6
  <2>2. q \notin S
    BY <1>3, <2>1
  <2> QED
    BY <1>1, <2>2
<1>8. q \in Earlier(p)
  <2>1. m \in DOMAIN p
    BY <1>0, <1>4, <1>5
  <2> QED
    BY <1>6, <2>1 DEF Earlier
<1>9. ASSUME NEW x \in Below(p, m)
      PROVE  x \in 0 .. Len(p) /\ x < m /\ x \in Earlier(p) /\ Below(p, x) \subseteq Below(p, m)
  <2>1. CASE x = q
    BY <1>6, <1>8, <2>1
  <2>2. CASE x \in Below(p, q)
    <3>1. x \in 0 .. Len(p) /\ x < q /\ x \in Earlier(p) /\ Below(p, x) \subseteq Below(p, q)
      BY <1>7, <2>2
    <3>2. x < m
      BY <1>0, <1>4, <1>6, <3>1
    <3> QED
      BY <1>6, <3>1, <3>2
  <2> QED
    BY <1>6, <1>9, <2>1, <2>2
<1>10. 0 \in Below(p, m)
  BY <1>6, <1>7
<1> QED
  BY <1>4, <1>9, <1>10

\* A further edit changes nothing about those before.
LEMMA BelowKept ==
  ASSUME NEW p, NEW q, History(p), History(q), Len(p) <= Len(q), \A e \in DOMAIN p : q[e] = p[e],
         NEW e \in 0 .. Len(p)
  PROVE  Below(q, e) = Below(p, e)
<1> SUFFICES ASSUME Below(q, e) # Below(p, e) PROVE FALSE
  OBVIOUS
<1>0. Len(p) \in Nat /\ DOMAIN p = 1 .. Len(p) /\ Len(q) \in Nat
  BY DEF History
<1>1. PICK S : S = {n \in 0 .. Len(p) : Below(q, n) # Below(p, n)}
  OBVIOUS
<1>2. S \subseteq Nat /\ S # {}
  <2>1. e \in S
    BY <1>1
  <2> QED
    BY <1>0, <1>1, <2>1
<1>3. PICK m \in S : \A n \in S : m <= n
  BY <1>2, Least
<1>4. m \in 0 .. Len(p) /\ m \in 0 .. Len(q) /\ Below(q, m) # Below(p, m)
  BY <1>0, <1>1
<1>5. m # 0
  BY <1>4, BelowSteps
<1>6. q[m] = p[m]
  BY <1>0, <1>4, <1>5
<1>7. PICK x \in 0 .. Len(p) : x = p[m] /\ x < m /\ Below(p, m) = {x} \cup Below(p, x)
  BY <1>4, <1>5, BelowSteps
<1>8. Below(q, m) = {x} \cup Below(q, x)
  BY <1>4, <1>5, <1>6, <1>7, BelowSteps
<1>9. Below(q, x) = Below(p, x)
  <2>1. ~(m <= x)
    BY <1>0, <1>4, <1>7
  <2>2. x \notin S
    BY <1>3, <2>1
  <2> QED
    BY <1>1, <2>2
<1> QED
  BY <1>4, <1>7, <1>8, <1>9

-----------------------------------------------------------------------------
(* The ancestors of a snapshot, as a set *)

LEMMA ReachSelf ==
  ASSUME NEW s, NEW i, NEW n \in Nat, NEW known
  PROVE  i \in Reach(s, i, n, known)
<1>1. PICK W : Layers(s, i, n, known, W)
  BY ReachFcn
<1>2. /\ W[0] = {i} /\ Reach(s, i, n, known) = W[n]
      /\ \A k \in 1 .. n : W[k] = W[k - 1] \cup ParentsIn(s, W[k - 1] \cap known)
  BY <1>1 DEF Layers
<1> SUFFICES ASSUME i \notin W[n] PROVE FALSE
  BY <1>2
<1>3. PICK S : S = {k \in 0 .. n : i \notin W[k]}
  OBVIOUS
<1>4. PICK m \in S : \A k \in S : m <= k
  <2>1. n \in S /\ S \subseteq Nat
    BY <1>3
  <2>2. S # {}
    BY <2>1
  <2> QED
    BY <2>1, <2>2, Least
<1>5. m \in 0 .. n /\ i \notin W[m]
  BY <1>3
<1>6. m \in 1 .. n /\ m - 1 \in 0 .. n /\ ~(m <= m - 1)
  BY <1>2, <1>5
<1>7. i \in W[m - 1]
  BY <1>3, <1>4, <1>6
<1> QED
  BY <1>2, <1>5, <1>6, <1>7

LEMMA ReachLeast ==
  ASSUME NEW s, NEW i, NEW n \in Nat, NEW known, NEW C, i \in C,
         \A x \in C \cap known : s[x].parents \subseteq C
  PROVE  Reach(s, i, n, known) \subseteq C
<1>1. PICK W : Layers(s, i, n, known, W)
  BY ReachFcn
<1>2. /\ W[0] = {i} /\ Reach(s, i, n, known) = W[n]
      /\ \A k \in 1 .. n : W[k] = W[k - 1] \cup ParentsIn(s, W[k - 1] \cap known)
  BY <1>1 DEF Layers
<1> SUFFICES ASSUME ~(W[n] \subseteq C) PROVE FALSE
  BY <1>2
<1>3. PICK S : S = {k \in 0 .. n : ~(W[k] \subseteq C)}
  OBVIOUS
<1>4. PICK m \in S : \A k \in S : m <= k
  <2>1. n \in S /\ S \subseteq Nat
    BY <1>3
  <2>2. S # {}
    BY <2>1
  <2> QED
    BY <2>1, <2>2, Least
<1>5. m \in 0 .. n /\ ~(W[m] \subseteq C)
  BY <1>3
<1>6. m # 0
  BY <1>2, <1>5
<1>7. m \in 1 .. n /\ m - 1 \in 0 .. n /\ ~(m <= m - 1)
  BY <1>5, <1>6
<1>8. W[m - 1] \subseteq C
  BY <1>3, <1>4, <1>7
<1>9. ParentsIn(s, W[m - 1] \cap known) \subseteq C
  BY <1>8 DEF ParentsIn
<1> QED
  BY <1>2, <1>5, <1>7, <1>8, <1>9

LEMMA ReachClosed ==
  ASSUME NEW s, Graph(s), NEW i \in DOMAIN s, NEW x \in Reach(s, i, MaxSnaps, DOMAIN s)
  PROVE  /\ x \in DOMAIN s /\ x <= i
         /\ s[x].parents \subseteq Reach(s, i, MaxSnaps, DOMAIN s)
<1>0. /\ MaxSnaps \in Nat \ {0} /\ Len(s) \in Nat /\ DOMAIN s = 1 .. Len(s) /\ Len(s) <= MaxSnaps
      /\ i \in 1 .. Len(s) /\ i \in Nat
  BY Bounds DEF Graph
<1>1. PICK W : Layers(s, i, MaxSnaps, DOMAIN s, W)
  BY <1>0, ReachFcn
<1>2. /\ W[0] = {i} /\ Reach(s, i, MaxSnaps, DOMAIN s) = W[MaxSnaps]
      /\ \A k \in 1 .. MaxSnaps : W[k] = W[k - 1] \cup ParentsIn(s, W[k - 1] \cap DOMAIN s)
  BY <1>1 DEF Layers
<1> DEFINE Ok(k) == \A y \in W[k] : y \in 1 .. i /\ (y <= i - k \/ (k # 0 /\ y \in W[k - 1]))
<1>3. \A k \in 0 .. MaxSnaps : Ok(k)
  <2> SUFFICES ASSUME NEW k0 \in 0 .. MaxSnaps, ~Ok(k0) PROVE FALSE
    OBVIOUS
  <2>1. PICK S : S = {k \in 0 .. MaxSnaps : ~Ok(k)}
    OBVIOUS
  <2>2. PICK m \in S : \A k \in S : m <= k
    <3>1. k0 \in S /\ S \subseteq Nat
      BY <1>0, <2>1
    <3>2. S # {}
      BY <3>1
    <3> QED
      BY <3>1, <3>2, Least
  <2>3. m \in 0 .. MaxSnaps /\ ~Ok(m)
    BY <2>1
  <2>4. m # 0
    <3>1. Ok(0)
      BY <1>0, <1>2
    <3> QED
      BY <2>3, <3>1
  <2>5. m \in 1 .. MaxSnaps /\ m - 1 \in 0 .. MaxSnaps /\ ~(m <= m - 1)
    BY <1>0, <2>3, <2>4
  <2>6. Ok(m - 1)
    BY <2>1, <2>2, <2>5
  <2>7. ASSUME NEW y \in W[m]
        PROVE  y \in 1 .. i /\ (y <= i - m \/ y \in W[m - 1])
    <3>1. CASE y \in W[m - 1]
      BY <2>6, <3>1
    <3>2. CASE y \notin W[m - 1]
      <4>1. PICK z \in W[m - 1] \cap DOMAIN s : y \in s[z].parents
        BY <1>2, <2>5, <2>7, <3>2 DEF ParentsIn
      <4>2. y \in 1 .. z - 1 /\ z \in 1 .. i
        BY <2>6, <4>1 DEF Graph
      <4>3. z <= i - (m - 1)
        <5>1. CASE m - 1 = 0
          BY <1>0, <2>5, <4>2, <5>1
        <5>2. CASE m - 1 # 0 /\ z \in W[(m - 1) - 1]
          <6>1. m - 1 \in 1 .. MaxSnaps
            BY <1>0, <2>5, <5>2
          <6>2. W[m - 1] = W[(m - 1) - 1] \cup ParentsIn(s, W[(m - 1) - 1] \cap DOMAIN s)
            BY <1>2, <6>1
          <6>3. y \in ParentsIn(s, W[(m - 1) - 1] \cap DOMAIN s)
            BY <4>1, <5>2 DEF ParentsIn
          <6> QED
            BY <3>2, <6>2, <6>3
        <5> QED
          BY <2>6, <4>1, <5>1, <5>2
      <4> QED
        BY <1>0, <2>5, <4>2, <4>3
    <3> QED
      BY <3>1, <3>2
  <2> QED
    BY <2>3, <2>4, <2>7
<1>4. x \in W[MaxSnaps] /\ MaxSnaps \in 0 .. MaxSnaps /\ MaxSnaps \in 1 .. MaxSnaps
  BY <1>0, <1>2
<1>5. x \in 1 .. i /\ (x <= i - MaxSnaps \/ x \in W[MaxSnaps - 1])
  BY <1>3, <1>4
<1>6. x \in W[MaxSnaps - 1] /\ x \in DOMAIN s /\ x <= i
  BY <1>0, <1>5
<1>7. s[x].parents \subseteq ParentsIn(s, W[MaxSnaps - 1] \cap DOMAIN s)
  BY <1>6 DEF ParentsIn
<1> QED
  BY <1>2, <1>4, <1>6, <1>7

-----------------------------------------------------------------------------
(* Following *)

LEMMA UnderTrans ==
  ASSUME NEW p, History(p), NEW q, q \subseteq DOMAIN p, NEW x, NEW y \in 0 .. Len(p), NEW z \in 0 .. Len(p),
         Under(p, q, x, y), Under(p, q, y, z)
  PROVE  Under(p, q, x, z)
<1>0. DOMAIN p \subseteq 0 .. Len(p)
  BY DEF History
<1>1. CASE x = y \/ x \in q \/ \E e \in q : x \in Below(p, e)
  BY <1>1 DEF Under
<1>2. CASE x \in Below(p, y)
  <2>1. CASE y = z
    BY <1>2, <2>1 DEF Under
  <2>2. CASE y \in Below(p, z)
    <3>1. Below(p, y) \subseteq Below(p, z)
      BY <2>2, BelowFacts
    <3> QED
      BY <1>2, <3>1 DEF Under
  <2>3. CASE y \in q
    BY <1>2, <2>3 DEF Under
  <2>4. CASE \E e \in q : y \in Below(p, e)
    <3>1. PICK e \in q : y \in Below(p, e)
      BY <2>4
    <3>2. e \in 0 .. Len(p)
      BY <1>0
    <3>3. Below(p, y) \subseteq Below(p, e)
      BY <3>1, <3>2, BelowFacts
    <3> QED
      BY <1>2, <3>3 DEF Under
  <2> QED
    BY <2>1, <2>2, <2>3, <2>4 DEF Under
<1> QED
  BY <1>1, <1>2 DEF Under

LEMMA UnderZero ==
  ASSUME NEW p, History(p), NEW q, NEW y \in 0 .. Len(p)
  PROVE  Under(p, q, 0, y)
<1>1. y # 0 => 0 \in Below(p, y)
  BY BelowFacts
<1> QED
  BY <1>1 DEF Under

LEMMA FollowsTrans ==
  ASSUME NEW p, History(p), NEW q, q \subseteq DOMAIN p, NEW a, NEW b \in Files(p), NEW c \in Files(p),
         Follows(p, q, a, b), Follows(p, q, b, c)
  PROVE  Follows(p, q, a, c)
<1> SUFFICES ASSUME NEW f \in Fields PROVE Under(p, q, a[f], c[f])
  BY DEF Follows
<1>1. b[f] \in 0 .. Len(p) /\ c[f] \in 0 .. Len(p)
  BY DEF Files
<1>2. Under(p, q, a[f], b[f]) /\ Under(p, q, b[f], c[f])
  BY DEF Follows
<1> QED
  BY <1>1, <1>2, UnderTrans

LEMMA FollowsSelf ==
  ASSUME NEW p, NEW q, NEW a
  PROVE  Follows(p, q, a, a)
BY DEF Follows, Under

\* An edit that is neither overwritten nor given up is followed by itself only.
LEMMA LiveUnder ==
  ASSUME NEW p, History(p), NEW q, q \subseteq DOMAIN p, NEW e, e \notin Earlier(p), e \notin q,
         NEW y \in 0 .. Len(p), Under(p, q, e, y)
  PROVE  e = y
<1>1. e \notin Below(p, y)
  BY BelowFacts
<1>2. ASSUME NEW g \in q PROVE e \notin Below(p, g)
  <2>1. g \in 0 .. Len(p)
    BY DEF History
  <2> QED
    BY <2>1, BelowFacts
<1> QED
  BY <1>1, <1>2 DEF Under

\* History p2 with p's edits in it, and graph s2 with s's snapshots.
Longer(p, q, p2, q2) ==
  /\ History(p) /\ History(p2) /\ Len(p) <= Len(p2) /\ \A e \in DOMAIN p : p2[e] = p[e]
  /\ q \subseteq q2 /\ q \subseteq DOMAIN p /\ q2 \subseteq DOMAIN p2

Larger(s, s2) ==
  Graph(s) /\ Graph(s2) /\ Len(s) <= Len(s2) /\ \A i \in DOMAIN s : s2[i] = s[i]

LEMMA FollowsKept ==
  ASSUME NEW p, NEW q, NEW p2, NEW q2, Longer(p, q, p2, q2), NEW a, NEW b \in Files(p),
         Follows(p, q, a, b)
  PROVE  Follows(p2, q2, a, b)
<1>0. DOMAIN p \subseteq 0 .. Len(p)
  BY DEF Longer, History
<1>1. \A e \in 0 .. Len(p) : Below(p2, e) = Below(p, e)
  BY BelowKept DEF Longer
<1> SUFFICES ASSUME NEW f \in Fields PROVE Under(p2, q2, a[f], b[f])
  BY DEF Follows
<1>2. PICK y : y = b[f]
  OBVIOUS
<1>3. y \in 0 .. Len(p)
  BY <1>2 DEF Files
<1>4. PICK x : x = a[f]
  OBVIOUS
<1>5. Under(p, q, x, y)
  BY <1>2, <1>4 DEF Follows
<1>6. CASE x \in Below(p, y)
  BY <1>1, <1>2, <1>3, <1>4, <1>6 DEF Under
<1>7. CASE \E e \in q : x \in Below(p, e)
  <2>1. PICK e \in q : x \in Below(p, e)
    BY <1>7
  <2>2. e \in q2 /\ e \in 0 .. Len(p)
    BY <1>0 DEF Longer
  <2> QED
    BY <1>1, <1>2, <1>4, <2>1, <2>2 DEF Under
<1>8. CASE x = y \/ x \in q
  BY <1>2, <1>4, <1>8 DEF Under, Longer
<1> QED
  BY <1>5, <1>6, <1>7, <1>8 DEF Under

LEMMA FilesKept ==
  ASSUME NEW p, NEW q, NEW p2, NEW q2, Longer(p, q, p2, q2)
  PROVE  Files(p) \subseteq Files(p2)
<1>1. Len(p) \in Nat /\ Len(p2) \in Nat /\ Len(p) <= Len(p2)
  BY DEF Longer, History
<1>2. 0 .. Len(p) \subseteq 0 .. Len(p2)
  BY <1>1
<1> QED
  BY <1>2 DEF Files

-----------------------------------------------------------------------------
(* What a snapshot was built on *)

LEMMA LineTrans ==
  ASSUME NEW s, Graph(s), NEW j \in DOMAIN s, NEW i \in Line(s, j)
  PROVE  i \in DOMAIN s /\ i <= j /\ Line(s, i) \subseteq Line(s, j)
<1>1. MaxSnaps \in Nat
  BY Bounds
<1>2. \A x \in Line(s, j) : x \in DOMAIN s /\ x <= j /\ s[x].parents \subseteq Line(s, j)
  BY ReachClosed DEF Line
<1>3. PICK C : C = Line(s, j)
  OBVIOUS
<1>4. i \in C /\ \A x \in C \cap DOMAIN s : s[x].parents \subseteq C
  BY <1>2, <1>3
<1>5. Reach(s, i, MaxSnaps, DOMAIN s) \subseteq C
  BY <1>1, <1>4, ReachLeast
<1> QED
  BY <1>2, <1>3, <1>5 DEF Line

LEMMA LineSelf ==
  ASSUME NEW s, NEW i
  PROVE  i \in Line(s, i)
BY Bounds, ReachSelf DEF Line

LEMMA LineParent ==
  ASSUME NEW s, Graph(s), NEW j \in DOMAIN s, NEW i \in Line(s, j), NEW k \in s[i].parents
  PROVE  k \in Line(s, j)
BY ReachClosed DEF Line

LEMMA LineKept ==
  ASSUME NEW s, NEW s2, Larger(s, s2), NEW j \in DOMAIN s
  PROVE  Line(s, j) \subseteq Line(s2, j)
<1>0. MaxSnaps \in Nat
  BY Bounds
<1>1. DOMAIN s \subseteq DOMAIN s2
  BY DEF Larger, Graph
<1>2. PICK C : C = Line(s2, j)
  OBVIOUS
<1>3. j \in C
  BY <1>2, LineSelf
<1>4. ASSUME NEW x \in C \cap DOMAIN s PROVE s[x].parents \subseteq C
  <2>1. s2[x].parents \subseteq Line(s2, j)
    BY <1>1, <1>2, ReachClosed DEF Larger, Line
  <2> QED
    BY <1>2, <2>1 DEF Larger
<1>5. Reach(s, j, MaxSnaps, DOMAIN s) \subseteq C
  BY <1>0, <1>3, <1>4, ReachLeast
<1> QED
  BY <1>2, <1>5 DEF Line

LEMMA ReachFollows ==
  ASSUME NEW p, History(p), NEW q, q \subseteq DOMAIN p, NEW s, Graph(s), Filed(p, s), SnapsSound(p, q, s),
         NEW j \in DOMAIN s, NEW known, known \subseteq DOMAIN s, NEW i \in Reach(s, j, MaxSnaps, known)
  PROVE  i \in DOMAIN s /\ Follows(p, q, s[i].content, s[j].content)
<1>0. MaxSnaps \in Nat
  BY Bounds
<1>1. PICK C : C = {x \in DOMAIN s : Follows(p, q, s[x].content, s[j].content)}
  OBVIOUS
<1>2. j \in C
  BY <1>1, FollowsSelf
<1>3. ASSUME NEW x \in C \cap known PROVE s[x].parents \subseteq C
  <2> SUFFICES ASSUME NEW y \in s[x].parents PROVE y \in C
    OBVIOUS
  <2>1. x \in DOMAIN s /\ Follows(p, q, s[x].content, s[j].content)
    BY <1>1
  <2>2. y \in DOMAIN s
    BY <2>1 DEF Graph
  <2>3. Follows(p, q, s[y].content, s[x].content)
    BY <2>1 DEF SnapsSound
  <2>4. s[x].content \in Files(p) /\ s[j].content \in Files(p)
    BY <2>1 DEF Filed
  <2>5. Follows(p, q, s[y].content, s[j].content)
    BY <2>1, <2>3, <2>4, FollowsTrans
  <2> QED
    BY <1>1, <2>2, <2>5
<1>4. Reach(s, j, MaxSnaps, known) \subseteq C
  BY <1>0, <1>2, <1>3, ReachLeast
<1> QED
  BY <1>1, <1>4

\* Every snapshot of a set is followed by one that no other of them was built on.
LEMMA HeadFollows ==
  ASSUME NEW p, History(p), NEW q, q \subseteq DOMAIN p, NEW s, Graph(s), Filed(p, s), SnapsSound(p, q, s),
         NEW S, S \subseteq DOMAIN s, NEW k \in S
  PROVE  \E h \in S \ ParentsIn(s, S) : Follows(p, q, s[k].content, s[h].content)
<1>0. Len(s) \in Nat /\ DOMAIN s = 1 .. Len(s)
  BY DEF Graph
<1>1. PICK T : T = {j \in S : Follows(p, q, s[k].content, s[j].content)}
  OBVIOUS
<1>2. k \in T
  BY <1>1, FollowsSelf
<1>3. PICK h \in T : \A j \in T : j <= h
  <2>1. T # {} /\ T \subseteq 0 .. Len(s)
    BY <1>0, <1>1, <1>2
  <2> QED
    BY <1>0, <2>1, Greatest
<1>4. h \in S /\ Follows(p, q, s[k].content, s[h].content)
  BY <1>1
<1>5. ASSUME h \in ParentsIn(s, S) PROVE FALSE
  <2>1. PICK j \in S : h \in s[j].parents
    BY <1>5 DEF ParentsIn
  <2>2. j \in DOMAIN s /\ h \in DOMAIN s /\ h < j
    BY <1>0, <1>4, <2>1 DEF Graph
  <2>3. Follows(p, q, s[h].content, s[j].content)
    BY <2>1, <2>2 DEF SnapsSound
  <2>4. s[h].content \in Files(p) /\ s[j].content \in Files(p)
    BY <2>2 DEF Filed
  <2>5. Follows(p, q, s[k].content, s[j].content)
    BY <1>4, <2>3, <2>4, FollowsTrans
  <2>6. j \in T
    BY <1>1, <2>1, <2>5
  <2>7. j <= h
    BY <1>3, <2>6
  <2> QED
    BY <1>0, <2>2, <2>7
<1> QED
  BY <1>4, <1>5

-----------------------------------------------------------------------------
(* What a step keeps *)

LEMMA BasedKept ==
  ASSUME NEW p, NEW q, NEW p2, NEW q2, Longer(p, q, p2, q2),
         NEW s, NEW s2, Larger(s, s2), Filed(p, s),
         NEW ck, NEW v \in Files(p), NEW v2 \in Files(p2), v2 # None,
         Based(p, q, s, ck, v), Follows(p2, q2, v, v2)
  PROVE  Based(p2, q2, s2, ck, v2)
<1>1. DOMAIN s \subseteq DOMAIN s2 /\ \A i \in DOMAIN s : s2[i] = s[i]
  BY DEF Larger, Graph
<1>2. ASSUME NEW h \in ck.heads PROVE Follows(p2, q2, s2[h].content, v2)
  <2>1. h \in DOMAIN s /\ Follows(p, q, s[h].content, v)
    BY DEF Based
  <2>2. Follows(p2, q2, s[h].content, v)
    BY <2>1, FollowsKept
  <2>3. v \in Files(p2)
    BY FilesKept
  <2>4. History(p2) /\ q2 \subseteq DOMAIN p2
    BY DEF Longer
  <2>5. Follows(p2, q2, s[h].content, v2)
    BY <2>2, <2>3, <2>4, FollowsTrans
  <2> QED
    BY <1>1, <2>1, <2>5
<1>3. ck.heads \subseteq DOMAIN s2
  BY <1>1 DEF Based
<1>4. ck.rev # None => \E h \in DOMAIN s2 : ck.heads = {h} /\ ck.rev = s2[h].content
  BY <1>1 DEF Based
<1> QED
  BY <1>2, <1>3, <1>4 DEF Based

\* A device that does nothing stays sound.
LEMMA SoundKept ==
  ASSUME NEW p, NEW q, NEW p2, NEW q2, Longer(p, q, p2, q2),
         NEW s, NEW s2, Larger(s, s2), Filed(p, s),
         NEW v, NEW o, NEW D, NEW r, Sound(p, q, s, v, o, D, r)
  PROVE  Sound(p2, q2, s2, v, o, D, r)
<1>1. DOMAIN s \subseteq DOMAIN s2 /\ \A i \in DOMAIN s : s2[i] = s[i]
  BY DEF Larger, Graph
<1>2. v \in Files(p) \cup {None} /\ D \in DiskType /\ r \in RunType
  BY DEF Sound
<1>3. v \in Files(p2) \cup {None}
  BY <1>2, FilesKept
<1>4. Named(s2, v, o, D, r)
  <2>1. Named(s, v, o, D, r)
    BY DEF Sound
  <2> QED
    BY <1>1, <2>1 DEF Named
<1>5. Follows(p2, q2, v, v)
  BY FollowsSelf
<1>6. ASSUME NEW ck, Based(p, q, s, ck, v) PROVE Based(p2, q2, s2, ck, v)
  <2>1. v # None
    BY <1>6 DEF Based
  <2>2. v \in Files(p) /\ v \in Files(p2)
    BY <1>2, <1>3, <2>1
  <2> QED
    BY <1>5, <1>6, <2>1, <2>2, BasedKept
<1>7. DiskSound(p2, q2, s2, v, D)
  <2>1. DiskSound(p, q, s, v, D)
    BY DEF Sound
  <2>2. D.ck # None => Based(p2, q2, s2, D.ck, v)
    BY <1>6, <2>1 DEF DiskSound
  <2>3. ASSUME NEW i \in D.outbox PROVE v # None /\ Follows(p2, q2, s2[i].content, v)
    <3>1. v # None /\ Follows(p, q, s[i].content, v)
      BY <2>1 DEF DiskSound
    <3>2. v \in Files(p)
      BY <1>2, <3>1
    <3>3. Follows(p2, q2, s[i].content, v)
      BY <3>1, <3>2, FollowsKept
    <3>4. i \in DOMAIN s
      BY DEF Sound, Named
    <3> QED
      BY <1>1, <3>1, <3>3, <3>4
  <2> QED
    BY <2>2, <2>3 DEF DiskSound
<1>8. RunSound(p2, q2, s2, v, o, r)
  <2>1. RunSound(p, q, s, v, o, r)
    BY DEF Sound
  <2> QED
    BY <1>6, <2>1 DEF RunSound
<1> QED
  BY <1>2, <1>3, <1>4, <1>7, <1>8 DEF Sound

LEMMA ListedKept ==
  ASSUME NEW s, NEW s2, Larger(s, s2), NEW R, NEW R2, R \subseteq R2, R \subseteq DOMAIN s, NEW r, Listed(s, R, r)
  PROVE  Listed(s2, R2, r)
<1>1. \A j \in R : j \in R2 /\ Line(s, j) \subseteq Line(s2, j)
  BY LineKept
<1> QED
  BY <1>1 DEF Listed

LEMMA SnapsKept ==
  ASSUME NEW p, NEW q, NEW p2, NEW q2, Longer(p, q, p2, q2),
         NEW s, NEW s2, Larger(s, s2), Filed(p, s), SnapsSound(p, q, s),
         \A j \in DOMAIN s2 \ DOMAIN s : \A i \in s2[j].parents : Follows(p2, q2, s2[i].content, s2[j].content)
  PROVE  SnapsSound(p2, q2, s2)
<1> SUFFICES ASSUME NEW j \in DOMAIN s2, NEW i \in s2[j].parents
             PROVE  Follows(p2, q2, s2[i].content, s2[j].content)
  BY DEF SnapsSound
<1>1. CASE j \in DOMAIN s
  <2>1. s2[j] = s[j]
    BY <1>1 DEF Larger
  <2>2. i \in DOMAIN s
    BY <1>1, <2>1 DEF Larger, Graph
  <2>3. s2[i] = s[i]
    BY <2>2 DEF Larger
  <2>4. Follows(p, q, s[i].content, s[j].content)
    BY <1>1, <2>1 DEF SnapsSound
  <2>5. s[j].content \in Files(p)
    BY <1>1 DEF Filed
  <2>6. Follows(p2, q2, s[i].content, s[j].content)
    BY <2>4, <2>5, FollowsKept
  <2> QED
    BY <2>1, <2>3, <2>6
<1>2. CASE j \notin DOMAIN s
  BY <1>2
<1> QED
  BY <1>1, <1>2

-----------------------------------------------------------------------------
(* What it takes for a step of device d to keep the invariant *)

LEMMA DeviceFacts ==
  ASSUME VaultInv, NEW d \in Devices
  PROVE  /\ Sound(prior, dropped, snaps, vault[d], open[d], disk[d], run[d])
         /\ Listed(snaps, remote, run[d])
         /\ History(prior) /\ Len(prior) <= MaxEdits /\ dropped \subseteq DOMAIN prior
         /\ Graph(snaps) /\ Filed(prior, snaps) /\ SnapsSound(prior, dropped, snaps)
         /\ remote \subseteq DOMAIN snaps /\ faults \in 0 .. MaxFaults
         /\ Longer(prior, dropped, prior, dropped) /\ Larger(snaps, snaps)
<1>1. Types /\ DevicesSound /\ SnapsSound(prior, dropped, snaps)
  BY DEF VaultInv
<1>2. /\ History(prior) /\ Len(prior) <= MaxEdits /\ dropped \subseteq DOMAIN prior
      /\ Graph(snaps) /\ Filed(prior, snaps) /\ remote \subseteq DOMAIN snaps /\ faults \in 0 .. MaxFaults
  BY <1>1 DEF Types
<1>3. Longer(prior, dropped, prior, dropped) /\ Larger(snaps, snaps)
  BY <1>2 DEF Longer, Larger, History, Graph
<1> QED
  BY <1>1, <1>2, <1>3 DEF DevicesSound

\* Only device d moves.
Framed(d) ==
  /\ vault' = [e \in Devices |-> vault'[e]] /\ disk' = [e \in Devices |-> disk'[e]]
  /\ run' = [e \in Devices |-> run'[e]] /\ open' \in [Devices -> BOOLEAN]
  /\ \A e \in Devices \ {d} :
       vault'[e] = vault[e] /\ open'[e] = open[e] /\ disk'[e] = disk[e] /\ run'[e] = run[e]

\* The history and the graph only grow, and all stays in its type.
Grown ==
  /\ Longer(prior, dropped, prior', dropped') /\ Len(prior') <= MaxEdits
  /\ Larger(snaps, snaps') /\ Filed(prior', snaps')
  /\ remote' \subseteq DOMAIN snaps' /\ faults' \in 0 .. MaxFaults

Sound2(d) == Sound(prior', dropped', snaps', vault'[d], open'[d], disk'[d], run'[d])

\* The vault of d takes up what it held.
Onward(d) == vault[d] # None => vault'[d] # None /\ Follows(prior', dropped', vault[d], vault'[d])

LEMMA DevicesKept ==
  ASSUME VaultInv, NEW d \in Devices, Framed(d), Grown, Sound2(d),
         \A e \in Devices : Listed(snaps', remote', run'[e])
  PROVE  Types' /\ DevicesSound'
<1>1. Types'
  BY DEF Grown, Longer, Larger, Framed, Types
<1>2. ASSUME NEW e \in Devices
      PROVE  Sound(prior', dropped', snaps', vault'[e], open'[e], disk'[e], run'[e])
  <2>1. CASE e = d
    BY <2>1 DEF Sound2
  <2>2. CASE e # d
    <3>1. Sound(prior, dropped, snaps, vault[e], open[e], disk[e], run[e]) /\ Filed(prior, snaps)
      BY DeviceFacts
    <3>2. Longer(prior, dropped, prior', dropped') /\ Larger(snaps, snaps')
      BY DEF Grown
    <3>3. Sound(prior', dropped', snaps', vault[e], open[e], disk[e], run[e])
      BY <3>1, <3>2, SoundKept
    <3> QED
      BY <2>2, <3>3 DEF Framed
  <2> QED
    BY <2>1, <2>2
<1>3. DevicesSound'
  <2>1. /\ vault' = [e \in Devices |-> vault'[e]] /\ disk' = [e \in Devices |-> disk'[e]]
        /\ run' = [e \in Devices |-> run'[e]]
    BY DEF Framed
  <2> QED
    BY <1>2, <2>1 DEF DevicesSound
<1> QED
  BY <1>1, <1>3

LEMMA AllListed ==
  ASSUME VaultInv, NEW d \in Devices, Framed(d), Grown, remote \subseteq remote',
         Listed(snaps', remote', run'[d])
  PROVE  \A e \in Devices : Listed(snaps', remote', run'[e])
<1> SUFFICES ASSUME NEW e \in Devices PROVE Listed(snaps', remote', run'[e])
  OBVIOUS
<1>1. CASE e = d
  BY <1>1
<1>2. CASE e # d
  <2>1. Listed(snaps, remote, run[e]) /\ remote \subseteq DOMAIN snaps
    BY DeviceFacts
  <2>2. Larger(snaps, snaps')
    BY DEF Grown
  <2>3. Listed(snaps', remote', run[e])
    BY <2>1, <2>2, ListedKept
  <2> QED
    BY <1>2, <2>3 DEF Framed
<1> QED
  BY <1>1, <1>2

\* No new content, no new claim.
LEMMA FieldsKept ==
  ASSUME FieldsSound, Contents' \subseteq Contents
  PROVE  FieldsSound'
BY DEF FieldsSound

LEMMA LiveFacts ==
  ASSUME NEW e \in Live
  PROVE  e \in DOMAIN prior /\ e \notin Earlier(prior) /\ e \notin dropped
BY DEF Live, Earlier

\* An edit that a followed content holds is in the content that follows.
LEMMA LiveFollows ==
  ASSUME NEW p, History(p), NEW q, q \subseteq DOMAIN p, NEW e, e \notin Earlier(p), e \notin q,
         NEW a, NEW b \in Files(p), Follows(p, q, a, b), e \in Values(a)
  PROVE  e \in Values(b)
<1>1. PICK f \in Fields : e = a[f]
  BY DEF Values
<1>2. PICK y : y = b[f]
  OBVIOUS
<1>3. y \in 0 .. Len(p) /\ Under(p, q, e, y)
  BY <1>1, <1>2 DEF Files, Follows
<1>4. e = y
  BY <1>3, LiveUnder
<1> QED
  BY <1>2, <1>4 DEF Values

LEMMA StillThere ==
  ASSUME VaultInv, NEW d \in Devices, Framed(d), Grown, Sound2(d), Onward(d),
         NEW e \in Live', NEW c \in Devices, vault[c] # None, e \in Values(vault[c])
  PROVE  vault'[c] # None /\ e \in Values(vault'[c])
<1>1. CASE c # d
  BY <1>1 DEF Framed
<1>2. CASE c = d
  <2>1. vault'[d] # None /\ Follows(prior', dropped', vault[d], vault'[d])
    BY <1>2 DEF Onward
  <2>2. vault'[d] \in Files(prior')
    BY <2>1 DEF Sound2, Sound
  <2>3. e \notin Earlier(prior') /\ e \notin dropped'
    BY DEF Live, Earlier
  <2>4. History(prior') /\ dropped' \subseteq DOMAIN prior'
    BY DEF Grown, Longer
  <2>5. e \in Values(vault[d])
    BY <1>2
  <2>6. e \in Values(vault'[d])
    <3>1. PICK p, q, a, b : p = prior' /\ q = dropped' /\ a = vault[d] /\ b = vault'[d]
      OBVIOUS
    <3>2. b \in Files(p) /\ History(p) /\ q \subseteq DOMAIN p /\ Follows(p, q, a, b)
      BY <2>1, <2>2, <2>4, <3>1
    <3>3. e \notin Earlier(p) /\ e \notin q /\ e \in Values(a)
      BY <2>3, <2>5, <3>1
    <3>4. e \in Values(b)
      BY <3>2, <3>3, LiveFollows
    <3> QED
      BY <3>1, <3>4
  <2> QED
    BY <1>2, <2>1, <2>6
<1> QED
  BY <1>1, <1>2

LEMMA EditsKept ==
  ASSUME VaultInv, NEW d \in Devices, Framed(d), Grown, Sound2(d), Onward(d), remote \subseteq remote',
         \A e \in Live' : e \in Live \/ (vault'[d] # None /\ e \in Values(vault'[d]))
  PROVE  EditsSound'
<1> SUFFICES ASSUME NEW e \in Live'
             PROVE  \/ \E c \in Devices : vault'[c] # None /\ e \in Values(vault'[c])
                    \/ \E i \in Sent' : e \in Values(snaps'[i].content)
  BY DEF EditsSound
<1>1. CASE e \notin Live
  BY <1>1
<1>2. CASE e \in Live
  <2>1. CASE \E c \in Devices : vault[c] # None /\ e \in Values(vault[c])
    BY <2>1, StillThere
  <2>2. CASE \E i \in Sent : e \in Values(snaps[i].content)
    <3>1. PICK i \in Sent : e \in Values(snaps[i].content)
      BY <2>2
    <3>2. CASE i \in remote
      <4>1. i \in Sent'
        BY <3>2 DEF Sent
      <4>2. i \in DOMAIN snaps
        BY <3>2, DeviceFacts
      <4>3. snaps'[i] = snaps[i]
        BY <4>2 DEF Grown, Larger
      <4> QED
        BY <3>1, <4>1, <4>3
    <3>3. CASE i \notin remote
      <4>1. PICK c \in Devices : i \in disk[c].outbox
        BY <3>1, <3>3 DEF Sent
      <4>2. Sound(prior, dropped, snaps, vault[c], open[c], disk[c], run[c])
            /\ History(prior) /\ dropped \subseteq DOMAIN prior
        BY DeviceFacts
      <4>3. vault[c] # None /\ Follows(prior, dropped, snaps[i].content, vault[c])
        BY <4>1, <4>2 DEF Sound, DiskSound
      <4>4. vault[c] \in Files(prior)
        BY <4>2, <4>3 DEF Sound
      <4>5. e \notin Earlier(prior) /\ e \notin dropped
        BY <1>2, LiveFacts
      <4>6. e \in Values(vault[c])
        BY <3>1, <4>2, <4>3, <4>4, <4>5, LiveFollows
      <4> QED
        BY <4>3, <4>6, StillThere
    <3> QED
      BY <3>2, <3>3
  <2> QED
    BY <1>2, <2>1, <2>2 DEF VaultInv, EditsSound
<1> QED
  BY <1>1, <1>2

-----------------------------------------------------------------------------
(* Two kinds of step *)

\* The step writes nothing that others build on.
LEMMA CalmStep ==
  ASSUME VaultInv, NEW d \in Devices, Framed(d), UNCHANGED <<snaps, prior, dropped, vault>>,
         remote \subseteq remote', remote' \subseteq DOMAIN snaps, faults' \in 0 .. MaxFaults,
         Sound(prior, dropped, snaps, vault[d], open'[d], disk'[d], run'[d]),
         Listed(snaps, remote', run'[d])
  PROVE  VaultInv' /\ Onward(d)
<1>1. Grown
  BY DeviceFacts DEF Grown
<1>2. Sound2(d)
  BY DEF Sound2
<1>3. Onward(d)
  BY FollowsSelf DEF Onward
<1>4. Listed(snaps', remote', run'[d])
  OBVIOUS
<1>5. Types' /\ DevicesSound'
  <2>1. \A e \in Devices : Listed(snaps', remote', run'[e])
    BY <1>1, <1>4, AllListed
  <2> QED
    BY <1>1, <1>2, <2>1, DevicesKept
<1>6. EditsSound'
  <2>1. Live' = Live
    BY DEF Live
  <2> QED
    BY <1>1, <1>2, <1>3, <2>1, EditsKept
<1>7. SnapsSound(prior', dropped', snaps')
  BY DeviceFacts
<1>8. FieldsSound'
  <2>1. Contents' = Contents
    BY DEF Contents
  <2>2. FieldsSound
    BY DEF VaultInv
  <2> QED
    BY <2>1, <2>2, FieldsKept
<1> QED
  BY <1>3, <1>5, <1>6, <1>7, <1>8 DEF VaultInv

LEMMA WholeStep ==
  ASSUME VaultInv, NEW d \in Devices, Framed(d), Grown, Sound2(d), Onward(d), remote' = remote,
         Listed(snaps', remote', run'[d]), FieldsSound',
         \A j \in DOMAIN snaps' \ DOMAIN snaps : \A i \in snaps'[j].parents :
           Follows(prior', dropped', snaps'[i].content, snaps'[j].content),
         \A e \in Live' : e \in Live \/ (vault'[d] # None /\ e \in Values(vault'[d]))
  PROVE  VaultInv'
<1>1. \A e \in Devices : Listed(snaps', remote', run'[e])
  BY AllListed
<1>2. Types' /\ DevicesSound'
  BY <1>1, DevicesKept
<1>3. EditsSound'
  BY EditsKept
<1>4. SnapsSound(prior', dropped', snaps')
  <2>1. Longer(prior, dropped, prior', dropped') /\ Larger(snaps, snaps')
    BY DEF Grown
  <2>2. Filed(prior, snaps) /\ SnapsSound(prior, dropped, snaps)
    BY DeviceFacts
  <2> QED
    BY <2>1, <2>2, SnapsKept
<1> QED
  BY <1>2, <1>3, <1>4 DEF VaultInv

-----------------------------------------------------------------------------
(* The steps of a run *)

\* g2 differs from g at d at most.
At(d, g, g2) == g2 = [e \in Devices |-> g2[e]] /\ \A e \in Devices \ {d} : g2[e] = g[e]

LEMMA AtOne ==
  ASSUME NEW d, NEW g, NEW g2, g = [e \in Devices |-> g[e]],
         g2 = g \/ \E x : g2 = [g EXCEPT ![d] = x]
  PROVE  At(d, g, g2)
<1>1. CASE g2 = g
  BY <1>1 DEF At
<1>2. CASE \E x : g2 = [g EXCEPT ![d] = x]
  <2>1. PICK x : g2 = [g EXCEPT ![d] = x]
    BY <1>2
  <2>2. g2 = [e \in Devices |-> IF e = d THEN x ELSE g[e]]
    BY <2>1
  <2> QED
    BY <2>2 DEF At
<1> QED
  BY <1>1, <1>2

LEMMA FrameFacts ==
  ASSUME VaultInv, NEW d \in Devices,
         vault' = vault \/ \E x : vault' = [vault EXCEPT ![d] = x],
         disk' = disk \/ \E x : disk' = [disk EXCEPT ![d] = x],
         run' = run \/ \E x : run' = [run EXCEPT ![d] = x],
         open' = open \/ \E x \in BOOLEAN : open' = [open EXCEPT ![d] = x]
  PROVE  Framed(d)
<1>1. /\ vault = [e \in Devices |-> vault[e]] /\ disk = [e \in Devices |-> disk[e]]
      /\ run = [e \in Devices |-> run[e]]
  BY DEF VaultInv, DevicesSound
<1>2. At(d, vault, vault') /\ At(d, disk, disk') /\ At(d, run, run')
  BY <1>1, AtOne
<1>3. open \in [Devices -> BOOLEAN]
  BY DEF VaultInv, Types
<1>4. open' \in [Devices -> BOOLEAN] /\ \A e \in Devices \ {d} : open'[e] = open[e]
  BY <1>3
<1> QED
  BY <1>2, <1>4 DEF Framed, At

LEMMA NoRunType == NoRun \in RunType
<1>1. /\ NoRun.pc = "idle" /\ NoRun.last = FALSE /\ NoRun.todo = {} /\ NoRun.listed = {}
      /\ NoRun.heads = {} /\ NoRun.local = None /\ NoRun.ck = None /\ NoRun.sending = None
  BY DEF NoRun
<1> QED
  BY DEF NoRun, RunType

\* What is known of a run that does not hold the mutex.
Outside(s, R, r) ==
  /\ r \in RunType /\ r.pc \notin {"merge", "save"}
  /\ r.todo \subseteq DOMAIN s /\ r.listed \subseteq DOMAIN s /\ r.heads \subseteq DOMAIN s
  /\ r.sending \in DOMAIN s \cup {None} /\ (r.sending # None => r.pc = "flush")
  /\ Listed(s, R, r)

LEMMA NoRunOutside ==
  ASSUME NEW s, NEW R
  PROVE  Outside(s, R, NoRun)
<1>1. NoRun.pc = "idle" /\ NoRun.todo = {} /\ NoRun.listed = {} /\ NoRun.heads = {} /\ NoRun.sending = None
  BY DEF NoRun
<1> QED
  BY <1>1, NoRunType DEF Outside, Listed

LEMMA RunOutside ==
  ASSUME NEW p, NEW q, NEW s, NEW v, NEW o, NEW o2, NEW D, NEW r, NEW R, NEW r2,
         Sound(p, q, s, v, o, D, r), Outside(s, R, r2), o2 => v # None
  PROVE  Sound(p, q, s, v, o2, D, r2)
<1>1. v \in Files(p) \cup {None} /\ D \in DiskType /\ Named(s, v, o, D, r) /\ DiskSound(p, q, s, v, D)
  BY DEF Sound
<1>2. Named(s, v, o2, D, r2)
  BY <1>1 DEF Named, Outside
<1>3. RunSound(p, q, s, v, o2, r2)
  BY DEF RunSound, Outside
<1> QED
  BY <1>1, <1>2, <1>3 DEF Sound, Outside

LEMMA RunMoves ==
  ASSUME VaultInv, NEW d \in Devices, NEW r2, UNCHANGED <<snaps, remote, vault, disk, prior, dropped>>,
         run' = [run EXCEPT ![d] = r2], open' = open \/ open' = [open EXCEPT ![d] = FALSE],
         faults' \in 0 .. MaxFaults, Outside(snaps, remote, r2)
  PROVE  VaultInv' /\ Onward(d)
<1>1. Framed(d)
  <2>1. vault' = vault /\ disk' = disk
    OBVIOUS
  <2>2. \E x : run' = [run EXCEPT ![d] = x]
    OBVIOUS
  <2>3. open' = open \/ \E x \in BOOLEAN : open' = [open EXCEPT ![d] = x]
    OBVIOUS
  <2> QED
    BY <2>1, <2>2, <2>3, FrameFacts
<1>2. run'[d] = r2
  BY DEF VaultInv, DevicesSound
<1>3. Sound(prior, dropped, snaps, vault[d], open[d], disk[d], run[d]) /\ remote \subseteq DOMAIN snaps
  BY DeviceFacts
<1>4. open'[d] => open[d]
  BY DEF VaultInv, Types
<1>5. open'[d] => vault[d] # None
  BY <1>3, <1>4 DEF Sound, Named
<1>6. Sound(prior, dropped, snaps, vault[d], open'[d], disk[d], r2)
  BY <1>3, <1>5, RunOutside
<1>7. disk'[d] = disk[d] /\ remote \subseteq remote' /\ remote' \subseteq DOMAIN snaps
  BY <1>3
<1>8. Sound(prior, dropped, snaps, vault[d], open'[d], disk'[d], run'[d])
  BY <1>2, <1>6, <1>7
<1>9. Listed(snaps, remote', run'[d])
  BY <1>2 DEF Outside
<1> QED
  BY <1>1, <1>7, <1>8, <1>9, CalmStep

LEMMA RunStops ==
  ASSUME VaultInv, NEW d \in Devices, UNCHANGED <<snaps, remote, vault, disk, prior, dropped>>, End(d),
         open' = open \/ open' = [open EXCEPT ![d] = FALSE], faults' \in 0 .. MaxFaults
  PROVE  VaultInv' /\ Onward(d)
<1>1. run' = [run EXCEPT ![d] = NoRun]
  BY DEF End
<1> QED
  BY <1>1, NoRunOutside, RunMoves

LEMMA HeadMissingKeeps ==
  ASSUME VaultInv, NEW d \in Devices, HeadMissing(d)
  PROVE  VaultInv' /\ Onward(d)
<1>1. faults' \in 0 .. MaxFaults
  BY DeviceFacts DEF HeadMissing
<1>2. UNCHANGED <<snaps, remote, vault, disk, prior, dropped>> /\ End(d) /\ open' = open
  BY DEF HeadMissing
<1> QED
  BY <1>1, <1>2, RunStops

LEMMA Faulty ==
  ASSUME VaultInv, NEW d \in Devices, faults < MaxFaults, faults' = faults + 1
  PROVE  faults' \in 0 .. MaxFaults
<1>1. faults \in 0 .. MaxFaults /\ MaxFaults \in Nat
  BY Bounds, DeviceFacts
<1> QED
  BY <1>1

LEMMA RunFailsKeeps ==
  ASSUME VaultInv, NEW d \in Devices, RunFails(d)
  PROVE  VaultInv' /\ Onward(d)
<1>1. faults' \in 0 .. MaxFaults
  BY Faulty DEF RunFails
<1>2. UNCHANGED <<snaps, remote, vault, disk, prior, dropped>> /\ End(d) /\ open' = open
  BY DEF RunFails
<1> QED
  BY <1>1, <1>2, RunStops

LEMMA CrashKeeps ==
  ASSUME VaultInv, NEW d \in Devices, Crash(d)
  PROVE  VaultInv' /\ Onward(d)
<1>1. faults' \in 0 .. MaxFaults
  BY Faulty DEF Crash
<1>2. UNCHANGED <<snaps, remote, vault, disk, prior, dropped>> /\ End(d)
      /\ open' = [open EXCEPT ![d] = FALSE]
  BY DEF Crash
<1> QED
  BY <1>1, <1>2, RunStops

LEMMA RunFacts ==
  ASSUME VaultInv, NEW d \in Devices
  PROVE  /\ run[d] \in RunType /\ disk[d] \in DiskType
         /\ run[d].pc \in {"idle", "flush", "list", "synchronize", "merge", "save", "prune", "delete"}
         /\ run[d].last \in BOOLEAN
         /\ run[d].todo \subseteq Ids /\ run[d].listed \subseteq Ids /\ run[d].heads \subseteq Ids
         /\ run[d].local \in Ids \cup {None} /\ run[d].ck \in Checkpoint \cup {None}
         /\ run[d].sending \in Ids \cup {None}
         /\ run[d].todo \subseteq DOMAIN snaps /\ run[d].listed \subseteq DOMAIN snaps
         /\ run[d].heads \subseteq DOMAIN snaps
         /\ run[d].sending \in DOMAIN snaps \cup {None}
         /\ run[d].sending # None => run[d].pc = "flush"
         /\ DOMAIN snaps \subseteq Ids
<1>1. Sound(prior, dropped, snaps, vault[d], open[d], disk[d], run[d]) /\ Graph(snaps)
  BY DeviceFacts
<1>2. run[d] \in RunType /\ disk[d] \in DiskType /\ Named(snaps, vault[d], open[d], disk[d], run[d])
  BY <1>1 DEF Sound
<1>3. DOMAIN snaps \subseteq Ids
  BY <1>1, Bounds DEF Graph, Ids
<1> QED
  BY <1>2, <1>3 DEF RunType, Named

LEMMA FlushReadKeeps ==
  ASSUME VaultInv, NEW d \in Devices, FlushRead(d)
  PROVE  VaultInv' /\ Onward(d)
<1>1. PICK i \in run[d].todo :
        run' = [run EXCEPT ![d] = IF i \in disk[d].outbox
                                  THEN [run[d] EXCEPT !.sending = i, !.todo = @ \ {i}] ELSE NoRun]
  BY DEF FlushRead
<1>2. UNCHANGED <<snaps, remote, vault, open, disk, prior, dropped, faults>> /\ run[d].pc = "flush"
  BY DEF FlushRead
<1>3. faults' \in 0 .. MaxFaults
  BY <1>2, DeviceFacts
<1>4. CASE i \notin disk[d].outbox
  <2>1. End(d)
    BY <1>1, <1>4 DEF End
  <2> QED
    BY <1>2, <1>3, <2>1, RunStops
<1>5. CASE i \in disk[d].outbox
  <2>1. PICK r2 : r2 = [run[d] EXCEPT !.sending = i, !.todo = @ \ {i}]
    OBVIOUS
  <2>2. run' = [run EXCEPT ![d] = r2]
    BY <1>1, <1>5, <2>1
  <2>3. i \in DOMAIN snaps /\ i \in Ids
    BY RunFacts
  <2>4. r2 \in RunType
    BY <2>1, <2>3, RunFacts DEF RunType
  <2>5. r2.pc = "flush" /\ r2.todo \subseteq run[d].todo /\ r2.listed = run[d].listed
        /\ r2.heads = run[d].heads /\ r2.sending = i
    BY <1>2, <2>1, RunFacts DEF RunType
  <2>6. r2.todo \subseteq DOMAIN snaps /\ r2.listed \subseteq DOMAIN snaps /\ r2.heads \subseteq DOMAIN snaps
        /\ r2.sending \in DOMAIN snaps \cup {None}
    BY <2>3, <2>5, RunFacts
  <2>7. Listed(snaps, remote, r2)
    BY <1>2, <2>5, DeviceFacts DEF Listed
  <2>8. Outside(snaps, remote, r2)
    BY <2>4, <2>5, <2>6, <2>7 DEF Outside
  <2> QED
    BY <1>2, <1>3, <2>2, <2>8, RunMoves
<1> QED
  BY <1>4, <1>5

LEMMA FlushedOutside ==
  ASSUME NEW s, NEW R, NEW r, Outside(s, R, r), r.pc = "flush"
  PROVE  Outside(s, R, Flushed(r))
<1>1. r \in RunType /\ r.todo \subseteq DOMAIN s /\ r.listed \subseteq DOMAIN s /\ r.heads \subseteq DOMAIN s
      /\ r.sending \in DOMAIN s \cup {None} /\ \A i \in r.listed : \E j \in R : i \in Line(s, j)
  BY DEF Outside, Listed
<1>2. ASSUME NEW pc \in {"list", "prune"}, r.sending = None PROVE Outside(s, R, [r EXCEPT !.pc = pc])
  <2>1. PICK r2 : r2 = [r EXCEPT !.pc = pc]
    OBVIOUS
  <2>2. r2 \in RunType
    BY <1>1, <2>1 DEF RunType
  <2>3. r2.pc = pc /\ r2.todo = r.todo /\ r2.listed = r.listed /\ r2.heads = r.heads /\ r2.sending = r.sending
    BY <1>1, <2>1 DEF RunType
  <2>4. Listed(s, R, r2)
    BY <1>1, <2>3 DEF Listed
  <2>5. r2.pc \notin {"merge", "save"}
    BY <2>3
  <2>6. r2.todo \subseteq DOMAIN s /\ r2.listed \subseteq DOMAIN s /\ r2.heads \subseteq DOMAIN s
        /\ r2.sending \in DOMAIN s \cup {None}
    BY <1>1, <2>3
  <2>7. Outside(s, R, r2)
    BY <1>2, <2>2, <2>3, <2>4, <2>5, <2>6 DEF Outside
  <2> QED
    BY <2>1, <2>7
<1>3. \/ Flushed(r) \in {r, NoRun}
      \/ r.sending = None /\ Flushed(r) \in {[r EXCEPT !.pc = "list"], [r EXCEPT !.pc = "prune"]}
  BY DEF Flushed
<1> QED
  BY <1>2, <1>3, NoRunOutside

LEMMA FirstFlushOutside ==
  ASSUME VaultInv, NEW s, NEW ids, ids \subseteq DOMAIN s, ids \subseteq Ids, remote \subseteq DOMAIN s,
         DOMAIN s \subseteq Ids
  PROVE  Outside(s, remote, FirstFlush(ids))
<1>1. PICK r : r = [NoRun EXCEPT !.pc = "flush", !.todo = ids, !.listed = IF CloudKit THEN remote ELSE {}]
  OBVIOUS
<1>2. r = [pc |-> "flush", last |-> FALSE, todo |-> ids, listed |-> IF CloudKit THEN remote ELSE {},
           heads |-> {}, local |-> None, ck |-> None, sending |-> None]
  BY <1>1 DEF NoRun
<1>3. PICK l : l = IF CloudKit THEN remote ELSE {}
  OBVIOUS
<1>4. l \subseteq remote /\ l \subseteq DOMAIN s /\ l \subseteq Ids
  BY <1>3
<1>5. r \in RunType
  BY <1>2, <1>3, <1>4 DEF RunType
<1>6. r.pc = "flush" /\ r.todo = ids /\ r.listed = l /\ r.heads = {} /\ r.sending = None
  BY <1>2, <1>3
<1>7. Listed(s, remote, r)
  BY <1>4, <1>6, LineSelf DEF Listed
<1>8. Outside(s, remote, r)
  BY <1>4, <1>5, <1>6, <1>7 DEF Outside
<1>9. Outside(s, remote, Flushed(r))
  BY <1>6, <1>8, FlushedOutside
<1> QED
  BY <1>1, <1>9 DEF FirstFlush

\* LastFlush goes on with what the run has listed, which is still there.
LEMMA LastFlushOutside ==
  ASSUME VaultInv, NEW d \in Devices, run[d].pc # "delete", NEW hs, hs \subseteq DOMAIN snaps
  PROVE  Outside(snaps, remote, LastFlush(d, hs))
<1>1. PICK r : r = [NoRun EXCEPT !.pc = "flush", !.todo = disk[d].outbox, !.last = TRUE,
                        !.listed = IF CloudKit THEN run[d].listed ELSE {},
                        !.heads = IF CloudKit THEN hs ELSE {}]
  OBVIOUS
<1>2. PICK l, h, o : l = (IF CloudKit THEN run[d].listed ELSE {}) /\ h = (IF CloudKit THEN hs ELSE {})
                     /\ o = disk[d].outbox
  OBVIOUS
<1>3. r = [pc |-> "flush", last |-> TRUE, todo |-> o, listed |-> l, heads |-> h, local |-> None, ck |-> None,
           sending |-> None]
  BY <1>1, <1>2 DEF NoRun
<1>4. o \subseteq DOMAIN snaps
  <2>1. Sound(prior, dropped, snaps, vault[d], open[d], disk[d], run[d])
    BY DeviceFacts
  <2> QED
    BY <1>2, <2>1 DEF Sound, Named
<1>5. l \subseteq run[d].listed /\ l \subseteq DOMAIN snaps /\ h \subseteq DOMAIN snaps /\ DOMAIN snaps \subseteq Ids
  BY <1>2, RunFacts
<1>6. r \in RunType
  BY <1>3, <1>4, <1>5 DEF RunType
<1>7. r.pc = "flush" /\ r.todo = o /\ r.listed = l /\ r.heads = h /\ r.sending = None
  BY <1>3
<1>8. Listed(snaps, remote, r)
  BY <1>5, <1>7, DeviceFacts DEF Listed
<1>9. Outside(snaps, remote, r)
  BY <1>4, <1>5, <1>6, <1>7, <1>8 DEF Outside
<1>10. Outside(snaps, remote, Flushed(r))
  BY <1>7, <1>9, FlushedOutside
<1> QED
  BY <1>1, <1>10 DEF LastFlush

\* What is asked of a device's files.
Held(p, q, s, v, D) ==
  /\ D \in DiskType /\ D.outbox \subseteq D.cache /\ D.cache \subseteq DOMAIN s
  /\ D.conflicts \subseteq DOMAIN s /\ (D.tx # None => D.ck # None)
  /\ D.ck # None => Based(p, q, s, D.ck, v)
  /\ \A i \in D.outbox : v # None /\ Follows(p, q, s[i].content, v)

LEMMA DiskMoves ==
  ASSUME NEW p, NEW q, NEW s, NEW v, NEW o, NEW D, NEW r, Sound(p, q, s, v, o, D, r),
         NEW D2, Held(p, q, s, v, D2)
  PROVE  Sound(p, q, s, v, o, D2, r)
<1>1. v \in Files(p) \cup {None} /\ r \in RunType /\ Named(s, v, o, D, r) /\ RunSound(p, q, s, v, o, r)
  BY DEF Sound
<1>2. Named(s, v, o, D2, r)
  BY <1>1 DEF Named, Held
<1>3. DiskSound(p, q, s, v, D2)
  BY DEF DiskSound, Held
<1> QED
  BY <1>1, <1>2, <1>3 DEF Sound, Held

LEMMA DiskHeld ==
  ASSUME NEW p, NEW q, NEW s, NEW v, NEW o, NEW D, NEW r, Sound(p, q, s, v, o, D, r)
  PROVE  Held(p, q, s, v, D)
BY DEF Sound, Named, DiskSound, Held

\* Fewer pending, and other cached snapshots.
LEMMA HeldFewer ==
  ASSUME NEW p, NEW q, NEW s, NEW v, NEW D, Held(p, q, s, v, D),
         NEW out, NEW cache, out \subseteq D.outbox, out \subseteq cache, cache \subseteq DOMAIN s,
         DOMAIN s \subseteq Ids
  PROVE  Held(p, q, s, v, [D EXCEPT !.outbox = out, !.cache = cache])
<1>1. PICK D2 : D2 = [D EXCEPT !.outbox = out, !.cache = cache]
  OBVIOUS
<1>2. D \in DiskType
  BY DEF Held
<1>3. D2 \in DiskType
  BY <1>1, <1>2 DEF DiskType
<1>4. D2.outbox = out /\ D2.cache = cache /\ D2.conflicts = D.conflicts /\ D2.tx = D.tx /\ D2.ck = D.ck
  BY <1>1, <1>2 DEF DiskType
<1>5. D2.ck # None => Based(p, q, s, D2.ck, v)
  BY <1>4 DEF Held
<1>6. \A i \in D2.outbox : v # None /\ Follows(p, q, s[i].content, v)
  BY <1>4 DEF Held
<1>7. D2.conflicts \subseteq DOMAIN s /\ (D2.tx # None => D2.ck # None)
  BY <1>4 DEF Held
<1>8. Held(p, q, s, v, D2)
  BY <1>3, <1>4, <1>5, <1>6, <1>7 DEF Held
<1> QED
  BY <1>1, <1>8

LEMMA CalmMove ==
  ASSUME VaultInv, NEW d \in Devices, UNCHANGED <<snaps, vault, open, prior, dropped>>,
         remote \subseteq remote', remote' \subseteq DOMAIN snaps, faults' \in 0 .. MaxFaults,
         NEW D2, disk' = [disk EXCEPT ![d] = D2], Held(prior, dropped, snaps, vault[d], D2),
         NEW r2, run' = [run EXCEPT ![d] = r2], Outside(snaps, remote', r2)
  PROVE  VaultInv' /\ Onward(d)
<1>1. Framed(d)
  <2>1. vault' = vault /\ open' = open
    OBVIOUS
  <2>2. \E x : run' = [run EXCEPT ![d] = x]
    OBVIOUS
  <2>3. \E x : disk' = [disk EXCEPT ![d] = x]
    OBVIOUS
  <2> QED
    BY <2>1, <2>2, <2>3, FrameFacts
<1>2. run'[d] = r2 /\ disk'[d] = D2 /\ open'[d] = open[d]
  BY DEF VaultInv, DevicesSound
<1>3. Sound(prior, dropped, snaps, vault[d], open[d], disk[d], run[d])
  BY DeviceFacts
<1>4. Sound(prior, dropped, snaps, vault[d], open[d], D2, run[d])
  BY <1>3, DiskMoves
<1>5. open[d] => vault[d] # None
  BY <1>3 DEF Sound, Named
<1>6. PICK R : R = remote'
  OBVIOUS
<1>7. Outside(snaps, R, r2)
  BY <1>6
<1>8. Sound(prior, dropped, snaps, vault[d], open[d], D2, r2)
  BY <1>4, <1>5, <1>7, RunOutside
<1>9. Sound(prior, dropped, snaps, vault[d], open'[d], disk'[d], run'[d])
  BY <1>2, <1>8
<1>10. Listed(snaps, remote', run'[d])
  BY <1>2 DEF Outside
<1> QED
  BY <1>1, <1>9, <1>10, CalmStep

LEMMA UnlockKeeps ==
  ASSUME VaultInv, NEW d \in Devices, Unlock(d)
  PROVE  VaultInv' /\ Onward(d)
<1>1. /\ UNCHANGED <<snaps, remote, vault, disk, run, prior, dropped, faults>>
      /\ vault[d] # None /\ open' = [open EXCEPT ![d] = TRUE] /\ run[d].pc \notin {"merge", "save"}
  BY DEF Unlock, MutexFree
<1>2. Framed(d)
  <2>1. vault' = vault /\ disk' = disk /\ run' = run
    BY <1>1
  <2>2. \E x \in BOOLEAN : open' = [open EXCEPT ![d] = x]
    BY <1>1
  <2> QED
    BY <2>1, <2>2, FrameFacts
<1>3. Sound(prior, dropped, snaps, vault[d], open[d], disk[d], run[d])
  BY DeviceFacts
<1>4. Named(snaps, vault[d], open'[d], disk[d], run[d])
  BY <1>1, <1>3 DEF Sound, Named
<1>5. RunSound(prior, dropped, snaps, vault[d], open'[d], run[d])
  BY <1>1 DEF RunSound
<1>6. Sound(prior, dropped, snaps, vault[d], open'[d], disk[d], run[d])
  BY <1>3, <1>4, <1>5 DEF Sound
<1>7. disk'[d] = disk[d] /\ run'[d] = run[d] /\ remote' = remote /\ faults' = faults
  BY <1>1
<1>8. Sound(prior, dropped, snaps, vault[d], open'[d], disk'[d], run'[d]) /\ Listed(snaps, remote', run'[d])
  BY <1>6, <1>7, DeviceFacts
<1>9. remote \subseteq remote' /\ remote' \subseteq DOMAIN snaps /\ faults' \in 0 .. MaxFaults
  BY <1>7, DeviceFacts
<1> QED
  BY <1>1, <1>2, <1>8, <1>9, CalmStep

LEMMA HeldFacts ==
  ASSUME VaultInv, NEW d \in Devices
  PROVE  /\ Held(prior, dropped, snaps, vault[d], disk[d]) /\ disk[d] \in DiskType
         /\ disk[d].outbox \subseteq disk[d].cache /\ disk[d].cache \subseteq DOMAIN snaps
         /\ disk[d].conflicts \subseteq DOMAIN snaps /\ DOMAIN snaps \subseteq Ids
         /\ disk[d].ck # None => disk[d].ck.heads \subseteq DOMAIN snaps /\ vault[d] # None
<1>1. Sound(prior, dropped, snaps, vault[d], open[d], disk[d], run[d])
  BY DeviceFacts
<1>2. Held(prior, dropped, snaps, vault[d], disk[d])
  BY <1>1, DiskHeld
<1> QED
  BY <1>2, RunFacts DEF Held, Based

LEMMA FlushSendKeeps ==
  ASSUME VaultInv, NEW d \in Devices, FlushSend(d)
  PROVE  VaultInv' /\ Onward(d)
<1>1. /\ run[d].sending # None /\ remote' = remote \cup {run[d].sending}
      /\ UNCHANGED <<snaps, vault, open, prior, dropped>>
  BY DEF FlushSend
<1>2. PICK i : i = run[d].sending
  OBVIOUS
<1>3. i \in DOMAIN snaps /\ run[d].pc = "flush"
  BY <1>1, <1>2, RunFacts
<1>4. remote \subseteq remote' /\ remote' \subseteq DOMAIN snaps
  BY <1>1, <1>2, <1>3, DeviceFacts
<1>5. CASE /\ disk' = [disk EXCEPT ![d].outbox = @ \ {run[d].sending}]
           /\ run' = [run EXCEPT ![d] = Flushed([@ EXCEPT !.sending = None])]
           /\ UNCHANGED faults
  <2>1. PICK out, cache : out = disk[d].outbox \ {i} /\ cache = disk[d].cache
    OBVIOUS
  <2>2. PICK D2 : D2 = [disk[d] EXCEPT !.outbox = out, !.cache = cache]
    OBVIOUS
  <2>3. disk' = [disk EXCEPT ![d] = D2]
    <3>1. [disk[d] EXCEPT !.outbox = out] = D2
      BY <2>1, <2>2, HeldFacts DEF DiskType
    <3>2. disk' = [disk EXCEPT ![d] = [disk[d] EXCEPT !.outbox = out]]
      BY <1>2, <1>5, <2>1
    <3> QED
      BY <3>1, <3>2
  <2>4. Held(prior, dropped, snaps, vault[d], D2)
    <3>1. out \subseteq disk[d].outbox /\ out \subseteq cache /\ cache \subseteq DOMAIN snaps
      BY <2>1, HeldFacts
    <3> QED
      BY <2>2, <3>1, HeldFacts, HeldFewer
  <2>5. PICK r : r = [run[d] EXCEPT !.sending = None]
    OBVIOUS
  <2>6. run' = [run EXCEPT ![d] = Flushed(r)]
    BY <1>5, <2>5
  <2>7. r \in RunType
    BY <2>5, RunFacts DEF RunType
  <2>8. /\ r.pc = "flush" /\ r.todo = run[d].todo /\ r.listed = run[d].listed /\ r.heads = run[d].heads
        /\ r.sending = None
    BY <1>3, <2>5, RunFacts DEF RunType
  <2>9. Listed(snaps, remote', r)
    BY <1>3, <1>4, <2>8, DeviceFacts DEF Listed
  <2>10. Outside(snaps, remote', r)
    BY <2>7, <2>8, <2>9, RunFacts DEF Outside
  <2>11. PICK R : R = remote'
    OBVIOUS
  <2>12. Outside(snaps, R, Flushed(r))
    BY <2>8, <2>10, <2>11, FlushedOutside
  <2>13. faults' \in 0 .. MaxFaults
    BY <1>5, DeviceFacts
  <2> QED
    BY <1>1, <1>4, <2>3, <2>4, <2>6, <2>11, <2>12, <2>13, CalmMove
<1>6. CASE faults < MaxFaults /\ faults' = faults + 1 /\ End(d) /\ UNCHANGED disk
  <2>1. disk' = [disk EXCEPT ![d] = disk[d]]
    BY <1>6 DEF VaultInv, DevicesSound
  <2>2. run' = [run EXCEPT ![d] = NoRun]
    BY <1>6 DEF End
  <2>3. faults' \in 0 .. MaxFaults
    BY <1>6, Faulty
  <2>4. PICK R : R = remote'
    OBVIOUS
  <2>5. Outside(snaps, R, NoRun)
    BY NoRunOutside
  <2> QED
    BY <1>1, <1>4, <2>1, <2>2, <2>3, <2>4, <2>5, HeldFacts, CalmMove
<1> QED
  BY <1>5, <1>6 DEF FlushSend

LEMMA CacheGrows ==
  ASSUME VaultInv, NEW d \in Devices, NEW more, more \subseteq DOMAIN snaps
  PROVE  Held(prior, dropped, snaps, vault[d], [disk[d] EXCEPT !.cache = @ \cup more])
<1>1. PICK out, cache : out = disk[d].outbox /\ cache = disk[d].cache \cup more
  OBVIOUS
<1>2. [disk[d] EXCEPT !.cache = @ \cup more] = [disk[d] EXCEPT !.outbox = out, !.cache = cache]
  BY <1>1, HeldFacts DEF DiskType
<1>3. out \subseteq disk[d].outbox /\ out \subseteq cache /\ cache \subseteq DOMAIN snaps
  BY <1>1, HeldFacts
<1>4. Held(prior, dropped, snaps, vault[d], disk[d]) /\ DOMAIN snaps \subseteq Ids
  BY HeldFacts
<1>5. Held(prior, dropped, snaps, vault[d], [disk[d] EXCEPT !.outbox = out, !.cache = cache])
  BY <1>3, <1>4, HeldFewer
<1> QED
  BY <1>2, <1>5

LEMMA ListKeeps ==
  ASSUME VaultInv, NEW d \in Devices, List(d)
  PROVE  VaultInv' /\ Onward(d)
<1>1. PICK ids : ids = IF CloudKit THEN run[d].listed ELSE remote
  OBVIOUS
<1>2. PICK miss \in {{}} \cup {{i} : i \in ids} :
        /\ miss # {} => faults < MaxFaults
        /\ faults' = IF miss = {} THEN faults ELSE faults + 1
        /\ disk' = [disk EXCEPT ![d].cache = @ \cup (ids \ miss)]
        /\ run' = [run EXCEPT ![d].pc = "synchronize", ![d].listed = ids \ miss]
  BY <1>1 DEF List
<1>3. run[d].pc = "list" /\ UNCHANGED <<snaps, remote, vault, open, prior, dropped>>
  BY DEF List
<1>4. faults' \in 0 .. MaxFaults
  <2>1. CASE miss = {} BY <1>2, <2>1, DeviceFacts
  <2>2. CASE miss # {} BY <1>2, <2>2, Faulty
  <2> QED BY <2>1, <2>2
<1>5. PICK got : got = ids \ miss
  OBVIOUS
<1>6. got \subseteq DOMAIN snaps /\ \A i \in got : \E j \in remote : i \in Line(snaps, j)
  <2>1. CASE CloudKit
    <3>1. got \subseteq run[d].listed
      BY <1>1, <1>5, <2>1
    <3>2. \A i \in run[d].listed : \E j \in remote : i \in Line(snaps, j)
      BY <1>3, DeviceFacts DEF Listed
    <3> QED
      BY <3>1, <3>2, RunFacts
  <2>2. CASE ~CloudKit
    <3>1. got \subseteq remote
      BY <1>1, <1>5, <2>2
    <3> QED
      BY <3>1, LineSelf, DeviceFacts
  <2> QED
    BY <2>1, <2>2
<1>7. PICK D2 : D2 = [disk[d] EXCEPT !.cache = @ \cup got]
  OBVIOUS
<1>8. disk' = [disk EXCEPT ![d] = D2]
  BY <1>2, <1>5, <1>7
<1>9. Held(prior, dropped, snaps, vault[d], D2)
  BY <1>6, <1>7, CacheGrows
<1>10. PICK r : r = [run[d] EXCEPT !.pc = "synchronize", !.listed = got]
  OBVIOUS
<1>11. run' = [run EXCEPT ![d] = r]
  <2>1. run = [e \in Devices |-> run[e]]
    BY DEF VaultInv, DevicesSound
  <2>2. PICK g : g = [run EXCEPT ![d].pc = "synchronize"]
    OBVIOUS
  <2>3. g[d] = [run[d] EXCEPT !.pc = "synchronize"] /\ g = [e \in Devices |-> g[e]]
        /\ \A e \in Devices \ {d} : g[e] = run[e]
    BY <2>1, <2>2
  <2>4. [g EXCEPT ![d].listed = got] = [g EXCEPT ![d] = r]
    BY <1>10, <2>3
  <2>5. run' = [g EXCEPT ![d].listed = got]
    BY <1>2, <1>5, <2>2
  <2>6. [g EXCEPT ![d] = r] = [run EXCEPT ![d] = r]
    BY <2>1, <2>3
  <2> QED
    BY <2>4, <2>5, <2>6
<1>12. got \subseteq Ids
  BY <1>6, RunFacts
<1>13. r \in RunType
  BY <1>10, <1>12, RunFacts DEF RunType
<1>14. r.pc = "synchronize" /\ r.todo = run[d].todo /\ r.listed = got /\ r.heads = run[d].heads
       /\ r.sending = run[d].sending
  BY <1>10, RunFacts DEF RunType
<1>15. Listed(snaps, remote, r)
  BY <1>6, <1>14 DEF Listed
<1>16. run[d].sending = None
  BY <1>3, RunFacts
<1>17. Outside(snaps, remote, r)
  BY <1>6, <1>13, <1>14, <1>15, <1>16, RunFacts DEF Outside
<1>18. remote \subseteq remote' /\ remote' \subseteq DOMAIN snaps /\ Outside(snaps, remote', r)
  BY <1>3, <1>17, DeviceFacts
<1> QED
  BY <1>3, <1>4, <1>8, <1>9, <1>11, <1>18, CalmMove

LEMMA SnapshotGoneKeeps ==
  ASSUME VaultInv, NEW d \in Devices, SnapshotGone(d)
  PROVE  VaultInv' /\ Onward(d)
<1>1. /\ disk' = [disk EXCEPT ![d].cache = @ \cup (run[d].listed \cap remote)]
      /\ End(d) /\ UNCHANGED <<snaps, remote, vault, open, prior, dropped, faults>>
  BY DEF SnapshotGone
<1>2. PICK more : more = run[d].listed \cap remote
  OBVIOUS
<1>3. PICK D2 : D2 = [disk[d] EXCEPT !.cache = @ \cup more]
  OBVIOUS
<1>4. disk' = [disk EXCEPT ![d] = D2]
  BY <1>1, <1>2, <1>3
<1>5. more \subseteq DOMAIN snaps
  BY <1>2, RunFacts
<1>6. Held(prior, dropped, snaps, vault[d], D2)
  BY <1>3, <1>5, CacheGrows
<1>7. run' = [run EXCEPT ![d] = NoRun]
  BY <1>1 DEF End
<1>8. Outside(snaps, remote, NoRun)
  BY NoRunOutside
<1>9. remote \subseteq remote' /\ remote' \subseteq DOMAIN snaps /\ Outside(snaps, remote', NoRun)
      /\ faults' \in 0 .. MaxFaults
  BY <1>1, <1>8, DeviceFacts
<1> QED
  BY <1>1, <1>4, <1>6, <1>7, <1>9, CalmMove

LEMMA Chained ==
  ASSUME NEW d \in Devices, NEW g, g = [e \in Devices |-> g[e]], NEW x, NEW y
  PROVE  [[g EXCEPT ![d] = x] EXCEPT ![d] = y] = [g EXCEPT ![d] = y]
OBVIOUS

LEMMA DeviceFunctions ==
  ASSUME VaultInv
  PROVE  /\ vault = [e \in Devices |-> vault[e]] /\ disk = [e \in Devices |-> disk[e]]
         /\ run = [e \in Devices |-> run[e]]
BY DEF VaultInv, DevicesSound

\* What retention may delete has something built on it that is listed.
LEMMA Expired ==
  ASSUME VaultInv, NEW d \in Devices, run[d].pc = "prune", disk[d].ck # None,
         NEW i \in Known(d) \ Protected(Known(d), disk[d].ck.heads)
  PROVE  \E j \in remote : j # i /\ i \in Line(snaps, j)
<1>1. PICK known, heads : known = Known(d) /\ heads = disk[d].ck.heads /\ known = run[d].listed \cup heads
  BY DEF Known
<1>2. i \in known /\ i \notin HeadsOf(known) /\ i \notin heads
      /\ i \notin Parents(HeadsOf(known) \cup heads)
  BY <1>1 DEF Protected
<1>3. PICK c \in known : i \in snaps[c].parents
  BY <1>2 DEF HeadsOf, Parents
<1>4. c \notin heads
  BY <1>2, <1>3 DEF Parents
<1>5. c \in run[d].listed
  BY <1>1, <1>3, <1>4
<1>6. PICK j \in remote : c \in Line(snaps, j)
  BY <1>5, DeviceFacts DEF Listed
<1>7. j \in DOMAIN snaps /\ Graph(snaps)
  BY DeviceFacts
<1>8. i \in Line(snaps, j) /\ c <= j /\ c \in DOMAIN snaps
  BY <1>3, <1>6, <1>7, LineParent, LineTrans
<1>9. i < c
  BY <1>3, <1>7, <1>8 DEF Graph
<1>10. j # i
  BY <1>7, <1>8, <1>9 DEF Graph
<1> QED
  BY <1>8, <1>10

LEMMA PruneKeeps ==
  ASSUME VaultInv, NEW d \in Devices, Prune(d)
  PROVE  VaultInv' /\ Onward(d)
<1>1. UNCHANGED <<snaps, remote, vault, open, disk, prior, dropped, faults>> /\ run[d].pc = "prune"
  BY DEF Prune
<1>2. faults' \in 0 .. MaxFaults
  BY <1>1, DeviceFacts
<1>3. CASE End(d)
  BY <1>1, <1>2, <1>3, RunStops
<1>4. CASE /\ disk[d].ck # None
           /\ run' = [run EXCEPT ![d].pc = "delete", ![d].listed = Known(d),
                        ![d].todo = Known(d) \ Protected(Known(d), disk[d].ck.heads)]
  <2>1. PICK known, todo : known = Known(d) /\ todo = Known(d) \ Protected(Known(d), disk[d].ck.heads)
    OBVIOUS
  <2>2. PICK r1, r2, r3 :
          /\ r1 = [run[d] EXCEPT !.pc = "delete"] /\ r2 = [r1 EXCEPT !.listed = known]
          /\ r3 = [r2 EXCEPT !.todo = todo]
    OBVIOUS
  <2>3. run' = [run EXCEPT ![d] = r3]
    <3>1. run = [e \in Devices |-> run[e]]
      BY DeviceFunctions
    <3>2. PICK g1, g2 : g1 = [run EXCEPT ![d] = r1] /\ g2 = [g1 EXCEPT ![d] = r2]
      OBVIOUS
    <3>3. g1 = [e \in Devices |-> g1[e]] /\ g1[d] = r1 /\ g2[d] = r2
      BY <3>1, <3>2
    <3>4. g2 = [run EXCEPT ![d] = r2]
      BY <3>1, <3>2, Chained
    <3>5. run' = [[[run EXCEPT ![d].pc = "delete"] EXCEPT ![d].listed = known] EXCEPT ![d].todo = todo]
      BY <1>4, <2>1
    <3>6. [run EXCEPT ![d].pc = "delete"] = g1
      BY <2>2, <3>2
    <3>7. [g1 EXCEPT ![d].listed = known] = g2
      BY <2>2, <3>2, <3>3
    <3>8. [g2 EXCEPT ![d].todo = todo] = [g2 EXCEPT ![d] = r3]
      BY <2>2, <3>3
    <3>9. [g2 EXCEPT ![d] = r3] = [run EXCEPT ![d] = r3]
      BY <3>1, <3>4, Chained
    <3> QED
      BY <3>5, <3>6, <3>7, <3>8, <3>9
  <2>4. known \subseteq DOMAIN snaps /\ todo \subseteq known
    BY <1>4, <2>1, HeldFacts, RunFacts DEF Known
  <2>5. run[d] \in RunType /\ known \subseteq Ids /\ todo \subseteq Ids
    BY <2>4, HeldFacts, RunFacts
  <2>6. r1 \in RunType /\ r1.pc = "delete" /\ r1.heads = run[d].heads /\ r1.sending = run[d].sending
    BY <2>2, <2>5 DEF RunType
  <2>7. /\ r2 \in RunType /\ r2.pc = r1.pc /\ r2.heads = r1.heads /\ r2.sending = r1.sending
        /\ r2.listed = known
    BY <2>2, <2>5, <2>6 DEF RunType
  <2>8. /\ r3 \in RunType /\ r3.pc = r2.pc /\ r3.heads = r2.heads /\ r3.sending = r2.sending
        /\ r3.listed = r2.listed /\ r3.todo = todo
    BY <2>2, <2>5, <2>7 DEF RunType
  <2>9. \A i \in todo : \E j \in remote : j # i /\ i \in Line(snaps, j)
    BY <1>1, <1>4, <2>1, Expired
  <2>10. Listed(snaps, remote, r3)
    BY <2>6, <2>7, <2>8, <2>9 DEF Listed
  <2>11. run[d].sending = None
    BY <1>1, RunFacts
  <2>12. Outside(snaps, remote, r3)
    BY <2>4, <2>6, <2>7, <2>8, <2>10, <2>11, RunFacts DEF Outside
  <2> QED
    BY <1>1, <1>2, <2>3, <2>12, RunMoves
<1> QED
  BY <1>3, <1>4 DEF Prune

LEMMA PruneCacheKeeps ==
  ASSUME VaultInv, NEW d \in Devices, PruneCache(d)
  PROVE  VaultInv' /\ Onward(d)
<1>1. /\ disk' = IF open[d] THEN [disk EXCEPT ![d].cache = @ \cap Retained(d)] ELSE disk
      /\ End(d) /\ UNCHANGED <<snaps, remote, vault, open, prior, dropped, faults>>
  BY DEF PruneCache
<1>2. faults' \in 0 .. MaxFaults /\ remote' \subseteq DOMAIN snaps /\ remote \subseteq remote'
  BY <1>1, DeviceFacts
<1>3. CASE ~open[d]
  BY <1>1, <1>2, <1>3, RunStops
<1>4. CASE open[d]
  <2>1. PICK out, cache : out = disk[d].outbox /\ cache = disk[d].cache \cap Retained(d)
    OBVIOUS
  <2>2. PICK D2 : D2 = [disk[d] EXCEPT !.cache = cache]
    OBVIOUS
  <2>3. D2 = [disk[d] EXCEPT !.outbox = out, !.cache = cache]
    BY <2>1, <2>2, HeldFacts DEF DiskType
  <2>4. out \subseteq disk[d].outbox /\ out \subseteq cache /\ cache \subseteq DOMAIN snaps
    BY <2>1, HeldFacts DEF Retained
  <2>5. Held(prior, dropped, snaps, vault[d], D2)
    BY <2>3, <2>4, HeldFacts, HeldFewer
  <2>6. disk' = [disk EXCEPT ![d] = D2]
    BY <1>1, <1>4, <2>1, <2>2
  <2>7. run' = [run EXCEPT ![d] = NoRun]
    BY <1>1 DEF End
  <2>8. PICK R : R = remote'
    OBVIOUS
  <2>9. Outside(snaps, R, NoRun)
    BY NoRunOutside
  <2> QED
    BY <1>1, <1>2, <2>5, <2>6, <2>7, <2>8, <2>9, CalmMove
<1> QED
  BY <1>3, <1>4

LEMMA SaveKeeps ==
  ASSUME VaultInv, NEW d \in Devices, Save(d)
  PROVE  VaultInv' /\ Onward(d)
<1>1. run[d].pc = "save" /\ UNCHANGED <<snaps, remote, vault, open, prior, dropped>>
  BY DEF Save
<1>2. PICK hs : hs = ConflictList(run[d].heads)
  OBVIOUS
<1>3. hs \subseteq DOMAIN snaps /\ DOMAIN snaps \subseteq Ids
  BY <1>2, RunFacts DEF ConflictList
<1>4. PICK ck : ck = run[d].ck
  OBVIOUS
<1>5. ck \in Checkpoint /\ ck # None /\ Based(prior, dropped, snaps, ck, vault[d])
  <2>1. Sound(prior, dropped, snaps, vault[d], open[d], disk[d], run[d])
    BY DeviceFacts
  <2>2. ck # None /\ Based(prior, dropped, snaps, ck, vault[d])
    BY <1>1, <1>4, <2>1 DEF Sound, RunSound
  <2> QED
    BY <1>4, <2>2, RunFacts
<1>6. PICK D1, D2 : D1 = [disk[d] EXCEPT !.conflicts = hs] /\ D2 = [D1 EXCEPT !.ck = ck]
  OBVIOUS
<1>7. D1 \in DiskType
  BY <1>3, <1>6, HeldFacts DEF DiskType
<1>8. D2 \in DiskType
  BY <1>5, <1>6, <1>7 DEF DiskType
<1>9. /\ D1.outbox = disk[d].outbox /\ D1.cache = disk[d].cache /\ D1.conflicts = hs
      /\ D1.tx = disk[d].tx /\ D1.ck = disk[d].ck
      /\ D2.outbox = disk[d].outbox /\ D2.cache = disk[d].cache /\ D2.conflicts = hs
      /\ D2.tx = disk[d].tx /\ D2.ck = ck
  BY <1>6, <1>7, HeldFacts DEF DiskType
<1>10. Held(prior, dropped, snaps, vault[d], D1)
  BY <1>3, <1>7, <1>9, HeldFacts DEF Held
<1>11. Held(prior, dropped, snaps, vault[d], D2)
  BY <1>3, <1>5, <1>8, <1>9, HeldFacts DEF Held
<1>12. remote \subseteq remote' /\ remote' \subseteq DOMAIN snaps /\ remote' = remote
  BY <1>1, DeviceFacts
<1>13. CASE /\ disk' = [disk EXCEPT ![d].conflicts = hs, ![d].ck = run[d].ck]
            /\ run' = [run EXCEPT ![d] = LastFlush(d, hs)]
            /\ UNCHANGED faults
  <2>1. disk' = [disk EXCEPT ![d] = D2]
    <3>1. disk = [e \in Devices |-> disk[e]]
      BY DeviceFunctions
    <3>2. PICK g : g = [disk EXCEPT ![d] = D1]
      OBVIOUS
    <3>3. g[d] = D1
      BY <3>1, <3>2
    <3>4. disk' = [[disk EXCEPT ![d].conflicts = hs] EXCEPT ![d].ck = ck]
      BY <1>4, <1>13
    <3>5. [disk EXCEPT ![d].conflicts = hs] = g
      BY <1>6, <3>2
    <3>6. [g EXCEPT ![d].ck = ck] = [g EXCEPT ![d] = D2]
      BY <1>6, <3>3
    <3>7. [g EXCEPT ![d] = D2] = [disk EXCEPT ![d] = D2]
      BY <3>1, <3>2, Chained
    <3> QED
      BY <3>4, <3>5, <3>6, <3>7
  <2>2. Outside(snaps, remote', LastFlush(d, hs))
    BY <1>1, <1>3, <1>12, LastFlushOutside
  <2>3. faults' \in 0 .. MaxFaults
    BY <1>13, DeviceFacts
  <2> QED
    BY <1>1, <1>11, <1>12, <1>13, <2>1, <2>2, <2>3, CalmMove
<1>14. CASE /\ faults < MaxFaults /\ faults' = faults + 1
            /\ disk' = [disk EXCEPT ![d].conflicts = hs] /\ End(d)
  <2>1. disk' = [disk EXCEPT ![d] = D1]
    BY <1>6, <1>14
  <2>2. run' = [run EXCEPT ![d] = NoRun]
    BY <1>14 DEF End
  <2>3. faults' \in 0 .. MaxFaults
    BY <1>14, Faulty
  <2>4. Outside(snaps, remote', NoRun)
    BY <1>12, NoRunOutside
  <2> QED
    BY <1>1, <1>10, <1>12, <2>1, <2>2, <2>3, <2>4, CalmMove
<1> QED
  BY <1>2, <1>13, <1>14 DEF Save

-----------------------------------------------------------------------------
(* Deleting at the target *)

\* Whatever counted on the deleted snapshot counts on one built on it.
LEMMA DeleteCovers ==
  ASSUME VaultInv, NEW d \in Devices, Delete(d), NEW i \in run[d].todo, remote' = remote \ {i},
         NEW j \in remote
  PROVE  \E k \in remote' : /\ Line(snaps, j) \subseteq Line(snaps, k)
                            /\ Follows(prior, dropped, snaps[j].content, snaps[k].content)
                            /\ j # k => j = i /\ j < k
<1>1. CASE j # i
  <2>1. j \in remote'
    BY <1>1
  <2> QED
    BY <1>1, <2>1, FollowsSelf
<1>2. CASE j = i
  <2>1. run[d].pc = "delete"
    BY DEF Delete
  <2>2. PICK k \in remote : k # i /\ i \in Line(snaps, k)
    BY <2>1, DeviceFacts DEF Listed
  <2>3. k \in DOMAIN snaps /\ Graph(snaps) /\ History(prior) /\ dropped \subseteq DOMAIN prior
        /\ Filed(prior, snaps) /\ SnapsSound(prior, dropped, snaps)
    BY DeviceFacts
  <2>4. i \in DOMAIN snaps /\ i <= k /\ Line(snaps, i) \subseteq Line(snaps, k)
    BY <2>2, <2>3, LineTrans
  <2>5. i < k
    BY <2>2, <2>3, <2>4 DEF Graph
  <2>6. Follows(prior, dropped, snaps[i].content, snaps[k].content)
    <3>1. PICK known : known = DOMAIN snaps
      OBVIOUS
    <3>2. i \in Reach(snaps, k, MaxSnaps, known) /\ known \subseteq DOMAIN snaps
      BY <2>2, <3>1 DEF Line
    <3> QED
      BY <2>3, <3>2, ReachFollows
  <2>7. k \in remote'
    BY <2>2
  <2> QED
    BY <1>2, <2>4, <2>5, <2>6, <2>7
<1> QED
  BY <1>1, <1>2

LEMMA DeleteListed ==
  ASSUME VaultInv, NEW d \in Devices, Delete(d), NEW i \in run[d].todo, remote' = remote \ {i},
         NEW r, NEW r2, Listed(snaps, remote, r), r2.pc = r.pc, r2.todo \subseteq r.todo,
         r2.listed \subseteq r.listed
  PROVE  Listed(snaps, remote', r2)
<1>1. ASSUME r2.pc # "delete", NEW x \in r2.listed
      PROVE  \E k \in remote' : x \in Line(snaps, k)
  <2>1. PICK j \in remote : x \in Line(snaps, j)
    BY <1>1 DEF Listed
  <2>2. PICK k \in remote' : Line(snaps, j) \subseteq Line(snaps, k)
    BY DeleteCovers
  <2> QED
    BY <2>1, <2>2
<1>2. ASSUME r2.pc = "delete", NEW x \in r2.todo
      PROVE  \E k \in remote' : k # x /\ x \in Line(snaps, k)
  <2>1. PICK j \in remote : j # x /\ x \in Line(snaps, j)
    BY <1>2 DEF Listed
  <2>2. PICK k \in remote' : Line(snaps, j) \subseteq Line(snaps, k) /\ (j # k => j = i /\ j < k)
    BY DeleteCovers
  <2>3. x <= j /\ j \in DOMAIN snaps /\ k \in DOMAIN snaps /\ x \in DOMAIN snaps /\ Graph(snaps)
    BY <2>1, DeviceFacts, LineTrans
  <2>4. k # x
    BY <2>1, <2>2, <2>3 DEF Graph
  <2> QED
    BY <2>1, <2>2, <2>4
<1> QED
  BY <1>1, <1>2 DEF Listed

LEMMA DeleteKeeps ==
  ASSUME VaultInv, NEW d \in Devices, Delete(d)
  PROVE  VaultInv' /\ Onward(d)
<1>1. PICK i \in run[d].todo :
        remote' = remote \ {i} /\ run' = [run EXCEPT ![d].todo = @ \ {i}, ![d].listed = @ \ {i}]
  BY DEF Delete
<1>2. UNCHANGED <<snaps, vault, open, disk, prior, dropped, faults>> /\ run[d].pc = "delete"
  BY DEF Delete
<1>3. PICK r1, r2 : r1 = [run[d] EXCEPT !.todo = @ \ {i}] /\ r2 = [r1 EXCEPT !.listed = @ \ {i}]
  OBVIOUS
<1>4. run' = [run EXCEPT ![d] = r2]
  <2>1. run = [e \in Devices |-> run[e]]
    BY DeviceFunctions
  <2>2. PICK g : g = [run EXCEPT ![d] = r1]
    OBVIOUS
  <2>3. g[d] = r1 /\ r1.listed = run[d].listed
    BY <1>3, <2>1, <2>2, RunFacts DEF RunType
  <2>4. run' = [[run EXCEPT ![d].todo = @ \ {i}] EXCEPT ![d].listed = @ \ {i}]
    BY <1>1
  <2>5. [run EXCEPT ![d].todo = @ \ {i}] = g
    BY <1>3, <2>2
  <2>6. [g EXCEPT ![d].listed = @ \ {i}] = [g EXCEPT ![d] = r2]
    BY <1>3, <2>3
  <2>7. [g EXCEPT ![d] = r2] = [run EXCEPT ![d] = r2]
    BY <2>1, <2>2, Chained
  <2> QED
    BY <2>4, <2>5, <2>6, <2>7
<1>5. r1 \in RunType
  BY <1>3, RunFacts DEF RunType
<1>6. r2 \in RunType
  BY <1>3, <1>5 DEF RunType
<1>7. /\ r2.pc = "delete" /\ r2.todo = run[d].todo \ {i} /\ r2.listed = run[d].listed \ {i}
      /\ r2.heads = run[d].heads /\ r2.sending = run[d].sending
  BY <1>2, <1>3, <1>5, RunFacts DEF RunType
<1>8. run'[d] = r2 /\ disk'[d] = disk[d] /\ vault'[d] = vault[d] /\ open'[d] = open[d]
  BY <1>2, <1>4, DeviceFunctions
<1>9. Framed(d)
  BY <1>2, <1>4, FrameFacts
<1>10. Grown
  BY <1>1, <1>2, DeviceFacts DEF Grown
<1>11. \A e \in Devices : Listed(snaps, remote', run'[e])
  <2> SUFFICES ASSUME NEW e \in Devices PROVE Listed(snaps, remote', run'[e])
    OBVIOUS
  <2>1. Listed(snaps, remote, run[e])
    BY DeviceFacts
  <2>2. run'[e].pc = run[e].pc /\ run'[e].todo \subseteq run[e].todo /\ run'[e].listed \subseteq run[e].listed
    <3>1. CASE e = d BY <1>2, <1>7, <1>8, <3>1
    <3>2. CASE e # d BY <1>9, <3>2 DEF Framed
    <3> QED BY <3>1, <3>2
  <2>3. PICK r3 : r3 = run'[e]
    OBVIOUS
  <2>4. Listed(snaps, remote', r3)
    BY <1>1, <2>1, <2>2, <2>3, DeleteListed
  <2> QED
    BY <2>3, <2>4
<1>12. Sound(prior, dropped, snaps, vault[d], open[d], disk[d], r2)
  <2>1. Sound(prior, dropped, snaps, vault[d], open[d], disk[d], run[d])
    BY DeviceFacts
  <2>2. PICK R : R = remote'
    OBVIOUS
  <2>3. Listed(snaps, R, r2)
    BY <1>8, <1>11, <2>2
  <2>4. Outside(snaps, R, r2)
    BY <1>2, <1>6, <1>7, <2>3, RunFacts DEF Outside
  <2>5. open[d] => vault[d] # None
    BY <2>1 DEF Sound, Named
  <2> QED
    BY <2>1, <2>4, <2>5, RunOutside
<1>13. Sound2(d)
  BY <1>2, <1>8, <1>12 DEF Sound2
<1>14. Types' /\ DevicesSound'
  <2>1. \A e \in Devices : Listed(snaps', remote', run'[e])
    BY <1>2, <1>11
  <2> QED
    BY <1>9, <1>10, <1>13, <2>1, DevicesKept
<1>15. EditsSound'
  <2> SUFFICES ASSUME NEW e \in Live'
               PROVE  \/ \E c \in Devices : vault'[c] # None /\ e \in Values(vault'[c])
                      \/ \E k \in Sent' : e \in Values(snaps'[k].content)
    BY DEF EditsSound
  <2>1. e \in Live
    BY <1>2 DEF Live
  <2>2. CASE \E c \in Devices : vault[c] # None /\ e \in Values(vault[c])
    BY <1>2, <2>2
  <2>3. CASE \E j \in Sent : e \in Values(snaps[j].content)
    <3>1. PICK j \in Sent : e \in Values(snaps[j].content)
      BY <2>3
    <3>2. CASE j \in remote
      <4>1. PICK k \in remote' : Follows(prior, dropped, snaps[j].content, snaps[k].content)
        BY <1>1, <3>2, DeleteCovers
      <4>2. History(prior) /\ dropped \subseteq DOMAIN prior /\ Filed(prior, snaps)
        BY DeviceFacts
      <4>3. k \in DOMAIN snaps
        BY <1>1, DeviceFacts
      <4>4. snaps[k].content \in Files(prior)
        BY <4>2, <4>3 DEF Filed
      <4>5. e \in Values(snaps[k].content)
        BY <2>1, <3>1, <4>1, <4>2, <4>4, LiveFacts, LiveFollows
      <4>6. k \in Sent'
        BY <4>1 DEF Sent
      <4> QED
        BY <1>2, <4>5, <4>6
    <3>3. CASE j \notin remote
      <4>1. j \in Sent'
        BY <1>2, <3>1, <3>3 DEF Sent
      <4> QED
        BY <1>2, <3>1, <4>1
    <3> QED
      BY <3>2, <3>3
  <2> QED
    BY <2>1, <2>2, <2>3 DEF VaultInv, EditsSound
<1>16. SnapsSound(prior', dropped', snaps')
  BY <1>2, DeviceFacts
<1>17. FieldsSound'
  <2>1. Contents' = Contents
    BY <1>2 DEF Contents
  <2>2. FieldsSound
    BY DEF VaultInv
  <2> QED
    BY <2>1, <2>2, FieldsKept
<1>18. Onward(d)
  BY <1>2, FollowsSelf DEF Onward
<1> QED
  BY <1>14, <1>15, <1>16, <1>17, <1>18 DEF VaultInv

-----------------------------------------------------------------------------
(* Changes of a vault *)

\* A device stays sound when its vault moves on.
LEMMA SoundOnward ==
  ASSUME NEW p, NEW q, NEW p2, NEW q2, Longer(p, q, p2, q2), NEW s, Graph(s), Filed(p, s),
         NEW v, NEW o, NEW D, NEW r, Sound(p, q, s, v, o, D, r),
         NEW v2 \in Files(p2), v2 # None, v # None => Follows(p2, q2, v, v2)
  PROVE  Sound(p2, q2, s, v2, o, D, r)
<1>1. v \in Files(p) \cup {None} /\ D \in DiskType /\ r \in RunType /\ Named(s, v, o, D, r)
      /\ DiskSound(p, q, s, v, D) /\ RunSound(p, q, s, v, o, r)
  BY DEF Sound
<1>2. Named(s, v2, o, D, r)
  BY <1>1 DEF Named
<1>3. Larger(s, s)
  BY DEF Larger, Graph
<1>4. ASSUME NEW ck, Based(p, q, s, ck, v) PROVE Based(p2, q2, s, ck, v2)
  <2>1. v # None /\ v \in Files(p)
    BY <1>1, <1>4 DEF Based
  <2> QED
    BY <1>3, <1>4, <2>1, BasedKept
<1>5. DiskSound(p2, q2, s, v2, D)
  <2>1. D.ck # None => Based(p2, q2, s, D.ck, v2)
    BY <1>1, <1>4 DEF DiskSound
  <2>2. ASSUME NEW i \in D.outbox PROVE Follows(p2, q2, s[i].content, v2)
    <3>1. v # None /\ Follows(p, q, s[i].content, v)
      BY <1>1 DEF DiskSound
    <3>2. v \in Files(p) /\ v \in Files(p2)
      BY <1>1, <3>1, FilesKept
    <3>3. Follows(p2, q2, s[i].content, v)
      BY <3>1, <3>2, FollowsKept
    <3>4. History(p2) /\ q2 \subseteq DOMAIN p2
      BY DEF Longer
    <3> QED
      BY <3>1, <3>2, <3>3, <3>4, FollowsTrans
  <2> QED
    BY <2>1, <2>2 DEF DiskSound
<1>6. RunSound(p2, q2, s, v2, o, r)
  BY <1>1, <1>4 DEF RunSound
<1> QED
  BY <1>1, <1>2, <1>5, <1>6 DEF Sound

\* What is known of a run that holds the mutex.
Inside(p, q, s, R, v, o, r) ==
  /\ r \in RunType /\ r.pc \in {"merge", "save"}
  /\ r.todo \subseteq DOMAIN s /\ r.listed \subseteq DOMAIN s /\ r.heads \subseteq DOMAIN s
  /\ r.sending = None /\ Listed(s, R, r) /\ RunSound(p, q, s, v, o, r)

LEMMA RunInside ==
  ASSUME NEW p, NEW q, NEW s, NEW R, NEW v, NEW o, NEW D, NEW r, NEW r2,
         Sound(p, q, s, v, o, D, r), Inside(p, q, s, R, v, o, r2)
  PROVE  Sound(p, q, s, v, o, D, r2)
<1>1. v \in Files(p) \cup {None} /\ D \in DiskType /\ Named(s, v, o, D, r) /\ DiskSound(p, q, s, v, D)
  BY DEF Sound
<1>2. Named(s, v, o, D, r2)
  BY <1>1 DEF Named, Inside
<1> QED
  BY <1>1, <1>2 DEF Sound, Inside

\* A content made of fields of others, and a new value at h.
Mixed(c0, h, new) ==
  /\ \A c \in Contents : \A f \in Fields : c[f] # new
  /\ \A f \in Fields : (\E c \in Contents : c0[f] = c[f]) \/ (f = h /\ c0[f] = new)

LEMMA FieldsMixed ==
  ASSUME FieldsSound, NEW c0, Contents' \subseteq Contents \cup {c0}, NEW h, NEW new, Mixed(c0, h, new)
  PROVE  FieldsSound'
<1> SUFFICES ASSUME NEW c \in Contents', NEW e \in Contents', NEW f \in Fields, NEW g \in Fields,
                    c[f] = e[g], c[f] # 0
             PROVE  f = g
  BY DEF FieldsSound
<1>1. (\E x \in Contents : c[f] = x[f]) \/ (f = h /\ c[f] = new)
  BY DEF Mixed
<1>2. (\E x \in Contents : e[g] = x[g]) \/ (g = h /\ e[g] = new)
  BY DEF Mixed
<1>3. CASE c[f] = new
  BY <1>1, <1>2, <1>3 DEF Mixed
<1>4. CASE c[f] # new
  <2>1. PICK x \in Contents : c[f] = x[f]
    BY <1>1, <1>4
  <2>2. PICK y \in Contents : e[g] = y[g]
    BY <1>2, <1>4
  <2>3. x[f] = y[g] /\ x[f] # 0
    BY <2>1, <2>2
  <2>4. \A a, b \in Contents : \A k, l \in Fields : a[k] = b[l] /\ a[k] # 0 => k = l
    BY DEF FieldsSound
  <2> QED
    BY <2>3, <2>4
<1> QED
  BY <1>3, <1>4

LEMMA ContentsFiles ==
  ASSUME VaultInv, NEW c \in Contents
  PROVE  c \in Files(prior)
<1>1. CASE \E i \in DOMAIN snaps : c = snaps[i].content
  BY <1>1 DEF VaultInv, Types, Filed
<1>2. CASE \E e \in Devices : vault[e] # None /\ c = vault[e]
  <2>1. PICK e \in Devices : vault[e] # None /\ c = vault[e]
    BY <1>2
  <2>2. Sound(prior, dropped, snaps, vault[e], open[e], disk[e], run[e])
    BY DeviceFacts
  <2> QED
    BY <2>1, <2>2 DEF Sound
<1> QED
  BY <1>1, <1>2 DEF Contents

LEMMA VaultContents ==
  ASSUME VaultInv, NEW d \in Devices, Framed(d), UNCHANGED snaps
  PROVE  Contents' \subseteq Contents \cup {vault'[d]}
<1> SUFFICES ASSUME NEW c \in Contents', c # vault'[d] PROVE c \in Contents
  OBVIOUS
<1>1. CASE \E i \in DOMAIN snaps' : c = snaps'[i].content
  BY <1>1 DEF Contents
<1>2. CASE \E e \in Devices : vault'[e] # None /\ c = vault'[e]
  BY <1>2 DEF Contents, Framed
<1> QED
  BY <1>1, <1>2 DEF Contents

LEMMA EditKeeps ==
  ASSUME VaultInv, NEW d \in Devices, Edit(d)
  PROVE  VaultInv' /\ Onward(d)
<1>1. PICK f \in Fields :
        prior' = Append(prior, vault[d][f]) /\ vault' = [vault EXCEPT ![d][f] = Len(prior) + 1]
  BY DEF Edit
<1>2. /\ UNCHANGED <<snaps, remote, open, disk, run, dropped, faults>>
      /\ open[d] /\ Len(prior) < MaxEdits
  BY DEF Edit
<1>3. /\ Sound(prior, dropped, snaps, vault[d], open[d], disk[d], run[d])
      /\ History(prior) /\ dropped \subseteq DOMAIN prior /\ Graph(snaps) /\ Filed(prior, snaps)
  BY DeviceFacts
<1>4. PICK n, v, v2 : n = Len(prior) /\ v = vault[d] /\ v2 = [v EXCEPT ![f] = n + 1]
  OBVIOUS
<1>5. v \in Files(prior) /\ v # None
  BY <1>2, <1>3, <1>4 DEF Sound, Named
<1>6. n \in Nat /\ DOMAIN prior = 1 .. n /\ prior \in Seq(Nat) /\ v[f] \in 0 .. n /\ v[f] \in Nat
  BY <1>3, <1>4, <1>5 DEF History, Files
<1>7. /\ prior' \in Seq(Nat) /\ Len(prior') = n + 1 /\ DOMAIN prior' = 1 .. n + 1
      /\ prior'[n + 1] = v[f] /\ \A e \in 1 .. n : prior'[e] = prior[e]
  BY <1>1, <1>4, <1>6
<1>8. History(prior')
  <2> SUFFICES ASSUME NEW e \in 1 .. n + 1 PROVE prior'[e] \in 0 .. (e - 1)
    BY <1>7 DEF History
  <2>1. CASE e = n + 1
    BY <1>6, <1>7, <2>1
  <2>2. CASE e # n + 1
    <3>1. e \in 1 .. n
      BY <1>6, <2>2
    <3>2. prior[e] \in 0 .. (e - 1) /\ prior'[e] = prior[e]
      BY <1>3, <1>6, <1>7, <3>1 DEF History
    <3> QED
      BY <3>2
  <2> QED
    BY <2>1, <2>2
<1>9. Longer(prior, dropped, prior', dropped')
  <2>1. Len(prior) <= Len(prior') /\ dropped \subseteq DOMAIN prior'
    BY <1>3, <1>4, <1>6, <1>7
  <2> QED
    BY <1>2, <1>3, <1>6, <1>7, <1>8, <2>1 DEF Longer
<1>10. v2 \in Files(prior') /\ v2 # None
  <2>1. \A g \in Fields : v[g] \in 0 .. n + 1
    BY <1>4, <1>5, <1>6 DEF Files
  <2>2. v2 = [g \in Fields |-> IF g = f THEN n + 1 ELSE v[g]]
    BY <1>4, <1>5 DEF Files
  <2>3. n + 1 \in 0 .. n + 1
    BY <1>6
  <2>4. v2 \in [Fields -> 0 .. n + 1]
    BY <2>1, <2>2, <2>3
  <2>5. n + 1 \in 0 .. MaxEdits /\ 0 .. n + 1 \subseteq 0 .. MaxEdits
    BY <1>2, <1>4, <1>6, Bounds
  <2>6. v2 \in Content
    BY <2>4, <2>5 DEF Content, Fields
  <2> QED
    BY <1>7, <2>4, <2>6, NoneIsNothing DEF Files
<1>11. vault' = [vault EXCEPT ![d] = v2] /\ vault'[d] = v2
  BY <1>1, <1>4, DeviceFunctions
<1>12. v2[f] = n + 1 /\ \A g \in Fields \ {f} : v2[g] = v[g]
  BY <1>4, <1>5 DEF Files
<1>13. Follows(prior', dropped', v, v2)
  <2> SUFFICES ASSUME NEW g \in Fields PROVE Under(prior', dropped', v[g], v2[g])
    BY DEF Follows
  <2>1. CASE g # f
    BY <1>12, <2>1 DEF Under
  <2>2. CASE g = f
    <3>1. PICK p : p = prior'
      OBVIOUS
    <3>2. n + 1 \in 0 .. Len(p) /\ n + 1 # 0 /\ History(p) /\ p[n + 1] = v[f]
      BY <1>6, <1>7, <1>8, <3>1
    <3>3. v[f] \in Below(p, n + 1)
      BY <3>2, BelowSteps
    <3> QED
      BY <1>12, <2>2, <3>1, <3>3 DEF Under
  <2> QED
    BY <2>1, <2>2
<1>14. Framed(d)
  BY <1>2, <1>11, FrameFacts
<1>15. Onward(d)
  BY <1>4, <1>10, <1>11, <1>13 DEF Onward
<1>16. Grown
  <2>1. Filed(prior', snaps)
    BY <1>3, <1>9, FilesKept DEF Filed
  <2>2. Len(prior') <= MaxEdits
    BY <1>2, <1>4, <1>6, <1>7, Bounds
  <2> QED
    BY <1>2, <1>9, <2>1, <2>2, DeviceFacts DEF Grown
<1>17. Sound2(d)
  <2>1. PICK p2, q2 : p2 = prior' /\ q2 = dropped'
    OBVIOUS
  <2>2. Sound(prior, dropped, snaps, v, open[d], disk[d], run[d])
    BY <1>3, <1>4
  <2>3. Longer(prior, dropped, p2, q2) /\ v2 \in Files(p2) /\ Follows(p2, q2, v, v2)
    BY <1>9, <1>10, <1>13, <2>1
  <2>4. Sound(p2, q2, snaps, v2, open[d], disk[d], run[d])
    BY <1>3, <1>10, <2>2, <2>3, SoundOnward
  <2> QED
    BY <1>2, <1>11, <2>1, <2>4 DEF Sound2
<1>18. FieldsSound'
  <2>1. Contents' \subseteq Contents \cup {v2}
    BY <1>2, <1>11, <1>14, VaultContents
  <2>2. \A c \in Contents : \A g \in Fields : c[g] # n + 1
    <3> SUFFICES ASSUME NEW c \in Contents, NEW g \in Fields PROVE c[g] # n + 1
      OBVIOUS
    <3>1. c[g] \in 0 .. n
      BY <1>4, ContentsFiles DEF Files
    <3> QED
      BY <1>6, <3>1
  <2>3. v \in Contents
    BY <1>4, <1>5 DEF Contents
  <2>4. \A g \in Fields : (\E c \in Contents : v2[g] = c[g]) \/ (g = f /\ v2[g] = n + 1)
    BY <1>12, <2>3
  <2>5. FieldsSound
    BY DEF VaultInv
  <2>6. PICK m : m = n + 1
    OBVIOUS
  <2>7. Mixed(v2, f, m)
    BY <2>2, <2>4, <2>6 DEF Mixed
  <2> QED
    BY <2>1, <2>5, <2>7, FieldsMixed
<1>19. \A e \in Live' : e \in Live \/ (vault'[d] # None /\ e \in Values(vault'[d]))
  <2> SUFFICES ASSUME NEW e \in Live', e \notin Live PROVE vault'[d] # None /\ e \in Values(vault'[d])
    OBVIOUS
  <2>1. e \in DOMAIN prior' /\ e \notin Earlier(prior') /\ e \notin dropped
    BY <1>2 DEF Live, Earlier
  <2>2. Earlier(prior) \subseteq Earlier(prior')
    <3> SUFFICES ASSUME NEW g \in DOMAIN prior PROVE prior[g] \in Earlier(prior')
      BY DEF Earlier
    <3>1. g \in DOMAIN prior' /\ prior'[g] = prior[g]
      BY <1>6, <1>7
    <3> QED
      BY <3>1 DEF Earlier
  <2>3. e \notin DOMAIN prior
    BY <2>1, <2>2 DEF Live, Earlier
  <2>4. e = n + 1
    BY <1>6, <1>7, <2>1, <2>3
  <2> QED
    BY <1>10, <1>11, <1>12, <2>4 DEF Values
<1>20. \A j \in DOMAIN snaps' \ DOMAIN snaps : \A i \in snaps'[j].parents :
         Follows(prior', dropped', snaps'[i].content, snaps'[j].content)
  BY <1>2
<1>21. Listed(snaps', remote', run'[d]) /\ remote' = remote
  BY <1>2, DeviceFacts
<1> QED
  BY <1>14, <1>15, <1>16, <1>17, <1>18, <1>19, <1>20, <1>21, WholeStep

-----------------------------------------------------------------------------
(* Synchronize *)

\* A set of snapshots has one member just if its cardinality is one.
LEMMA OneHead ==
  ASSUME VaultInv, NEW S, S \subseteq DOMAIN snaps
  PROVE  Cardinality(S) = 1 <=> \E i : S = {i}
<1>1. Len(snaps) \in Nat /\ DOMAIN snaps = 1 .. Len(snaps)
  BY DEF VaultInv, Types, Graph
<1>2. IsFiniteSet(1 .. Len(snaps))
  BY <1>1, FS_Interval
<1>3. IsFiniteSet(S)
  BY <1>1, <1>2, FS_Subset
<1> QED
  BY <1>3, FS_Singleton

\* The checkpoint that synchronize starts from, and its revision.
LEMMA LoadedBased ==
  ASSUME VaultInv, NEW d \in Devices, vault[d] # None
  PROVE  /\ Based(prior, dropped, snaps, LoadedCheckpoint(d), vault[d])
         /\ LoadedCheckpoint(d) \in Checkpoint
         /\ LoadedCheckpoint(d).heads \subseteq Known(d)
         /\ AuthenticatedRev(LoadedCheckpoint(d)) # None =>
              \E h \in DOMAIN snaps : /\ LoadedCheckpoint(d).heads = {h}
                                      /\ AuthenticatedRev(LoadedCheckpoint(d)) = snaps[h].content
<1>1. PICK ck : ck = LoadedCheckpoint(d)
  OBVIOUS
<1>2. CASE disk[d].ck = None
  <2>1. ck = [heads |-> {}, rev |-> None]
    BY <1>1, <1>2 DEF LoadedCheckpoint
  <2>2. ck.heads = {} /\ ck.rev = None
    BY <2>1
  <2>3. Based(prior, dropped, snaps, ck, vault[d])
    BY <2>2 DEF Based
  <2>4. Cardinality(ck.heads) # 1
    BY <2>2, FS_EmptySet
  <2>5. AuthenticatedRev(ck) = None
    BY <2>2, <2>4 DEF AuthenticatedRev
  <2>6. ck \in Checkpoint
    BY <2>1 DEF Checkpoint
  <2> QED
    BY <1>1, <2>2, <2>3, <2>5, <2>6
<1>3. CASE disk[d].ck # None
  <2>1. ck = disk[d].ck
    BY <1>1, <1>3 DEF LoadedCheckpoint
  <2>2. Sound(prior, dropped, snaps, vault[d], open[d], disk[d], run[d])
    BY DeviceFacts
  <2>3. Based(prior, dropped, snaps, ck, vault[d])
    BY <1>3, <2>1, <2>2 DEF Sound, DiskSound
  <2>4. ck.heads \subseteq Known(d)
    BY <1>3, <2>1 DEF Known
  <2>5. ck \in Checkpoint
    BY <1>3, <2>1, HeldFacts DEF DiskType
  <2>6. ck.heads \subseteq DOMAIN snaps
    BY <2>3 DEF Based
  <2>7. AuthenticatedRev(ck) # None =>
          \E h \in DOMAIN snaps : ck.heads = {h} /\ AuthenticatedRev(ck) = snaps[h].content
    <3>1. CASE ck.rev = None /\ Cardinality(ck.heads) = 1
      <4>1. PICK h : ck.heads = {h}
        BY <2>6, <3>1, OneHead
      <4>2. (CHOOSE x \in ck.heads : TRUE) = h
        BY <4>1
      <4> QED
        BY <2>6, <3>1, <4>1, <4>2 DEF AuthenticatedRev
    <3>2. CASE ~(ck.rev = None /\ Cardinality(ck.heads) = 1)
      <4>1. AuthenticatedRev(ck) = ck.rev
        BY <3>2 DEF AuthenticatedRev
      <4> QED
        BY <2>3, <4>1 DEF Based
    <3> QED
      BY <3>1, <3>2
  <2> QED
    BY <1>1, <2>3, <2>4, <2>5, <2>7
<1> QED
  BY <1>2, <1>3

LEMMA KnownFacts ==
  ASSUME VaultInv, NEW d \in Devices
  PROVE  Known(d) \subseteq DOMAIN snaps /\ HeadsOf(Known(d)) \subseteq Known(d)
BY HeldFacts, RunFacts DEF Known, HeadsOf

\* A single head has taken up all that is known.
LEMMA OnlyHead ==
  ASSUME VaultInv, NEW d \in Devices, NEW i, HeadsOf(Known(d)) = {i}, NEW k \in Known(d)
  PROVE  Follows(prior, dropped, snaps[k].content, snaps[i].content)
<1>1. PICK S : S = Known(d)
  OBVIOUS
<1>2. S \subseteq DOMAIN snaps /\ k \in S
  BY <1>1, KnownFacts
<1>3. HeadsOf(S) = S \ ParentsIn(snaps, S)
  BY DEF HeadsOf, Parents, ParentsIn
<1>4. \E h \in S \ ParentsIn(snaps, S) : Follows(prior, dropped, snaps[k].content, snaps[h].content)
  BY <1>2, DeviceFacts, HeadFollows
<1> QED
  BY <1>1, <1>3, <1>4

\* What can be taken over whole has taken up the vault.
LEMMA ForwardFollows ==
  ASSUME VaultInv, NEW d \in Devices, open[d], NEW i, HeadsOf(Known(d)) = {i}, CanFastForward(d, i)
  PROVE  Follows(prior, dropped, vault[d], snaps[i].content)
<1>1. vault[d] # None
  <2>1. Sound(prior, dropped, snaps, vault[d], open[d], disk[d], run[d])
    BY DeviceFacts
  <2> QED
    BY <2>1 DEF Sound, Named
<1>2. AuthenticatedRev(LoadedCheckpoint(d)) = vault[d]
  BY DEF CanFastForward
<1>3. PICK h \in DOMAIN snaps : LoadedCheckpoint(d).heads = {h} /\ vault[d] = snaps[h].content
  BY <1>1, <1>2, LoadedBased
<1>4. h \in Known(d)
  BY <1>1, <1>3, LoadedBased
<1> QED
  BY <1>3, <1>4, OnlyHead

\* A step of synchronize that may take the vault on to v2.
LEMMA VaultMove ==
  ASSUME VaultInv, NEW d \in Devices, UNCHANGED <<snaps, remote, open, prior, dropped>>,
         faults' \in 0 .. MaxFaults,
         NEW v2 \in Files(prior), v2 # None, vault[d] # None => Follows(prior, dropped, vault[d], v2),
         vault' = [vault EXCEPT ![d] = v2],
         NEW D2, disk' = [disk EXCEPT ![d] = D2], Held(prior, dropped, snaps, v2, D2),
         NEW r2, run' = [run EXCEPT ![d] = r2],
         Outside(snaps, remote, r2) \/ Inside(prior, dropped, snaps, remote, v2, open[d], r2),
         NEW h, NEW new, Mixed(v2, h, new)
  PROVE  VaultInv' /\ Onward(d)
<1>1. Framed(d)
  <2>1. open' = open
    OBVIOUS
  <2>2. \E x : vault' = [vault EXCEPT ![d] = x]
    OBVIOUS
  <2>3. \E x : disk' = [disk EXCEPT ![d] = x]
    OBVIOUS
  <2>4. \E x : run' = [run EXCEPT ![d] = x]
    OBVIOUS
  <2> QED
    BY <2>1, <2>2, <2>3, <2>4, FrameFacts
<1>2. vault'[d] = v2 /\ disk'[d] = D2 /\ run'[d] = r2 /\ open'[d] = open[d]
  BY DeviceFunctions
<1>3. Onward(d)
  BY <1>2 DEF Onward
<1>4. Grown
  BY DeviceFacts DEF Grown
<1>5. Sound(prior, dropped, snaps, v2, open[d], disk[d], run[d])
  BY DeviceFacts, SoundOnward
<1>6. Sound(prior, dropped, snaps, v2, open[d], D2, run[d])
  BY <1>5, DiskMoves
<1>7. Sound(prior, dropped, snaps, v2, open[d], D2, r2)
  BY <1>6, RunOutside, RunInside
<1>8. Sound2(d)
  BY <1>2, <1>7 DEF Sound2
<1>9. Listed(snaps', remote', run'[d])
  BY <1>2 DEF Outside, Inside
<1>10. FieldsSound'
  <2>1. Contents' \subseteq Contents \cup {v2}
    BY <1>1, <1>2, VaultContents
  <2>2. FieldsSound
    BY DEF VaultInv
  <2> QED
    BY <2>1, <2>2, FieldsMixed
<1>11. Live' = Live /\ remote' = remote /\ DOMAIN snaps' = DOMAIN snaps
  BY DEF Live
<1> QED
  BY <1>1, <1>3, <1>4, <1>8, <1>9, <1>10, <1>11, WholeStep

\* A content that is there already is of no new mix.
LEMMA OldContent ==
  ASSUME VaultInv, NEW c \in Contents
  PROVE  Mixed(c, "header", Len(prior) + 1) /\ c \in Files(prior) /\ c # None
<1>1. Len(prior) \in Nat /\ Len(prior) <= MaxEdits /\ MaxEdits \in Nat
  BY Bounds DEF VaultInv, Types, History
<1>2. ASSUME NEW x \in Contents PROVE x \in Files(prior) /\ \A f \in Fields : x[f] # Len(prior) + 1
  <2>1. x \in Files(prior)
    BY ContentsFiles
  <2> SUFFICES ASSUME NEW f \in Fields PROVE x[f] # Len(prior) + 1
    BY <2>1
  <2>2. x[f] \in 0 .. Len(prior)
    BY <2>1 DEF Files
  <2> QED
    BY <1>1, <2>2
<1>3. Files(prior) \subseteq Content
  <2>1. 0 .. Len(prior) \subseteq 0 .. MaxEdits
    BY <1>1
  <2> QED
    BY <2>1 DEF Files, Content, Fields
<1>4. c # None
  BY <1>2, <1>3, NoneIsNothing
<1> QED
  BY <1>2, <1>4 DEF Mixed

LEMMA SnapContent ==
  ASSUME VaultInv, NEW i \in DOMAIN snaps
  PROVE  snaps[i].content \in Contents
BY DEF Contents

LEMMA VaultContent ==
  ASSUME NEW d \in Devices, vault[d] # None
  PROVE  vault[d] \in Contents
BY DEF Contents

LEMMA SynchronizeLockedKeeps ==
  ASSUME VaultInv, NEW d \in Devices, SynchronizeLocked(d)
  PROVE  VaultInv' /\ Onward(d)
<1>1. PICK heads : heads = HeadsOf(Known(d))
  OBVIOUS
<1>2. /\ run[d].pc = "synchronize" /\ ~open[d]
      /\ UNCHANGED <<snaps, remote, open, prior, dropped>>
  BY DEF SynchronizeLocked
<1>3. heads \subseteq DOMAIN snaps /\ {} \subseteq DOMAIN snaps
  BY <1>1, KnownFacts
<1>4. CASE MayRestore(d, heads)
  <2>1. PICK ck : ck = [heads |-> heads, rev |-> LoadedCheckpoint(d).rev]
    OBVIOUS
  <2>2. /\ \E i \in heads : vault' = [vault EXCEPT ![d] = snaps[i].content]
        /\ \/ /\ disk' = [disk EXCEPT ![d].ck = ck] /\ run' = [run EXCEPT ![d] = LastFlush(d, {})]
              /\ UNCHANGED faults
           \/ /\ faults < MaxFaults /\ faults' = faults + 1 /\ End(d) /\ UNCHANGED disk
    BY <1>1, <1>4, <2>1 DEF SynchronizeLocked
  <2>3. PICK i \in heads : vault' = [vault EXCEPT ![d] = snaps[i].content]
    BY <2>2
  <2>4. vault[d] = None /\ heads = {i}
    BY <1>3, <1>4, OneHead DEF MayRestore
  <2>5. PICK v2 : v2 = snaps[i].content
    OBVIOUS
  <2>6. v2 \in Contents /\ i \in DOMAIN snaps
    BY <1>3, <2>5, SnapContent
  <2>7. v2 \in Files(prior) /\ v2 # None /\ Mixed(v2, "header", Len(prior) + 1)
    BY <2>6, OldContent
  <2>8. disk[d].ck = None /\ disk[d].outbox = {}
    BY <2>4, HeldFacts DEF Held
  <2>9. ck.heads = {i} /\ ck.rev = None /\ ck \in Checkpoint
    <3>1. LoadedCheckpoint(d).rev = None
      BY <2>8 DEF LoadedCheckpoint
    <3>2. heads \subseteq Ids
      BY <1>3, HeldFacts
    <3> QED
      BY <2>1, <2>4, <3>1, <3>2 DEF Checkpoint
  <2>10. Based(prior, dropped, snaps, ck, v2)
    BY <2>5, <2>6, <2>7, <2>9, FollowsSelf DEF Based
  <2>11. ASSUME NEW D2 \in DiskType, D2.outbox = {}, D2.cache = disk[d].cache, D2.tx = None,
                D2.conflicts = disk[d].conflicts, D2.ck \in {None, ck}
         PROVE  Held(prior, dropped, snaps, v2, D2)
    BY <2>10, <2>11, HeldFacts DEF Held
  <2>12. disk[d].tx = None
    BY <2>8, HeldFacts DEF Held
  <2>13. PICK D2 : D2 = [disk[d] EXCEPT !.ck = ck]
    OBVIOUS
  <2>14. Held(prior, dropped, snaps, v2, D2)
    <3>1. D2 \in DiskType /\ D2.outbox = {} /\ D2.cache = disk[d].cache /\ D2.tx = None
          /\ D2.conflicts = disk[d].conflicts /\ D2.ck = ck
      BY <2>8, <2>9, <2>12, <2>13, HeldFacts DEF DiskType
    <3> QED
      BY <2>11, <3>1
  <2>15. Held(prior, dropped, snaps, v2, disk[d])
    BY <2>8, <2>11, <2>12, HeldFacts
  <2>16. vault' = [vault EXCEPT ![d] = v2]
    BY <2>3, <2>5
  <2>17. CASE /\ disk' = [disk EXCEPT ![d].ck = ck] /\ run' = [run EXCEPT ![d] = LastFlush(d, {})]
              /\ UNCHANGED faults
    <3>1. disk' = [disk EXCEPT ![d] = D2]
      BY <2>13, <2>17
    <3>2. Outside(snaps, remote, LastFlush(d, {}))
      BY <1>2, <1>3, LastFlushOutside
    <3>3. faults' \in 0 .. MaxFaults
      BY <2>17, DeviceFacts
    <3> QED
      BY <1>2, <2>4, <2>7, <2>14, <2>16, <2>17, <3>1, <3>2, <3>3, VaultMove
  <2>18. CASE faults < MaxFaults /\ faults' = faults + 1 /\ End(d) /\ UNCHANGED disk
    <3>1. disk' = [disk EXCEPT ![d] = disk[d]]
      BY <2>18, DeviceFunctions
    <3>2. Outside(snaps, remote, NoRun)
      BY NoRunOutside
    <3>3. faults' \in 0 .. MaxFaults
      BY <2>18, Faulty
    <3>4. run' = [run EXCEPT ![d] = NoRun]
      BY <2>18 DEF End
    <3> QED
      BY <1>2, <2>4, <2>7, <2>15, <2>16, <3>1, <3>2, <3>3, <3>4, VaultMove
  <2> QED
    BY <2>2, <2>17, <2>18
<1>5. CASE ~MayRestore(d, heads)
  <2>1. PICK hs : hs = IF vault[d] = None THEN heads ELSE {}
    OBVIOUS
  <2>2. run' = [run EXCEPT ![d] = LastFlush(d, hs)] /\ UNCHANGED <<vault, disk, faults>>
    BY <1>1, <1>5, <2>1 DEF SynchronizeLocked
  <2>3. hs \subseteq DOMAIN snaps
    BY <1>3, <2>1
  <2>4. Outside(snaps, remote, LastFlush(d, hs))
    BY <1>2, <2>3, LastFlushOutside
  <2>5. faults' \in 0 .. MaxFaults
    BY <2>2, DeviceFacts
  <2> QED
    BY <1>2, <2>2, <2>4, <2>5, RunMoves
<1> QED
  BY <1>4, <1>5

\* The checkpoint after the single-head cases, for the vault v2 after them.
LEMMA HeadBased ==
  ASSUME VaultInv, NEW d \in Devices, open[d], NEW heads, heads = HeadsOf(Known(d)),
         NEW v2, v2 = Forwarded(d, heads)
  PROVE  /\ vault[d] # None /\ v2 \in Contents /\ Follows(prior, dropped, vault[d], v2)
         /\ HeadCheckpoint(d, heads) \in Checkpoint
         /\ Based(prior, dropped, snaps, HeadCheckpoint(d, heads), v2)
<1>1. vault[d] # None
  <2>1. Sound(prior, dropped, snaps, vault[d], open[d], disk[d], run[d])
    BY DeviceFacts
  <2> QED
    BY <2>1 DEF Sound, Named
<1>2. heads \subseteq DOMAIN snaps /\ heads \subseteq Ids
  BY KnownFacts, HeldFacts
<1>3. PICK ck, rev : ck = LoadedCheckpoint(d) /\ rev = AuthenticatedRev(ck)
  OBVIOUS
<1>4. /\ Based(prior, dropped, snaps, ck, vault[d]) /\ ck \in Checkpoint
      /\ rev # None => \E h \in DOMAIN snaps : ck.heads = {h} /\ rev = snaps[h].content
  BY <1>1, <1>3, LoadedBased
<1>5. \A h \in DOMAIN snaps : snaps[h].content \in Content
  <2>1. Graph(snaps)
    BY DeviceFacts
  <2>2. snaps \in Seq(Snapshot)
    BY <2>1 DEF Graph
  <2>3. \A h \in DOMAIN snaps : snaps[h] \in Snapshot
    BY <2>2
  <2> QED
    BY <2>3 DEF Snapshot
<1>6. CASE \E i : heads = {i} /\ (snaps[i].content = vault[d] \/ CanFastForward(d, i))
  <2>1. PICK i : heads = {i} /\ (snaps[i].content = vault[d] \/ CanFastForward(d, i))
    BY <1>6
  <2>2. Cardinality(heads) = 1 /\ (CHOOSE h \in heads : TRUE) = i /\ i \in DOMAIN snaps
    BY <1>2, <2>1, OneHead
  <2>3. PICK c : c = [heads |-> heads, rev |-> snaps[i].content]
    OBVIOUS
  <2>4. HeadCheckpoint(d, heads) = c
    BY <2>1, <2>2, <2>3 DEF HeadCheckpoint
  <2>5. c \in Checkpoint
    BY <1>2, <1>5, <2>2, <2>3 DEF Checkpoint
  <2>6. v2 = snaps[i].content
    <3>1. CASE CanFastForward(d, i)
      <4>1. FastForward(d, heads)
        BY <2>1, <3>1 DEF FastForward
      <4> QED
        BY <2>2, <4>1 DEF Forwarded
    <3>2. CASE ~CanFastForward(d, i)
      <4>1. ~FastForward(d, heads)
        BY <2>1, <3>2 DEF FastForward
      <4> QED
        BY <2>1, <3>2, <4>1 DEF Forwarded
    <3> QED
      BY <3>1, <3>2
  <2>7. v2 \in Contents
    BY <2>2, <2>6, SnapContent
  <2>8. v2 # None
    BY <2>7, OldContent
  <2>9. Based(prior, dropped, snaps, c, v2)
    BY <2>1, <2>2, <2>3, <2>6, <2>8, FollowsSelf DEF Based
  <2>10. Follows(prior, dropped, vault[d], v2)
    <3>1. CASE CanFastForward(d, i)
      BY <2>1, <2>6, <3>1, ForwardFollows
    <3>2. CASE snaps[i].content = vault[d]
      BY <2>6, <3>2, FollowsSelf
    <3> QED
      BY <2>1, <3>1, <3>2
  <2> QED
    BY <1>1, <2>4, <2>5, <2>7, <2>9, <2>10
<1>7. CASE ~\E i : heads = {i} /\ (snaps[i].content = vault[d] \/ CanFastForward(d, i))
  <2>1. ~FastForward(d, heads)
    BY <1>7 DEF FastForward
  <2>2. v2 = vault[d] /\ v2 \in Contents
    BY <1>1, <2>1, VaultContent DEF Forwarded
  <2>3. PICK c : c = [heads |-> ck.heads, rev |-> rev]
    OBVIOUS
  <2>4. HeadCheckpoint(d, heads) = c
    <3>1. PICK i : i = CHOOSE h \in heads : TRUE
      OBVIOUS
    <3>2. ~(Cardinality(heads) = 1 /\ (snaps[i].content = vault[d] \/ CanFastForward(d, i)))
      <4>1. Cardinality(heads) = 1 => heads = {i}
        BY <1>2, <3>1, OneHead
      <4> QED
        BY <1>7, <4>1
    <3> QED
      BY <1>3, <2>3, <3>1, <3>2 DEF HeadCheckpoint
  <2>5. ck.heads \subseteq Ids /\ rev \in Content \cup {None}
    BY <1>4, <1>5 DEF Checkpoint
  <2>6. c \in Checkpoint
    BY <2>3, <2>5 DEF Checkpoint
  <2>7. c.heads = ck.heads /\ c.rev = rev
    BY <2>3
  <2>8. Based(prior, dropped, snaps, c, v2)
    BY <1>4, <2>2, <2>7 DEF Based
  <2> QED
    BY <1>1, <2>2, <2>4, <2>6, <2>8, FollowsSelf
<1> QED
  BY <1>6, <1>7

LEMMA SynchronizeUnlockedKeeps ==
  ASSUME VaultInv, NEW d \in Devices, SynchronizeUnlocked(d)
  PROVE  VaultInv' /\ Onward(d)
<1>1. /\ run[d].pc = "synchronize" /\ open[d]
      /\ UNCHANGED <<snaps, remote, open, disk, prior, dropped, faults>>
  BY DEF SynchronizeUnlocked
<1>2. PICK heads, ck : heads = HeadsOf(Known(d)) /\ ck = HeadCheckpoint(d, heads)
  OBVIOUS
<1>3. PICK v2 : v2 = Forwarded(d, heads)
  OBVIOUS
<1>4. /\ vault[d] # None /\ v2 \in Contents /\ Follows(prior, dropped, vault[d], v2)
      /\ ck \in Checkpoint /\ Based(prior, dropped, snaps, ck, v2)
  BY <1>1, <1>2, <1>3, HeadBased
<1>5. v2 \in Files(prior) /\ v2 # None /\ Mixed(v2, "header", Len(prior) + 1)
  BY <1>4, OldContent
<1>6. PICK local, todo :
        /\ local = LocalHead(ck)
        /\ todo = IF Cardinality(ck.heads) = 1 THEN heads \ ck.heads ELSE {}
  OBVIOUS
<1>7. heads \subseteq DOMAIN snaps /\ DOMAIN snaps \subseteq Ids /\ todo \subseteq DOMAIN snaps
  BY <1>2, <1>6, KnownFacts, HeldFacts
<1>8. ck.heads \subseteq DOMAIN snaps
  BY <1>4 DEF Based
<1>9. local \in Ids \cup {None} /\ (ck.heads # {} => local \in ck.heads)
  <2>1. local \in ck.heads \cup {None} /\ (ck.heads # {} => local \in ck.heads)
    BY <1>6 DEF LocalHead
  <2> QED
    BY <1>7, <1>8, <2>1
<1>10. todo # {} => local \in ck.heads
  <2>1. Cardinality(ck.heads) = 1 => ck.heads # {}
    BY <1>8, OneHead
  <2> QED
    BY <1>6, <1>9, <2>1
<1>11. vault' = [vault EXCEPT ![d] = v2]
  BY <1>2, <1>3 DEF SynchronizeUnlocked
<1>12. PICK r2 : r2 = [run[d] EXCEPT !.pc = "merge", !.heads = heads, !.ck = ck, !.local = local, !.todo = todo]
  OBVIOUS
<1>13. /\ run' = [run EXCEPT ![d] = r2] /\ r2 \in RunType
       /\ r2.pc = "merge" /\ r2.heads = heads /\ r2.ck = ck /\ r2.local = local /\ r2.todo = todo
       /\ r2.listed = run[d].listed /\ r2.sending = run[d].sending
  <2>1. heads \subseteq Ids /\ todo \subseteq Ids
    BY <1>7
  <2>2. run' = [run EXCEPT ![d] = r2]
    BY <1>2, <1>6, <1>12 DEF SynchronizeUnlocked
  <2>3. run[d] = [pc |-> run[d].pc, last |-> run[d].last, todo |-> run[d].todo, listed |-> run[d].listed,
                  heads |-> run[d].heads, local |-> run[d].local, ck |-> run[d].ck, sending |-> run[d].sending]
    BY RunFacts DEF RunType
  <2>4. r2 = [pc |-> "merge", last |-> run[d].last, todo |-> todo, listed |-> run[d].listed,
              heads |-> heads, local |-> local, ck |-> ck, sending |-> run[d].sending]
    BY <1>12, <2>3
  <2>5. r2 \in RunType
    BY <1>4, <1>9, <2>1, <2>4, RunFacts DEF RunType
  <2> QED
    BY <2>2, <2>4, <2>5
<1>14. ck # None
  BY <1>4, NoneIsNothing
<1>15. RunSound(prior, dropped, snaps, v2, open[d], r2)
  BY <1>1, <1>4, <1>10, <1>13, <1>14 DEF RunSound
<1>16. Listed(snaps, remote, r2)
  BY <1>1, <1>13, DeviceFacts DEF Listed
<1>17. run[d].sending = None /\ run[d].listed \subseteq DOMAIN snaps
  BY <1>1, RunFacts
<1>18. Inside(prior, dropped, snaps, remote, v2, open[d], r2)
  BY <1>7, <1>13, <1>15, <1>16, <1>17 DEF Inside
<1>19. Held(prior, dropped, snaps, v2, disk[d])
  <2>1. Sound(prior, dropped, snaps, v2, open[d], disk[d], run[d])
    BY <1>4, <1>5, DeviceFacts, SoundOnward
  <2> QED
    BY <2>1, DiskHeld
<1>20. disk' = [disk EXCEPT ![d] = disk[d]]
  BY <1>1, DeviceFunctions
<1>21. faults' \in 0 .. MaxFaults
  BY <1>1, DeviceFacts
<1>22. vault[d] # None => Follows(prior, dropped, vault[d], v2)
  BY <1>4
<1> QED
  BY <1>1, <1>5, <1>11, <1>13, <1>18, <1>19, <1>20, <1>21, <1>22, VaultMove

LEMMA FilesNone ==
  ASSUME VaultInv, NEW c \in Files(prior)
  PROVE  c \in Content /\ c # None
<1>1. 0 .. Len(prior) \subseteq 0 .. MaxEdits
  BY Bounds DEF VaultInv, Types, History
<1>2. c \in Content
  BY <1>1 DEF Files, Content, Fields
<1> QED
  BY <1>2, NoneIsNothing

\* A merge takes up both sides.
OfBase(p, q, l, r, b) ==
  /\ l \in Files(p) /\ r \in Files(p) /\ b \in Files(p)
  /\ Follows(p, q, b, l) /\ Follows(p, q, b, r) /\ CanMerge(l, r, b)

LEMMA MergedFollows ==
  ASSUME NEW p, NEW q, NEW l, NEW r, NEW b, OfBase(p, q, l, r, b), NEW m, m = Merged(l, r, b)
  PROVE  /\ m \in Files(p) /\ Follows(p, q, l, m) /\ Follows(p, q, r, m)
         /\ \A f \in Fields : m[f] = l[f] \/ m[f] = r[f]
<1>1. /\ l \in Files(p) /\ r \in Files(p) /\ b \in Files(p)
      /\ Follows(p, q, b, l) /\ Follows(p, q, b, r) /\ CanMerge(l, r, b)
  BY DEF OfBase
<1>2. m = [f \in Fields |-> IF l[f] = r[f] \/ r[f] = b[f] THEN l[f] ELSE r[f]]
  BY DEF Merged
<1>3. \A f \in Fields : l[f] \in 0 .. Len(p) /\ r[f] \in 0 .. Len(p)
  BY <1>1 DEF Files
<1>4. \A f \in Fields : (m[f] = l[f] \/ m[f] = r[f]) /\ m[f] \in 0 .. Len(p)
  BY <1>2, <1>3
<1>5. m \in Files(p)
  BY <1>2, <1>3 DEF Files
<1>6. ASSUME NEW f \in Fields
      PROVE  Under(p, q, l[f], m[f]) /\ Under(p, q, r[f], m[f])
  <2>1. l[f] = r[f] \/ r[f] = b[f] \/ l[f] = b[f]
    BY <1>1 DEF CanMerge, Fields
  <2>2. Under(p, q, b[f], l[f]) /\ Under(p, q, b[f], r[f])
    BY <1>1 DEF Follows
  <2>3. \A x : Under(p, q, x, x)
    BY DEF Under
  <2>4. CASE l[f] = r[f]
    BY <1>4, <2>3, <2>4
  <2>5. CASE r[f] = b[f]
    <3>1. m[f] = l[f]
      BY <1>2, <2>5
    <3> QED
      BY <2>2, <2>3, <2>5, <3>1
  <2>6. CASE l[f] # r[f] /\ r[f] # b[f]
    <3>1. m[f] = r[f] /\ l[f] = b[f]
      BY <1>2, <2>1, <2>6
    <3> QED
      BY <2>2, <2>3, <3>1
  <2> QED
    BY <2>4, <2>5, <2>6
<1>7. Follows(p, q, l, m) /\ Follows(p, q, r, m)
  BY <1>6 DEF Follows
<1> QED
  BY <1>4, <1>5, <1>7

LEMMA MergeHeadKeeps ==
  ASSUME VaultInv, NEW d \in Devices, MergeHead(d)
  PROVE  VaultInv' /\ Onward(d)
<1>1. /\ run[d].pc = "merge"
      /\ UNCHANGED <<snaps, remote, open, disk, prior, dropped, faults>>
  BY DEF MergeHead
<1>2. PICK i \in run[d].todo :
        \/ /\ snaps[i].content = vault[d] /\ vault' = [vault EXCEPT ![d] = vault[d]]
           /\ run' = [run EXCEPT ![d] = [run[d] EXCEPT !.todo = @ \ {i},
                        !.ck = [heads |-> run[d].ck.heads \cup {i}, rev |-> None]]]
        \/ run' = [run EXCEPT ![d].todo = @ \ {i}] /\ UNCHANGED vault
        \/ \E b \in CommonAncestors(run[d].local, i, Known(d)) :
             /\ CanMerge(vault[d], snaps[i].content, snaps[b].content)
             /\ vault' = [vault EXCEPT ![d] = Merged(vault[d], snaps[i].content, snaps[b].content)]
             /\ run' = [run EXCEPT ![d] = [run[d] EXCEPT !.todo = @ \ {i},
                          !.ck = [heads |-> run[d].ck.heads \cup {i}, rev |-> None]]]
  BY DEF MergeHead
<1>3. PICK v, r, ck, taken :
        /\ v = vault[d] /\ r = snaps[i].content /\ ck = [heads |-> run[d].ck.heads \cup {i}, rev |-> None]
        /\ taken = [run[d] EXCEPT !.todo = @ \ {i}, !.ck = [heads |-> run[d].ck.heads \cup {i}, rev |-> None]]
  OBVIOUS
<1>4. Sound(prior, dropped, snaps, v, open[d], disk[d], run[d])
  BY <1>3, DeviceFacts
<1>5. /\ open[d] /\ run[d].ck # None /\ Based(prior, dropped, snaps, run[d].ck, v)
      /\ run[d].local \in run[d].ck.heads
  BY <1>1, <1>4 DEF Sound, RunSound
<1>6. v # None /\ v \in Files(prior) /\ v \in Contents
  BY <1>3, <1>4, <1>5, VaultContent DEF Sound, Based
<1>7. i \in DOMAIN snaps /\ DOMAIN snaps \subseteq Ids /\ run[d].local \in DOMAIN snaps
      /\ run[d].ck \in Checkpoint
  BY <1>5, RunFacts DEF Based
<1>8. r \in Contents /\ r \in Files(prior)
  BY <1>3, <1>7, SnapContent, OldContent
<1>9. /\ faults' \in 0 .. MaxFaults /\ run[d].sending = None
      /\ disk' = [disk EXCEPT ![d] = disk[d]]
  BY <1>1, DeviceFacts, RunFacts, DeviceFunctions
<1>10. ck.heads = run[d].ck.heads \cup {i} /\ ck.rev = None /\ ck \in Checkpoint /\ ck # None
  <2>1. ck.heads = run[d].ck.heads \cup {i} /\ ck.rev = None
    BY <1>3
  <2>2. ck \in Checkpoint
    BY <1>3, <1>7 DEF Checkpoint
  <2> QED
    BY <2>1, <2>2, NoneIsNothing
<1>11. /\ taken \in RunType /\ taken.pc = "merge" /\ taken.todo = run[d].todo \ {i} /\ taken.ck = ck
       /\ taken.listed = run[d].listed /\ taken.heads = run[d].heads /\ taken.local = run[d].local
       /\ taken.sending = None
  <2>1. run[d] = [pc |-> run[d].pc, last |-> run[d].last, todo |-> run[d].todo, listed |-> run[d].listed,
                  heads |-> run[d].heads, local |-> run[d].local, ck |-> run[d].ck, sending |-> run[d].sending]
    BY RunFacts DEF RunType
  <2>2. taken = [pc |-> "merge", last |-> run[d].last, todo |-> run[d].todo \ {i}, listed |-> run[d].listed,
                 heads |-> run[d].heads, local |-> run[d].local, ck |-> ck, sending |-> None]
    BY <1>1, <1>3, <1>9, <2>1
  <2>3. taken \in RunType
    BY <1>10, <2>2, RunFacts DEF RunType
  <2> QED
    BY <2>2, <2>3
<1>12. Listed(snaps, remote, taken)
  BY <1>1, <1>11, DeviceFacts DEF Listed
<1>13. ASSUME NEW v2 \in Files(prior), v2 # None, Follows(prior, dropped, v, v2), Follows(prior, dropped, r, v2),
              Mixed(v2, "header", Len(prior) + 1),
              vault' = [vault EXCEPT ![d] = v2], run' = [run EXCEPT ![d] = taken]
       PROVE  VaultInv' /\ Onward(d)
  <2>1. Sound(prior, dropped, snaps, v2, open[d], disk[d], run[d])
    BY <1>4, <1>13, DeviceFacts, SoundOnward
  <2>2. Held(prior, dropped, snaps, v2, disk[d])
    BY <2>1, DiskHeld
  <2>3. Based(prior, dropped, snaps, run[d].ck, v2)
    BY <1>1, <2>1 DEF Sound, RunSound
  <2>4. Based(prior, dropped, snaps, ck, v2)
    BY <1>3, <1>7, <1>10, <1>13, <2>3 DEF Based
  <2>5. RunSound(prior, dropped, snaps, v2, open[d], taken)
    BY <1>5, <1>10, <1>11, <2>4 DEF RunSound
  <2>6. Inside(prior, dropped, snaps, remote, v2, open[d], taken)
    BY <1>11, <1>12, <2>5, RunFacts DEF Inside
  <2>7. vault[d] # None => Follows(prior, dropped, vault[d], v2)
    BY <1>3, <1>13
  <2> QED
    BY <1>1, <1>9, <1>13, <2>2, <2>6, <2>7, VaultMove
<1>14. CASE /\ snaps[i].content = vault[d] /\ vault' = [vault EXCEPT ![d] = vault[d]]
            /\ run' = [run EXCEPT ![d] = [run[d] EXCEPT !.todo = @ \ {i},
                         !.ck = [heads |-> run[d].ck.heads \cup {i}, rev |-> None]]]
  <2>1. v = r /\ vault' = [vault EXCEPT ![d] = v] /\ run' = [run EXCEPT ![d] = taken]
    BY <1>3, <1>14
  <2>2. Mixed(v, "header", Len(prior) + 1)
    BY <1>6, OldContent
  <2>3. Follows(prior, dropped, v, v) /\ Follows(prior, dropped, r, v)
    BY <2>1, FollowsSelf
  <2> QED
    BY <1>6, <1>13, <2>1, <2>2, <2>3
<1>15. CASE run' = [run EXCEPT ![d].todo = @ \ {i}] /\ UNCHANGED vault
  <2>1. PICK r2 : r2 = [run[d] EXCEPT !.todo = @ \ {i}]
    OBVIOUS
  <2>2. run' = [run EXCEPT ![d] = r2]
    BY <1>15, <2>1
  <2>3. r2 \in RunType
    BY <2>1, RunFacts DEF RunType
  <2>4. /\ r2.pc = "merge" /\ r2.todo = run[d].todo \ {i} /\ r2.ck = run[d].ck
        /\ r2.listed = run[d].listed /\ r2.heads = run[d].heads /\ r2.local = run[d].local
        /\ r2.sending = None
    BY <1>1, <1>9, <2>1, RunFacts DEF RunType
  <2>5. RunSound(prior, dropped, snaps, v, open[d], r2)
    BY <1>5, <2>4 DEF RunSound
  <2>6. Listed(snaps, remote, r2)
    BY <1>1, <2>4, DeviceFacts DEF Listed
  <2>7. Inside(prior, dropped, snaps, remote, v, open[d], r2)
    BY <2>3, <2>4, <2>5, <2>6, RunFacts DEF Inside
  <2>8. Held(prior, dropped, snaps, v, disk[d])
    BY <1>4, DiskHeld
  <2>9. vault' = [vault EXCEPT ![d] = v]
    BY <1>3, <1>15, DeviceFunctions
  <2>10. Mixed(v, "header", Len(prior) + 1)
    BY <1>6, OldContent
  <2>11. vault[d] # None => Follows(prior, dropped, vault[d], v)
    BY <1>3, FollowsSelf
  <2> QED
    BY <1>1, <1>6, <1>9, <2>2, <2>7, <2>8, <2>9, <2>10, <2>11, VaultMove
<1>16. CASE \E b \in CommonAncestors(run[d].local, i, Known(d)) :
              /\ CanMerge(vault[d], snaps[i].content, snaps[b].content)
              /\ vault' = [vault EXCEPT ![d] = Merged(vault[d], snaps[i].content, snaps[b].content)]
              /\ run' = [run EXCEPT ![d] = [run[d] EXCEPT !.todo = @ \ {i},
                           !.ck = [heads |-> run[d].ck.heads \cup {i}, rev |-> None]]]
  <2>1. PICK b, c : /\ b \in CommonAncestors(run[d].local, i, Known(d)) /\ c = snaps[b].content
                    /\ CanMerge(v, r, c) /\ vault' = [vault EXCEPT ![d] = Merged(v, r, c)]
                    /\ run' = [run EXCEPT ![d] = taken]
    BY <1>3, <1>16
  <2>2. /\ b \in Within(run[d].local, MaxSnaps, Known(d)) /\ b \in Within(i, MaxSnaps, Known(d))
    BY <2>1 DEF CommonAncestors
  <2>3. \A j : Within(j, MaxSnaps, Known(d)) = Reach(snaps, j, MaxSnaps, Known(d))
    BY DEF Within, Reach, Parents, ParentsIn
  <2>4. b \in Reach(snaps, run[d].local, MaxSnaps, Known(d)) /\ b \in Reach(snaps, i, MaxSnaps, Known(d))
    BY <2>2, <2>3
  <2>5. PICK j, known : j = run[d].local /\ known = Known(d)
    OBVIOUS
  <2>6. j \in DOMAIN snaps /\ known \subseteq DOMAIN snaps
        /\ b \in Reach(snaps, j, MaxSnaps, known) /\ b \in Reach(snaps, i, MaxSnaps, known)
    BY <1>7, <2>4, <2>5, KnownFacts
  <2>7. History(prior) /\ dropped \subseteq DOMAIN prior /\ Graph(snaps) /\ Filed(prior, snaps)
        /\ SnapsSound(prior, dropped, snaps)
    BY DeviceFacts
  <2>8. b \in DOMAIN snaps /\ Follows(prior, dropped, c, snaps[j].content) /\ Follows(prior, dropped, c, r)
    BY <1>3, <1>7, <2>1, <2>6, <2>7, ReachFollows
  <2>9. Follows(prior, dropped, snaps[j].content, v) /\ snaps[j].content \in Files(prior)
        /\ c \in Files(prior)
    BY <1>5, <2>1, <2>5, <2>6, <2>7, <2>8 DEF Based, Filed
  <2>10. Follows(prior, dropped, c, v)
    BY <1>6, <2>7, <2>8, <2>9, FollowsTrans
  <2>11. PICK v2 : v2 = Merged(v, r, c)
    OBVIOUS
  <2>12. /\ v2 \in Files(prior) /\ Follows(prior, dropped, v, v2) /\ Follows(prior, dropped, r, v2)
         /\ \A f \in Fields : v2[f] = v[f] \/ v2[f] = r[f]
    <3>1. OfBase(prior, dropped, v, r, c)
      BY <1>6, <1>8, <2>1, <2>8, <2>9, <2>10 DEF OfBase
    <3> QED
      BY <2>11, <3>1, MergedFollows
  <2>13. Mixed(v2, "header", Len(prior) + 1)
    <3>1. \A f \in Fields : \E e \in Contents : v2[f] = e[f]
      BY <1>6, <1>8, <2>12
    <3>2. \A e \in Contents : \A f \in Fields : e[f] # Len(prior) + 1
      BY <1>6, OldContent DEF Mixed
    <3> QED
      BY <3>1, <3>2 DEF Mixed
  <2>14. v2 # None
    BY <1>1, <2>12, FilesNone
  <2>15. vault' = [vault EXCEPT ![d] = v2] /\ run' = [run EXCEPT ![d] = taken]
    BY <2>1, <2>11
  <2> QED
    BY <1>13, <2>12, <2>13, <2>14, <2>15
<1> QED
  BY <1>2, <1>14, <1>15, <1>16

-----------------------------------------------------------------------------
(* Staging a snapshot *)

\* Graph s2 adds to the graph only snapshots of d's vault, built on what that has taken up.
Extended(d, s2) ==
  /\ Larger(snaps, s2) /\ Filed(prior, s2)
  /\ \A j \in DOMAIN s2 \ DOMAIN snaps :
       /\ vault[d] # None /\ s2[j].content = vault[d]
       /\ \A h \in s2[j].parents : Follows(prior, dropped, s2[h].content, vault[d])

LEMMA NotExtended ==
  ASSUME VaultInv, NEW d \in Devices
  PROVE  Extended(d, snaps)
BY DeviceFacts DEF Extended

\* s2 is the graph with a snapshot i of d's vault, built on P.
Appends(d, P, i, s2) ==
  /\ vault[d] # None
  /\ P \subseteq DOMAIN snaps /\ \A h \in P : Follows(prior, dropped, snaps[h].content, vault[d])
  /\ i = Len(snaps) + 1 /\ i <= MaxSnaps
  /\ s2 = Append(snaps, [parents |-> P, content |-> vault[d]])

LEMMA Appended ==
  ASSUME VaultInv, NEW d \in Devices, NEW P, NEW i, NEW s2, Appends(d, P, i, s2)
  PROVE  /\ Extended(d, s2) /\ i \in DOMAIN s2 /\ i \in Ids /\ s2[i].content = vault[d]
         /\ DOMAIN snaps \subseteq DOMAIN s2 /\ DOMAIN s2 \subseteq Ids
<1>0. /\ vault[d] # None
      /\ P \subseteq DOMAIN snaps /\ \A h \in P : Follows(prior, dropped, snaps[h].content, vault[d])
      /\ i = Len(snaps) + 1 /\ i <= MaxSnaps
      /\ s2 = Append(snaps, [parents |-> P, content |-> vault[d]])
  BY DEF Appends
<1>1. /\ Sound(prior, dropped, snaps, vault[d], open[d], disk[d], run[d])
      /\ History(prior) /\ dropped \subseteq DOMAIN prior /\ Graph(snaps) /\ Filed(prior, snaps)
  BY DeviceFacts
<1>2. PICK n, new : n = Len(snaps) /\ new = [parents |-> P, content |-> vault[d]]
  OBVIOUS
<1>3. n \in Nat /\ snaps \in Seq(Snapshot) /\ DOMAIN snaps = 1 .. n
  BY <1>1, <1>2 DEF Graph
<1>4. vault[d] \in Files(prior) /\ vault[d] \in Content
  BY <1>0, <1>1, FilesNone DEF Sound
<1>5. MaxSnaps \in Nat /\ i = n + 1 /\ i \in Ids /\ 1 .. n \subseteq Ids /\ 1 .. n + 1 \subseteq Ids
  BY <1>0, <1>2, <1>3, Bounds DEF Ids
<1>6. new \in Snapshot /\ new.parents = P /\ new.content = vault[d]
  BY <1>0, <1>2, <1>3, <1>4, <1>5 DEF Snapshot
<1>7. /\ s2 \in Seq(Snapshot) /\ Len(s2) = n + 1 /\ DOMAIN s2 = 1 .. n + 1
      /\ s2[n + 1] = new /\ \A j \in 1 .. n : s2[j] = snaps[j]
  BY <1>0, <1>2, <1>3, <1>6
<1>8. \A j \in 1 .. n + 1 : j = n + 1 \/ j \in 1 .. n
  BY <1>3
<1>9. Graph(s2)
  <2>1. ASSUME NEW j \in 1 .. n PROVE s2[j].parents \subseteq 1 .. (j - 1)
    BY <1>1, <1>3, <1>7 DEF Graph
  <2>2. s2[n + 1].parents \subseteq 1 .. (n + 1 - 1)
    BY <1>0, <1>3, <1>6, <1>7
  <2>3. ASSUME NEW j \in 1 .. n + 1 PROVE s2[j].parents \subseteq 1 .. (j - 1)
    <3>1. CASE j = n + 1
      BY <1>3, <2>2, <3>1
    <3>2. CASE j \in 1 .. n
      BY <2>1, <3>2
    <3> QED
      BY <1>8, <3>1, <3>2
  <2> QED
    BY <1>0, <1>2, <1>5, <1>7, <2>3 DEF Graph
<1>10. Larger(snaps, s2)
  BY <1>1, <1>2, <1>3, <1>7, <1>9 DEF Larger
<1>11. Filed(prior, s2)
  <2>1. \A j \in 1 .. n : s2[j].content \in Files(prior)
    BY <1>1, <1>3, <1>7 DEF Filed
  <2>2. s2[n + 1].content \in Files(prior)
    BY <1>4, <1>6, <1>7
  <2> QED
    BY <1>7, <1>8, <2>1, <2>2 DEF Filed
<1>12. ASSUME NEW j \in DOMAIN s2 \ DOMAIN snaps
       PROVE  /\ s2[j].content = vault[d]
              /\ \A h \in s2[j].parents : Follows(prior, dropped, s2[h].content, vault[d])
  <2>1. j = n + 1
    BY <1>3, <1>7, <1>8
  <2>2. s2[j] = new
    BY <1>7, <2>1
  <2>3. \A h \in P : s2[h] = snaps[h]
    BY <1>0, <1>3, <1>7
  <2> QED
    BY <1>0, <1>6, <2>2, <2>3
<1>13. Extended(d, s2)
  BY <1>0, <1>10, <1>11, <1>12 DEF Extended
<1> QED
  BY <1>3, <1>5, <1>6, <1>7, <1>13

LEMMA HeldKept ==
  ASSUME NEW p, NEW q, Longer(p, q, p, q), NEW s, NEW s2, Larger(s, s2), Filed(p, s),
         NEW v \in Files(p) \cup {None}, NEW D, Held(p, q, s, v, D)
  PROVE  Held(p, q, s2, v, D)
<1>1. Named(s, v, FALSE, D, NoRun)
  <2>1. NoRun.todo = {} /\ NoRun.listed = {} /\ NoRun.heads = {} /\ NoRun.sending = None
    BY DEF NoRun
  <2> QED
    BY <2>1 DEF Named, Held
<1>2. RunSound(p, q, s, v, FALSE, NoRun)
  BY DEF RunSound, NoRun
<1>3. D \in DiskType /\ DiskSound(p, q, s, v, D)
  BY DEF Held, DiskSound
<1>4. Sound(p, q, s, v, FALSE, D, NoRun)
  BY <1>1, <1>2, <1>3, NoRunType DEF Sound
<1>5. Sound(p, q, s2, v, FALSE, D, NoRun)
  BY <1>4, SoundKept
<1> QED
  BY <1>5, DiskHeld

LEMMA OutsideKept ==
  ASSUME NEW s, NEW s2, Larger(s, s2), NEW R, R \subseteq DOMAIN s, NEW r, Outside(s, R, r)
  PROVE  Outside(s2, R, r)
<1>1. DOMAIN s \subseteq DOMAIN s2
  BY DEF Larger, Graph
<1>2. Listed(s2, R, r)
  <2>1. Listed(s, R, r)
    BY DEF Outside
  <2> QED
    BY <2>1, ListedKept
<1> QED
  BY <1>1, <1>2 DEF Outside

LEMMA FreeOutside ==
  ASSUME VaultInv, NEW d \in Devices, run[d].pc \notin {"merge", "save"}
  PROVE  Outside(snaps, remote, run[d])
BY RunFacts, DeviceFacts DEF Outside

LEMMA StageMove ==
  ASSUME VaultInv, NEW d \in Devices, UNCHANGED <<remote, vault, prior, dropped>>,
         open' = open \/ open' = [open EXCEPT ![d] = FALSE], faults' \in 0 .. MaxFaults,
         NEW s2, snaps' = s2, Extended(d, s2),
         NEW D2, disk' = [disk EXCEPT ![d] = D2], Held(prior, dropped, s2, vault[d], D2),
         NEW r2, run' = [run EXCEPT ![d] = r2],
         Outside(s2, remote, r2) \/ (open' = open /\ Inside(prior, dropped, s2, remote, vault[d], open[d], r2))
  PROVE  VaultInv' /\ Onward(d)
<1>1. Framed(d)
  <2>1. vault' = vault
    OBVIOUS
  <2>2. \E x : disk' = [disk EXCEPT ![d] = x]
    OBVIOUS
  <2>3. \E x : run' = [run EXCEPT ![d] = x]
    OBVIOUS
  <2>4. open' = open \/ \E x \in BOOLEAN : open' = [open EXCEPT ![d] = x]
    OBVIOUS
  <2> QED
    BY <2>1, <2>2, <2>3, <2>4, FrameFacts
<1>2. disk'[d] = D2 /\ run'[d] = r2 /\ vault'[d] = vault[d]
  BY DeviceFunctions
<1>3. /\ Sound(prior, dropped, snaps, vault[d], open[d], disk[d], run[d])
      /\ Filed(prior, snaps) /\ remote \subseteq DOMAIN snaps
      /\ Longer(prior, dropped, prior, dropped) /\ Len(prior) <= MaxEdits
  BY DeviceFacts
<1>4. Larger(snaps, s2) /\ Filed(prior, s2) /\ DOMAIN snaps \subseteq DOMAIN s2
  BY DEF Extended, Larger, Graph
<1>5. open'[d] => open[d]
  BY DEF VaultInv, Types
<1>6. open'[d] => vault[d] # None
  BY <1>3, <1>5 DEF Sound, Named
<1>7. Onward(d)
  BY FollowsSelf DEF Onward
<1>8. Grown
  BY <1>3, <1>4 DEF Grown
<1>9. Sound(prior, dropped, s2, vault[d], open[d], D2, run[d])
  <2>1. Sound(prior, dropped, s2, vault[d], open[d], disk[d], run[d])
    BY <1>3, <1>4, SoundKept
  <2> QED
    BY <2>1, DiskMoves
<1>10. Sound(prior, dropped, s2, vault[d], open'[d], D2, r2)
  <2>1. PICK o2 : o2 = open'[d]
    OBVIOUS
  <2>2. CASE Outside(s2, remote, r2)
    <3>1. o2 => vault[d] # None
      BY <1>6, <2>1
    <3>2. Sound(prior, dropped, s2, vault[d], o2, D2, r2)
      BY <1>9, <2>2, <3>1, RunOutside
    <3> QED
      BY <2>1, <3>2
  <2>3. CASE open' = open /\ Inside(prior, dropped, s2, remote, vault[d], open[d], r2)
    <3>1. Sound(prior, dropped, s2, vault[d], open[d], D2, r2)
      BY <1>9, <2>3, RunInside
    <3> QED
      BY <2>3, <3>1
  <2> QED
    BY <2>2, <2>3
<1>11. Sound2(d)
  BY <1>2, <1>10 DEF Sound2
<1>12. Listed(snaps', remote', run'[d])
  BY <1>2 DEF Outside, Inside
<1>13. FieldsSound'
  <2>1. Contents' \subseteq Contents
    <3> SUFFICES ASSUME NEW c \in Contents' PROVE c \in Contents
      OBVIOUS
    <3>1. CASE \E i \in DOMAIN s2 : c = s2[i].content
      <4>1. PICK i \in DOMAIN s2 : c = s2[i].content
        BY <3>1
      <4>2. CASE i \in DOMAIN snaps
        BY <1>4, <4>1, <4>2 DEF Larger, Contents
      <4>3. CASE i \notin DOMAIN snaps
        BY <4>1, <4>3, VaultContent DEF Extended
      <4> QED
        BY <4>2, <4>3
    <3>2. CASE \E e \in Devices : vault[e] # None /\ c = vault[e]
      BY <3>2 DEF Contents
    <3> QED
      BY <3>1, <3>2 DEF Contents
  <2>2. FieldsSound
    BY DEF VaultInv
  <2> QED
    BY <2>1, <2>2, FieldsKept
<1>14. \A j \in DOMAIN snaps' \ DOMAIN snaps : \A i \in snaps'[j].parents :
         Follows(prior', dropped', snaps'[i].content, snaps'[j].content)
  BY DEF Extended
<1>15. Live' = Live /\ remote' = remote
  BY DEF Live
<1> QED
  BY <1>1, <1>7, <1>8, <1>11, <1>12, <1>13, <1>14, <1>15, WholeStep

LEMMA PublishKeeps ==
  ASSUME VaultInv, NEW d \in Devices, Publish(d)
  PROVE  VaultInv' /\ Onward(d)
<1>1. /\ run[d].pc = "merge" /\ run[d].todo = {}
      /\ UNCHANGED <<remote, vault, open, prior, dropped, faults>>
  BY DEF Publish
<1>2. PICK v, ck, i : v = vault[d] /\ ck = run[d].ck /\ i = Len(snaps) + 1
  OBVIOUS
<1>3. Sound(prior, dropped, snaps, v, open[d], disk[d], run[d]) /\ Held(prior, dropped, snaps, v, disk[d])
  BY <1>2, DeviceFacts, DiskHeld
<1>4. open[d] /\ ck # None /\ Based(prior, dropped, snaps, ck, v) /\ ck \in Checkpoint
  BY <1>1, <1>2, <1>3, RunFacts DEF Sound, RunSound
<1>5. v # None /\ ck.heads \subseteq DOMAIN snaps /\ \A h \in ck.heads : Follows(prior, dropped, snaps[h].content, v)
  BY <1>4 DEF Based
<1>6. faults' \in 0 .. MaxFaults /\ open' = open
  BY <1>1, DeviceFacts
<1>7. run[d] = [pc |-> run[d].pc, last |-> run[d].last, todo |-> run[d].todo, listed |-> run[d].listed,
                heads |-> run[d].heads, local |-> run[d].local, ck |-> run[d].ck, sending |-> run[d].sending]
  BY RunFacts DEF RunType
<1>8. run[d].sending = None /\ run[d].listed \subseteq DOMAIN snaps /\ run[d].heads \subseteq DOMAIN snaps
      /\ DOMAIN snaps \subseteq Ids /\ Listed(snaps, remote, run[d]) /\ remote \subseteq DOMAIN snaps
  BY <1>1, RunFacts, DeviceFacts
<1>9. CASE run' = [run EXCEPT ![d].pc = "save"] /\ UNCHANGED <<snaps, disk>>
  <2>1. PICK r2 : r2 = [run[d] EXCEPT !.pc = "save"]
    OBVIOUS
  <2>2. r2 = [pc |-> "save", last |-> run[d].last, todo |-> {}, listed |-> run[d].listed,
              heads |-> run[d].heads, local |-> run[d].local, ck |-> ck, sending |-> None]
    BY <1>1, <1>2, <1>7, <1>8, <2>1
  <2>3. r2 \in RunType
    BY <1>2, <2>2, RunFacts DEF RunType
  <2>4. RunSound(prior, dropped, snaps, v, open[d], r2)
    BY <1>4, <2>2 DEF RunSound
  <2>5. Listed(snaps, remote, r2)
    BY <1>1, <1>8, <2>2 DEF Listed
  <2>6. Inside(prior, dropped, snaps, remote, v, open[d], r2)
    BY <1>8, <2>2, <2>3, <2>4, <2>5 DEF Inside
  <2>7. run' = [run EXCEPT ![d] = r2] /\ disk' = [disk EXCEPT ![d] = disk[d]] /\ snaps' = snaps
    BY <1>9, <2>1, DeviceFunctions
  <2> QED
    BY <1>1, <1>2, <1>3, <1>6, <2>6, <2>7, NotExtended, StageMove
<1>10. CASE /\ i <= MaxSnaps
            /\ snaps' = Append(snaps, [parents |-> ck.heads, content |-> v])
            /\ disk' = [disk EXCEPT ![d] = [disk[d] EXCEPT !.cache = @ \cup {i}, !.outbox = @ \cup {i}]]
            /\ run' = [run EXCEPT ![d] = [run[d] EXCEPT !.pc = "save", !.heads = (@ \ ck.heads) \cup {i},
                                                        !.ck = [heads |-> {i}, rev |-> v]]]
  <2>1. PICK s2, P : s2 = Append(snaps, [parents |-> ck.heads, content |-> v]) /\ P = ck.heads
    OBVIOUS
  <2>2. /\ Extended(d, s2) /\ i \in DOMAIN s2 /\ i \in Ids /\ s2[i].content = v
        /\ DOMAIN snaps \subseteq DOMAIN s2 /\ DOMAIN s2 \subseteq Ids
    <3>1. P \subseteq DOMAIN snaps /\ \A h \in P : Follows(prior, dropped, snaps[h].content, vault[d])
      BY <1>2, <1>5, <2>1
    <3>2. s2 = Append(snaps, [parents |-> P, content |-> vault[d]]) /\ vault[d] # None
      BY <1>2, <1>5, <2>1
    <3>3. Appends(d, P, i, s2)
      BY <1>2, <1>10, <3>1, <3>2 DEF Appends
    <3>4. /\ Extended(d, s2) /\ i \in DOMAIN s2 /\ i \in Ids /\ s2[i].content = vault[d]
          /\ DOMAIN snaps \subseteq DOMAIN s2 /\ DOMAIN s2 \subseteq Ids
      BY <3>3, Appended
    <3> QED
      BY <1>2, <3>4
  <2>3. Larger(snaps, s2)
    BY <2>2 DEF Extended
  <2>4. Held(prior, dropped, s2, v, disk[d])
    <3>1. v \in Files(prior) \cup {None}
      BY <1>3 DEF Sound
    <3> QED
      BY <1>3, <2>3, <3>1, DeviceFacts, HeldKept
  <2>5. PICK D2 : D2 = [disk[d] EXCEPT !.cache = @ \cup {i}, !.outbox = @ \cup {i}]
    OBVIOUS
  <2>6. /\ D2 \in DiskType /\ D2.ck = disk[d].ck /\ D2.cache = disk[d].cache \cup {i}
        /\ D2.outbox = disk[d].outbox \cup {i} /\ D2.tx = disk[d].tx /\ D2.conflicts = disk[d].conflicts
    <3>1. D2 \in DiskType
      BY <2>2, <2>5, HeldFacts DEF DiskType
    <3> QED
      BY <2>5, <3>1, HeldFacts DEF DiskType
  <2>7. Follows(prior, dropped, s2[i].content, v)
    BY <2>2, FollowsSelf
  <2>8. Held(prior, dropped, s2, v, D2)
    BY <1>5, <2>2, <2>4, <2>6, <2>7 DEF Held
  <2>9. PICK ck2, r2 : /\ ck2 = [heads |-> {i}, rev |-> v]
                       /\ r2 = [run[d] EXCEPT !.pc = "save", !.heads = (@ \ ck.heads) \cup {i}, !.ck = ck2]
    OBVIOUS
  <2>10. v \in Content
    BY <1>3, <1>5, FilesNone DEF Sound
  <2>11. ck2 \in Checkpoint /\ ck2 # None /\ ck2.heads = {i} /\ ck2.rev = v
    <3>1. ck2 \in Checkpoint
      BY <2>2, <2>9, <2>10 DEF Checkpoint
    <3> QED
      BY <2>9, <3>1, NoneIsNothing
  <2>12. Based(prior, dropped, s2, ck2, v)
    BY <1>5, <2>2, <2>7, <2>11 DEF Based
  <2>13. PICK heads : heads = (run[d].heads \ ck.heads) \cup {i}
    OBVIOUS
  <2>14. r2 = [pc |-> "save", last |-> run[d].last, todo |-> {}, listed |-> run[d].listed,
               heads |-> heads, local |-> run[d].local, ck |-> ck2, sending |-> None]
    BY <1>1, <1>7, <1>8, <2>9, <2>13
  <2>15. heads \subseteq DOMAIN s2
    BY <1>8, <2>2, <2>13
  <2>16. r2 \in RunType
    BY <2>2, <2>11, <2>14, <2>15, RunFacts DEF RunType
  <2>17. RunSound(prior, dropped, s2, v, open[d], r2)
    BY <1>4, <2>11, <2>12, <2>14 DEF RunSound
  <2>18. Listed(s2, remote, r2)
    <3>1. Listed(s2, remote, run[d])
      BY <1>8, <2>3, ListedKept
    <3> QED
      BY <1>1, <2>14, <3>1 DEF Listed
  <2>19. Inside(prior, dropped, s2, remote, v, open[d], r2)
    BY <1>8, <2>2, <2>14, <2>15, <2>16, <2>17, <2>18 DEF Inside
  <2>20. snaps' = s2 /\ disk' = [disk EXCEPT ![d] = D2] /\ run' = [run EXCEPT ![d] = r2]
    BY <1>10, <2>1, <2>5, <2>9
  <2> QED
    BY <1>1, <1>2, <1>6, <2>2, <2>8, <2>19, <2>20, StageMove
<1> QED
  BY <1>2, <1>9, <1>10 DEF Publish

-----------------------------------------------------------------------------
(* Queueing local changes *)

\* Fewer pending.
LEMMA HeldLess ==
  ASSUME NEW p, NEW q, NEW s, NEW v, NEW D, Held(p, q, s, v, D),
         NEW D2 \in DiskType, D2.ck = D.ck, D2.outbox \subseteq D.outbox, D2.outbox \subseteq D2.cache,
         D2.cache \subseteq D.cache, D2.conflicts = D.conflicts, D2.tx # None => D.ck # None
  PROVE  Held(p, q, s, v, D2)
BY DEF Held

LEMMA TxFacts ==
  ASSUME NEW D \in DiskType, D.tx # None
  PROVE  D.tx.old_ids \subseteq Ids /\ D.tx.new_id \in Ids
BY DEF DiskType, Compaction

LEMMA FinishedHeld ==
  ASSUME NEW p, NEW q, NEW s, NEW v, NEW D, Held(p, q, s, v, D), D.tx # None
  PROVE  Held(p, q, s, v, Finished(D)) /\ Finished(D).ck = D.ck
<1>1. PICK D2 : D2 = Finished(D)
  OBVIOUS
<1>2. D \in DiskType /\ D.outbox \subseteq D.cache
  BY DEF Held
<1>3. D = [ck |-> D.ck, cache |-> D.cache, outbox |-> D.outbox, tx |-> D.tx, conflicts |-> D.conflicts]
  BY <1>2 DEF DiskType
<1>4. PICK old : old = D.tx.old_ids
  OBVIOUS
<1>5. D2 = [D EXCEPT !.outbox = @ \ old, !.cache = @ \ old, !.tx = None]
  BY <1>1, <1>4 DEF Finished
<1>6. D2 = [ck |-> D.ck, cache |-> D.cache \ old, outbox |-> D.outbox \ old, tx |-> None,
            conflicts |-> D.conflicts]
  BY <1>3, <1>5
<1>7. D2 \in DiskType
  BY <1>2, <1>6 DEF DiskType
<1>8. Held(p, q, s, v, D2)
  BY <1>2, <1>6, <1>7, HeldLess
<1> QED
  BY <1>1, <1>6, <1>8

LEMMA RecoveredHeld ==
  ASSUME NEW p, NEW q, NEW s, NEW v, NEW D, Held(p, q, s, v, D)
  PROVE  Held(p, q, s, v, Recovered(D)) /\ Recovered(D).ck = D.ck
<1>1. CASE D.tx = None
  BY <1>1 DEF Recovered
<1>2. CASE D.tx # None /\ D.ck.heads = {D.tx.new_id}
  <2>1. Recovered(D) = Finished(D)
    BY <1>2 DEF Recovered
  <2>2. Held(p, q, s, v, Finished(D)) /\ Finished(D).ck = D.ck
    BY <1>2, FinishedHeld
  <2> QED
    BY <2>1, <2>2
<1>3. CASE D.tx # None /\ D.ck.heads # {D.tx.new_id}
  <2>1. PICK D2, n : D2 = Recovered(D) /\ n = D.tx.new_id
    OBVIOUS
  <2>2. D \in DiskType /\ D.outbox \subseteq D.cache
    BY DEF Held
  <2>3. D = [ck |-> D.ck, cache |-> D.cache, outbox |-> D.outbox, tx |-> D.tx, conflicts |-> D.conflicts]
    BY <2>2 DEF DiskType
  <2>4. D2 = [D EXCEPT !.outbox = @ \ {n}, !.cache = @ \ {n}, !.tx = None]
    BY <1>3, <2>1 DEF Recovered
  <2>5. D2 = [ck |-> D.ck, cache |-> D.cache \ {n}, outbox |-> D.outbox \ {n}, tx |-> None,
              conflicts |-> D.conflicts]
    BY <2>3, <2>4
  <2>6. D2 \in DiskType
    BY <2>2, <2>5 DEF DiskType
  <2>7. Held(p, q, s, v, D2)
    BY <2>2, <2>5, <2>6, HeldLess
  <2> QED
    BY <2>1, <2>5, <2>7
<1> QED
  BY <1>1, <1>2, <1>3

\* What is pending goes on what it was pending on, which the vault has taken up.
LEMMA PendingBaseFacts ==
  ASSUME VaultInv, NEW d \in Devices, NEW E, Held(prior, dropped, snaps, vault[d], E), E.ck # None,
         NEW P, P = PendingBase(E)
  PROVE  P \subseteq DOMAIN snaps /\ \A h \in P : Follows(prior, dropped, snaps[h].content, vault[d])
<1>1. Based(prior, dropped, snaps, E.ck, vault[d])
  BY DEF Held
<1>2. CASE E.outbox = {}
  BY <1>1, <1>2 DEF PendingBase, Based
<1>3. CASE E.outbox # {}
  <2> SUFFICES ASSUME NEW h \in P
               PROVE  h \in DOMAIN snaps /\ Follows(prior, dropped, snaps[h].content, vault[d])
    OBVIOUS
  <2>1. PICK i \in E.outbox : h \in snaps[i].parents
    BY <1>3 DEF PendingBase, Parents, Roots
  <2>2. /\ Sound(prior, dropped, snaps, vault[d], open[d], disk[d], run[d])
        /\ History(prior) /\ dropped \subseteq DOMAIN prior /\ Graph(snaps) /\ Filed(prior, snaps)
        /\ SnapsSound(prior, dropped, snaps)
    BY DeviceFacts
  <2>3. i \in DOMAIN snaps /\ vault[d] # None /\ Follows(prior, dropped, snaps[i].content, vault[d])
    BY DEF Held
  <2>4. h \in DOMAIN snaps
    BY <2>1, <2>2, <2>3 DEF Graph
  <2>5. Follows(prior, dropped, snaps[h].content, snaps[i].content)
    BY <2>1, <2>2, <2>3 DEF SnapsSound
  <2>6. snaps[i].content \in Files(prior) /\ vault[d] \in Files(prior)
    BY <2>2, <2>3 DEF Filed, Sound
  <2>7. Follows(prior, dropped, snaps[h].content, vault[d])
    BY <2>2, <2>3, <2>5, <2>6, FollowsTrans
  <2> QED
    BY <2>4, <2>7
<1> QED
  BY <1>2, <1>3

\* Whatever of the writes is done, the files are in order.
LEMMA QueuedHeld ==
  ASSUME NEW p, NEW q, NEW s, NEW v \in Content, v # None, NEW E, Held(p, q, s, v, E), E.ck # None,
         NEW i \in DOMAIN s, i \in Ids, s[i].content = v, DOMAIN s \subseteq Ids, NEW n \in 1 .. AllWrites
  PROVE  Held(p, q, s, v, Queued(E, v, i, n))
<1>1. PICK tx, D1, D2, D3, D4, ck :
        /\ tx = [old_head |-> E.ck.heads, old_ids |-> E.outbox, new_id |-> i]
        /\ ck = [heads |-> {i}, rev |-> v]
        /\ D1 = [E EXCEPT !.tx = tx]
        /\ D2 = [D1 EXCEPT !.cache = @ \cup {i}, !.outbox = @ \cup {i}]
        /\ D3 = [D2 EXCEPT !.ck = ck]
        /\ D4 = Finished(D3)
  OBVIOUS
<1>2. Queued(E, v, i, n) \in {D1, D2, D3, D4}
  <2>1. Queued(E, v, i, n) = <<D1, D2, D3, D4>>[n]
    BY <1>1 DEF Queued
  <2>2. n = 1 \/ n = 2 \/ n = 3 \/ n = 4
    BY DEF AllWrites
  <2> QED
    BY <2>1, <2>2
<1>3. /\ E \in DiskType /\ E.outbox \subseteq E.cache /\ E.cache \subseteq DOMAIN s
      /\ E.conflicts \subseteq DOMAIN s /\ Based(p, q, s, E.ck, v)
      /\ \A j \in E.outbox : Follows(p, q, s[j].content, v)
  BY DEF Held
<1>4. E = [ck |-> E.ck, cache |-> E.cache, outbox |-> E.outbox, tx |-> E.tx, conflicts |-> E.conflicts]
  BY <1>3 DEF DiskType
<1>5. E.ck.heads \subseteq Ids /\ E.outbox \subseteq Ids
  BY <1>3 DEF Based
<1>6. tx \in Compaction /\ tx # None
  <2>1. tx \in Compaction
    BY <1>1, <1>5 DEF Compaction
  <2> QED
    BY <2>1, NoneIsNothing
<1>7. ck \in Checkpoint /\ ck # None /\ ck.heads = {i} /\ ck.rev = v
  <2>1. ck \in Checkpoint
    BY <1>1 DEF Checkpoint
  <2> QED
    BY <1>1, <2>1, NoneIsNothing
<1>8. Follows(p, q, s[i].content, v)
  BY FollowsSelf
<1>9. D1 = [ck |-> E.ck, cache |-> E.cache, outbox |-> E.outbox, tx |-> tx, conflicts |-> E.conflicts]
  BY <1>1, <1>4
<1>10. D2 = [ck |-> E.ck, cache |-> E.cache \cup {i}, outbox |-> E.outbox \cup {i}, tx |-> tx,
             conflicts |-> E.conflicts]
  BY <1>1, <1>9
<1>11. D3 = [ck |-> ck, cache |-> E.cache \cup {i}, outbox |-> E.outbox \cup {i}, tx |-> tx,
             conflicts |-> E.conflicts]
  BY <1>1, <1>10
<1>12. D1 \in DiskType /\ D2 \in DiskType /\ D3 \in DiskType
  BY <1>3, <1>6, <1>7, <1>9, <1>10, <1>11 DEF DiskType
<1>13. Held(p, q, s, v, D1)
  BY <1>3, <1>9, <1>12 DEF Held
<1>14. Held(p, q, s, v, D2)
  BY <1>3, <1>8, <1>10, <1>12 DEF Held
<1>15. Based(p, q, s, ck, v)
  BY <1>7, <1>8 DEF Based
<1>16. Held(p, q, s, v, D3)
  BY <1>3, <1>7, <1>8, <1>11, <1>12, <1>15 DEF Held
<1>17. Held(p, q, s, v, D4)
  <2>1. D3.tx # None
    BY <1>6, <1>11
  <2> QED
    BY <1>1, <1>16, <2>1, FinishedHeld
<1> QED
  BY <1>2, <1>13, <1>14, <1>16, <1>17

LEMMA QueueFacts ==
  ASSUME VaultInv, NEW d \in Devices, open[d], NEW ok, queue_local_changes(d, ok)
  PROVE  \E s2, D2 : /\ snaps' = s2 /\ Extended(d, s2)
                     /\ disk' = [disk EXCEPT ![d] = D2] /\ Held(prior, dropped, s2, vault[d], D2)
                     /\ faults' \in 0 .. MaxFaults
<1>1. PICK D, E, i, v : D = disk[d] /\ E = Recovered(D) /\ i = Len(snaps) + 1 /\ v = vault[d]
  OBVIOUS
<1>2. Sound(prior, dropped, snaps, v, open[d], D, run[d]) /\ Held(prior, dropped, snaps, v, D)
  BY <1>1, DeviceFacts, DiskHeld
<1>3. Held(prior, dropped, snaps, v, E) /\ E.ck = D.ck
  BY <1>1, <1>2, RecoveredHeld
<1>4. v # None /\ v \in Files(prior) /\ faults \in 0 .. MaxFaults
  BY <1>2, DeviceFacts DEF Sound, Named
<1>5. v \in Content
  BY <1>4, FilesNone
<1>6. Extended(d, snaps)
  BY NotExtended
<1>7. ASSUME NEW D2 \in {D, E}, disk' = [disk EXCEPT ![d] = D2], UNCHANGED <<snaps, faults>>
      PROVE  \E s2, D3 : /\ snaps' = s2 /\ Extended(d, s2)
                         /\ disk' = [disk EXCEPT ![d] = D3] /\ Held(prior, dropped, s2, vault[d], D3)
                         /\ faults' \in 0 .. MaxFaults
  <2>1. Held(prior, dropped, snaps, vault[d], D2)
    BY <1>1, <1>2, <1>3
  <2>2. snaps' = snaps /\ faults' \in 0 .. MaxFaults
    BY <1>4, <1>7
  <2> QED
    BY <1>6, <1>7, <2>1, <2>2
<1>8. CASE UNCHANGED <<snaps, disk, faults>>
  <2>1. disk' = [disk EXCEPT ![d] = D]
    BY <1>1, <1>8, DeviceFunctions
  <2> QED
    BY <1>7, <1>8, <2>1
<1>9. CASE /\ disk' = [disk EXCEPT ![d] = IF CompactionBails(D) THEN D ELSE E]
           /\ UNCHANGED <<snaps, faults>>
  <2>1. \E D2 \in {D, E} : disk' = [disk EXCEPT ![d] = D2]
    BY <1>9
  <2> QED
    BY <1>7, <1>9, <2>1
<1>10. CASE disk' = [disk EXCEPT ![d] = E] /\ UNCHANGED <<snaps, faults>>
  BY <1>7, <1>10
<1>11. CASE /\ D.ck # None /\ i <= MaxSnaps
            /\ snaps' = Append(snaps, [parents |-> PendingBase(E), content |-> v])
            /\ \E n \in 1 .. AllWrites :
                 /\ disk' = [disk EXCEPT ![d] = Queued(E, v, i, n)]
                 /\ n < AllWrites => faults < MaxFaults
                 /\ faults' = IF n = AllWrites THEN faults ELSE faults + 1
  <2>1. PICK P, s2 : P = PendingBase(E) /\ s2 = Append(snaps, [parents |-> PendingBase(E), content |-> v])
    OBVIOUS
  <2>2. P \subseteq DOMAIN snaps /\ \A h \in P : Follows(prior, dropped, snaps[h].content, vault[d])
    BY <1>1, <1>3, <1>11, <2>1, PendingBaseFacts
  <2>3. Appends(d, P, i, s2)
    BY <1>1, <1>4, <1>11, <2>1, <2>2 DEF Appends
  <2>4. /\ Extended(d, s2) /\ i \in DOMAIN s2 /\ i \in Ids /\ s2[i].content = vault[d]
        /\ DOMAIN snaps \subseteq DOMAIN s2 /\ DOMAIN s2 \subseteq Ids
    BY <2>3, Appended
  <2>5. Larger(snaps, s2)
    BY <2>4 DEF Extended
  <2>6. Held(prior, dropped, s2, v, E)
    BY <1>3, <1>4, <2>5, DeviceFacts, HeldKept
  <2>7. PICK n \in 1 .. AllWrites :
          /\ disk' = [disk EXCEPT ![d] = Queued(E, v, i, n)]
          /\ n < AllWrites => faults < MaxFaults
          /\ faults' = IF n = AllWrites THEN faults ELSE faults + 1
    BY <1>11
  <2>8. Held(prior, dropped, s2, v, Queued(E, v, i, n))
    BY <1>1, <1>3, <1>4, <1>5, <1>11, <2>4, <2>6, QueuedHeld
  <2>9. faults' \in 0 .. MaxFaults
    BY <1>4, <2>7, Bounds DEF AllWrites
  <2>10. snaps' = s2
    BY <1>11, <2>1
  <2> QED
    BY <1>1, <2>4, <2>7, <2>8, <2>9, <2>10
<1>12. \/ UNCHANGED <<snaps, disk, faults>>
       \/ disk' = [disk EXCEPT ![d] = IF CompactionBails(D) THEN D ELSE E] /\ UNCHANGED <<snaps, faults>>
       \/ disk' = [disk EXCEPT ![d] = E] /\ UNCHANGED <<snaps, faults>>
       \/ /\ D.ck # None /\ i <= MaxSnaps
          /\ snaps' = Append(snaps, [parents |-> PendingBase(E), content |-> v])
          /\ \E n \in 1 .. AllWrites :
               /\ disk' = [disk EXCEPT ![d] = Queued(E, v, i, n)]
               /\ n < AllWrites => faults < MaxFaults
               /\ faults' = IF n = AllWrites THEN faults ELSE faults + 1
  BY <1>1 DEF queue_local_changes
<1> QED
  BY <1>8, <1>9, <1>10, <1>11, <1>12

LEMMA ExtendedFacts ==
  ASSUME VaultInv, NEW d \in Devices, NEW s2, Extended(d, s2)
  PROVE  Larger(snaps, s2) /\ DOMAIN snaps \subseteq DOMAIN s2 /\ DOMAIN s2 \subseteq Ids
         /\ remote \subseteq DOMAIN s2
<1>1. Larger(snaps, s2) /\ remote \subseteq DOMAIN snaps
  BY DeviceFacts DEF Extended
<1> QED
  BY <1>1, Bounds DEF Larger, Graph, Ids

\* The queue alone moves, and the session may be locked.
LEMMA QueueKeeps ==
  ASSUME VaultInv, NEW d \in Devices, open[d], run[d].pc \notin {"merge", "save"},
         NEW ok, queue_local_changes(d, ok), UNCHANGED <<remote, vault, run, prior, dropped>>,
         open' = open \/ open' = [open EXCEPT ![d] = FALSE]
  PROVE  VaultInv' /\ Onward(d)
<1>1. PICK s2, D2 : /\ snaps' = s2 /\ Extended(d, s2)
                    /\ disk' = [disk EXCEPT ![d] = D2] /\ Held(prior, dropped, s2, vault[d], D2)
                    /\ faults' \in 0 .. MaxFaults
  BY QueueFacts
<1>2. Larger(snaps, s2) /\ remote \subseteq DOMAIN snaps
  BY <1>1, ExtendedFacts, DeviceFacts
<1>3. Outside(s2, remote, run[d])
  BY <1>2, FreeOutside, OutsideKept
<1>4. run' = [run EXCEPT ![d] = run[d]]
  BY DeviceFunctions
<1> QED
  BY <1>1, <1>3, <1>4, StageMove

LEMMA BeginRunKeeps ==
  ASSUME VaultInv, NEW d \in Devices, BeginRun(d)
  PROVE  VaultInv' /\ Onward(d)
<1>1. run[d].pc = "idle" /\ UNCHANGED <<remote, vault, open, prior, dropped>>
  BY DEF BeginRun
<1>2. CASE open[d] /\ queue_local_changes(d, TRUE) /\ run' = [run EXCEPT ![d] = FirstFlush(disk'[d].outbox)]
  <2>1. PICK s2, D2 : /\ snaps' = s2 /\ Extended(d, s2)
                      /\ disk' = [disk EXCEPT ![d] = D2] /\ Held(prior, dropped, s2, vault[d], D2)
                      /\ faults' \in 0 .. MaxFaults
    BY <1>2, QueueFacts
  <2>2. disk'[d] = D2
    BY <2>1, DeviceFunctions
  <2>3. PICK ids : ids = D2.outbox
    OBVIOUS
  <2>4. run' = [run EXCEPT ![d] = FirstFlush(ids)]
    BY <1>2, <2>2, <2>3
  <2>5. ids \subseteq DOMAIN s2
    BY <2>1, <2>3 DEF Held
  <2>6. DOMAIN s2 \subseteq Ids /\ remote \subseteq DOMAIN s2
    BY <2>1, ExtendedFacts
  <2>7. Outside(s2, remote, FirstFlush(ids))
    <3>1. ids \subseteq Ids
      BY <2>5, <2>6
    <3> QED
      BY <2>5, <2>6, <3>1, FirstFlushOutside
  <2>8. open' = open
    BY <1>1
  <2> QED
    BY <1>1, <2>1, <2>4, <2>7, <2>8, StageMove
<1>3. CASE open[d] /\ queue_local_changes(d, FALSE) /\ UNCHANGED run
  <2>1. open' = open
    BY <1>1
  <2> QED
    BY <1>1, <1>3, <2>1, QueueKeeps
<1>4. CASE /\ ~open[d] /\ run' = [run EXCEPT ![d] = FirstFlush(disk[d].outbox)]
           /\ UNCHANGED <<snaps, disk, faults>>
  <2>1. PICK ids : ids = disk[d].outbox
    OBVIOUS
  <2>2. ids \subseteq DOMAIN snaps /\ ids \subseteq Ids /\ DOMAIN snaps \subseteq Ids
    BY <2>1, HeldFacts
  <2>3. Outside(snaps, remote, FirstFlush(ids))
    BY <2>2, DeviceFacts, FirstFlushOutside
  <2>4. run' = [run EXCEPT ![d] = FirstFlush(ids)] /\ open' = open /\ faults' \in 0 .. MaxFaults
    BY <1>1, <1>4, <2>1, DeviceFacts
  <2> QED
    BY <1>1, <1>4, <2>3, <2>4, RunMoves
<1> QED
  BY <1>2, <1>3, <1>4 DEF BeginRun

LEMMA LockKeeps ==
  ASSUME VaultInv, NEW d \in Devices, lock_session(d)
  PROVE  VaultInv' /\ Onward(d)
<1>1. PICK ok \in BOOLEAN : queue_local_changes(d, ok)
  BY DEF lock_session
<1>2. /\ open[d] /\ run[d].pc \notin {"merge", "save"} /\ open' = [open EXCEPT ![d] = FALSE]
      /\ UNCHANGED <<remote, vault, run, prior, dropped>>
  BY DEF lock_session, MutexFree
<1> QED
  BY <1>1, <1>2, QueueKeeps

-----------------------------------------------------------------------------
(* Choosing a version *)

\* A content takes up another of which it has every edit that is not given up.
LEMMA GivenUpFollows ==
  ASSUME VaultInv, NEW a \in Contents, NEW b \in Contents, NEW q, Values(a) \ (Values(b) \cup {0}) \subseteq q
  PROVE  Follows(prior, q, a, b)
<1> SUFFICES ASSUME NEW f \in Fields PROVE Under(prior, q, a[f], b[f])
  BY DEF Follows
<1>1. b[f] \in 0 .. Len(prior)
  <2>1. b \in Files(prior)
    BY ContentsFiles
  <2> QED
    BY <2>1 DEF Files
<1>2. History(prior)
  BY DEF VaultInv, Types
<1>3. CASE a[f] = 0
  <2>1. Under(prior, q, 0, b[f])
    BY <1>1, <1>2, UnderZero
  <2> QED
    BY <1>3, <2>1
<1>4. CASE a[f] # 0 /\ a[f] \in Values(b)
  <2>1. PICK g \in Fields : a[f] = b[g]
    BY <1>4 DEF Values
  <2>2. FieldsSound
    BY DEF VaultInv
  <2>3. f = g
    BY <1>4, <2>1, <2>2 DEF FieldsSound
  <2> QED
    BY <2>1, <2>3 DEF Under
<1>5. CASE a[f] # 0 /\ a[f] \notin Values(b)
  <2>1. a[f] \in Values(a)
    BY DEF Values
  <2>2. a[f] \in q
    BY <1>5, <2>1
  <2> QED
    BY <2>2 DEF Under
<1> QED
  BY <1>3, <1>4, <1>5

\* A number that a content holds is an edit, or nothing.
LEMMA ValuesEdits ==
  ASSUME VaultInv, NEW c \in Contents
  PROVE  Values(c) \ {0} \subseteq DOMAIN prior
<1> SUFFICES ASSUME NEW f \in Fields, c[f] # 0 PROVE c[f] \in DOMAIN prior
  BY DEF Values
<1>1. c \in Files(prior)
  BY ContentsFiles
<1>2. c[f] \in 0 .. Len(prior)
  BY <1>1 DEF Files
<1>3. Len(prior) \in Nat /\ DOMAIN prior = 1 .. Len(prior)
  BY DEF VaultInv, Types, History
<1> QED
  BY <1>2, <1>3

LEMMA resolveKeeps ==
  ASSUME VaultInv, NEW d \in Devices, resolve(d)
  PROVE  VaultInv' /\ Onward(d)
<1>1. /\ run[d].pc = "idle" /\ open[d] /\ UNCHANGED <<snaps, remote, open, run, prior>>
  BY DEF resolve
<1>2. PICK i \in disk[d].conflicts, accept \in BOOLEAN :
        LET list == disk[d].conflicts
            chosen == IF accept THEN snaps[i].content ELSE vault[d]
            lost == ((UNION {Values(snaps[j].content) : j \in list})
                       \cup Values(vault[d])) \ Values(chosen)
            acknowledged == [disk[d] EXCEPT !.ck = [heads |-> list, rev |-> None]]
        IN  /\ vault' = [vault EXCEPT ![d] = chosen]
            /\ dropped' = dropped \cup (lost \ {0})
            /\ \/ /\ disk' = [disk EXCEPT ![d] = [acknowledged EXCEPT !.conflicts = {}]]
                  /\ UNCHANGED faults
               \/ /\ faults < MaxFaults /\ faults' = faults + 1
                  /\ disk' \in {disk, [disk EXCEPT ![d] = acknowledged]}
  BY DEF resolve
<1>3. PICK list, c, ck, D1, D2, D3 :
        /\ list = disk[d].conflicts /\ c = IF accept THEN snaps[i].content ELSE vault[d]
        /\ ck = [heads |-> list, rev |-> None]
        /\ D1 = disk[d] /\ D2 = [disk[d] EXCEPT !.ck = ck] /\ D3 = [D2 EXCEPT !.conflicts = {}]
  OBVIOUS
<1>4. PICK q2, lost : /\ q2 = dropped'
                      /\ lost = ((UNION {Values(snaps[j].content) : j \in list}) \cup Values(vault[d])) \ Values(c)
                      /\ q2 = dropped \cup (lost \ {0})
  BY <1>2, <1>3
<1>5. /\ vault' = [vault EXCEPT ![d] = c]
      /\ disk' = [disk EXCEPT ![d] = D3] \/ disk' = disk \/ disk' = [disk EXCEPT ![d] = D2]
      /\ faults' = faults \/ (faults < MaxFaults /\ faults' = faults + 1)
  BY <1>2, <1>3
<1>6. faults' \in 0 .. MaxFaults
  BY <1>5, DeviceFacts, Faulty
<1>7. \E D \in {D1, D2, D3} : disk' = [disk EXCEPT ![d] = D]
  BY <1>3, <1>5, DeviceFunctions
<1>8. Sound(prior, dropped, snaps, vault[d], open[d], disk[d], run[d])
  BY DeviceFacts
<1>9. vault[d] # None /\ vault[d] \in Contents /\ list \subseteq DOMAIN snaps /\ i \in list
  BY <1>1, <1>3, <1>8, VaultContent DEF Sound, Named
<1>10. c \in Contents /\ \A j \in list : snaps[j].content \in Contents
  BY <1>3, <1>9, SnapContent
<1>11. c \in Files(prior) /\ c # None
  BY <1>10, OldContent
<1>12. \A j \in list : Follows(prior, q2, snaps[j].content, c)
  <2> SUFFICES ASSUME NEW j \in list PROVE Follows(prior, q2, snaps[j].content, c)
    OBVIOUS
  <2>1. Values(snaps[j].content) \ (Values(c) \cup {0}) \subseteq q2
    BY <1>4
  <2> QED
    BY <1>10, <2>1, GivenUpFollows
<1>13. Follows(prior, q2, vault[d], c)
  <2>1. Values(vault[d]) \ (Values(c) \cup {0}) \subseteq q2
    BY <1>4
  <2> QED
    BY <1>9, <1>10, <2>1, GivenUpFollows
<1>14. q2 \subseteq DOMAIN prior /\ dropped \subseteq q2
  <2>1. lost \ {0} \subseteq DOMAIN prior
    <3> SUFFICES ASSUME NEW x \in lost, x # 0 PROVE x \in DOMAIN prior
      OBVIOUS
    <3>1. \E a \in Contents : x \in Values(a)
      BY <1>4, <1>9, <1>10
    <3> QED
      BY <3>1, ValuesEdits
  <2> QED
    BY <1>4, <2>1, DeviceFacts
<1>15. Longer(prior, dropped, prior, q2)
  BY <1>14, DeviceFacts DEF Longer
<1>16. Sound(prior, q2, snaps, c, open[d], D1, run[d])
  BY <1>3, <1>8, <1>11, <1>13, <1>15, DeviceFacts, SoundOnward
<1>17. ck \in Checkpoint /\ ck # None /\ ck.heads = list /\ ck.rev = None
  <2>1. ck \in Checkpoint
    BY <1>3, HeldFacts DEF Checkpoint
  <2> QED
    BY <1>3, <2>1, NoneIsNothing
<1>18. Based(prior, q2, snaps, ck, c)
  BY <1>9, <1>11, <1>12, <1>17 DEF Based
<1>19. Held(prior, q2, snaps, c, D1)
  BY <1>16, DiskHeld
<1>20. D1 = [ck |-> D1.ck, cache |-> D1.cache, outbox |-> D1.outbox, tx |-> D1.tx, conflicts |-> D1.conflicts]
  BY <1>19 DEF Held, DiskType
<1>21. /\ D2 = [ck |-> ck, cache |-> D1.cache, outbox |-> D1.outbox, tx |-> D1.tx, conflicts |-> D1.conflicts]
       /\ D3 = [ck |-> ck, cache |-> D1.cache, outbox |-> D1.outbox, tx |-> D1.tx, conflicts |-> {}]
  <2>1. D2 = [D1 EXCEPT !.ck = ck]
    BY <1>3
  <2>2. D2 = [ck |-> ck, cache |-> D1.cache, outbox |-> D1.outbox, tx |-> D1.tx, conflicts |-> D1.conflicts]
    BY <1>20, <2>1
  <2> QED
    BY <1>3, <2>2
<1>22. D2 \in DiskType /\ D3 \in DiskType
  BY <1>17, <1>19, <1>21 DEF Held, DiskType
<1>23. Held(prior, q2, snaps, c, D2) /\ Held(prior, q2, snaps, c, D3)
  BY <1>17, <1>18, <1>19, <1>21, <1>22 DEF Held
<1>24. PICK D : D \in {D1, D2, D3} /\ disk' = [disk EXCEPT ![d] = D]
  BY <1>7
<1>25. Sound(prior, q2, snaps, c, open[d], D, run[d])
  BY <1>16, <1>19, <1>23, <1>24, DiskMoves
<1>26. vault'[d] = c /\ disk'[d] = D
  BY <1>5, <1>24, DeviceFunctions
<1>27. Framed(d)
  <2>1. open' = open /\ run' = run
    BY <1>1
  <2>2. \E x : vault' = [vault EXCEPT ![d] = x]
    BY <1>5
  <2>3. \E x : disk' = [disk EXCEPT ![d] = x]
    BY <1>24
  <2> QED
    BY <2>1, <2>2, <2>3, FrameFacts
<1>28. Grown
  BY <1>1, <1>4, <1>6, <1>15, DeviceFacts DEF Grown
<1>29. Sound2(d)
  BY <1>1, <1>4, <1>25, <1>26 DEF Sound2
<1>30. Onward(d)
  BY <1>1, <1>4, <1>11, <1>13, <1>26 DEF Onward
<1>31. FieldsSound'
  <2>1. Contents' \subseteq Contents
    BY <1>1, <1>10, <1>26, <1>27, VaultContents
  <2>2. FieldsSound
    BY DEF VaultInv
  <2> QED
    BY <2>1, <2>2, FieldsKept
<1>32. \A e \in Live' : e \in Live \/ (vault'[d] # None /\ e \in Values(vault'[d]))
  BY <1>1, <1>4, <1>14 DEF Live
<1>33. Listed(snaps', remote', run'[d]) /\ remote' = remote
  BY <1>1, DeviceFacts
<1>34. DOMAIN snaps' \ DOMAIN snaps = {}
  BY <1>1
<1> QED
  BY <1>27, <1>28, <1>29, <1>30, <1>31, <1>32, <1>33, <1>34, WholeStep

-----------------------------------------------------------------------------
(* The invariant holds *)

LEMMA InitInv ==
  ASSUME Init
  PROVE  VaultInv
<1>1. PICK blank, first : blank = [f \in Fields |-> 0] /\ first = IF Restored = {} THEN {} ELSE {1}
  OBVIOUS
<1>2. /\ snaps = IF Restored = {} THEN <<>> ELSE <<[parents |-> {}, content |-> blank]>>
      /\ remote = first /\ open = [d \in Devices |-> d \in Restored \cup {Creator}]
      /\ vault = [d \in Devices |-> IF d \in Restored \cup {Creator} THEN blank ELSE None]
      /\ disk = [d \in Devices |->
                   [ck |-> IF d \in Restored THEN [heads |-> first, rev |-> blank] ELSE None,
                    cache |-> IF d \in Restored THEN first ELSE {},
                    outbox |-> {}, tx |-> None, conflicts |-> {}]]
      /\ run = [d \in Devices |-> NoRun] /\ prior = <<>> /\ dropped = {} /\ faults = 0
  BY <1>1 DEF Init
<1>3. /\ MaxSnaps \in Nat \ {0} /\ MaxEdits \in Nat /\ MaxFaults \in Nat /\ Restored \subseteq Devices
      /\ 1 \in Ids
  BY Bounds DEF Ids
<1>4. History(prior) /\ Len(prior) = 0 /\ DOMAIN prior = {}
  BY <1>2 DEF History
<1>5. blank \in Files(prior) /\ blank \in Content
  BY <1>1, <1>3, <1>4 DEF Files, Content, Fields
<1>6. blank # None
  BY <1>5, NoneIsNothing
<1>7. \A i \in DOMAIN snaps : i = 1 /\ Restored # {} /\ snaps[i].parents = {} /\ snaps[i].content = blank
  BY <1>2
<1>8. Restored # {} => 1 \in DOMAIN snaps
  BY <1>2
<1>9. Graph(snaps)
  <2>1. PICK new : new = [parents |-> {}, content |-> blank]
    OBVIOUS
  <2>2. new \in Snapshot
    BY <1>5, <2>1 DEF Snapshot
  <2>3. snaps \in Seq(Snapshot) /\ Len(snaps) <= MaxSnaps
    <3>1. CASE Restored = {}
      BY <1>2, <1>3, <3>1
    <3>2. CASE Restored # {}
      <4>1. snaps = <<new>>
        BY <1>2, <2>1, <3>2
      <4> QED
        BY <1>3, <2>2, <4>1
    <3> QED
      BY <3>1, <3>2
  <2> QED
    BY <1>7, <2>3 DEF Graph
<1>10. remote \subseteq DOMAIN snaps /\ first \subseteq Ids
  BY <1>1, <1>2, <1>3, <1>8
<1>11. Types
  <2>1. open \in [Devices -> BOOLEAN]
    BY <1>2
  <2>2. Filed(prior, snaps)
    BY <1>5, <1>7 DEF Filed
  <2>3. Len(prior) <= MaxEdits /\ dropped \subseteq DOMAIN prior /\ faults \in 0 .. MaxFaults
    BY <1>2, <1>3, <1>4
  <2> QED
    BY <1>4, <1>9, <1>10, <2>1, <2>2, <2>3 DEF Types
<1>12. ASSUME NEW d \in Devices
       PROVE  /\ Sound(prior, dropped, snaps, vault[d], open[d], disk[d], run[d])
              /\ Listed(snaps, remote, run[d])
  <2>1. PICK v, o, D : v = vault[d] /\ o = open[d] /\ D = disk[d]
    OBVIOUS
  <2>2. PICK ck, cache : ck = D.ck /\ cache = D.cache
    OBVIOUS
  <2>3. run[d] = NoRun /\ v \in {blank, None} /\ (o => v = blank) /\ (d \in Restored => v = blank)
    BY <1>2, <2>1
  <2>4. /\ D = [ck |-> ck, cache |-> cache, outbox |-> {}, tx |-> None, conflicts |-> {}]
        /\ ck = IF d \in Restored THEN [heads |-> first, rev |-> blank] ELSE None
        /\ cache = IF d \in Restored THEN first ELSE {}
    BY <1>2, <2>1, <2>2
  <2>5. ck \in Checkpoint \cup {None} /\ cache \subseteq Ids
    BY <1>5, <1>10, <2>4 DEF Checkpoint
  <2>6. D \in DiskType
    BY <2>4, <2>5 DEF DiskType
  <2>7. cache \subseteq DOMAIN snaps
    BY <1>2, <1>10, <2>4
  <2>8. ck # None => Based(prior, dropped, snaps, ck, v)
    <3> SUFFICES ASSUME ck # None PROVE Based(prior, dropped, snaps, ck, v)
      OBVIOUS
    <3>1. d \in Restored /\ ck = [heads |-> first, rev |-> blank]
      BY <2>4
    <3>2. first = {1} /\ v = blank /\ 1 \in DOMAIN snaps /\ snaps[1].content = blank
      BY <1>1, <1>7, <1>8, <2>3, <3>1
    <3>3. ck.heads = {1} /\ ck.rev = blank
      BY <3>1, <3>2
    <3> QED
      BY <1>6, <3>2, <3>3, FollowsSelf DEF Based
  <2>9. Held(prior, dropped, snaps, v, D)
    BY <2>4, <2>6, <2>7, <2>8 DEF Held
  <2>10. DiskSound(prior, dropped, snaps, v, D)
    BY <2>9 DEF Held, DiskSound
  <2>11. Outside(snaps, remote, NoRun)
    BY NoRunOutside
  <2>12. Named(snaps, v, o, D, NoRun) /\ RunSound(prior, dropped, snaps, v, o, NoRun) /\ NoRun \in RunType
    <3>1. o => v # None
      BY <1>6, <2>3
    <3>2. Named(snaps, v, o, D, NoRun)
      BY <2>9, <2>11, <3>1 DEF Held, Outside, Named
    <3>3. RunSound(prior, dropped, snaps, v, o, NoRun)
      BY <2>11 DEF Outside, RunSound
    <3> QED
      BY <3>2, <3>3, NoRunType
  <2>13. v \in Files(prior) \cup {None}
    BY <1>5, <2>3
  <2>14. Sound(prior, dropped, snaps, v, o, D, NoRun)
    BY <2>6, <2>10, <2>12, <2>13 DEF Sound
  <2> QED
    BY <2>1, <2>3, <2>11, <2>14 DEF Outside
<1>13. DevicesSound
  <2>1. /\ vault = [d \in Devices |-> vault[d]] /\ disk = [d \in Devices |-> disk[d]]
        /\ run = [d \in Devices |-> run[d]]
    BY <1>2
  <2> QED
    BY <1>12, <2>1 DEF DevicesSound
<1>14. SnapsSound(prior, dropped, snaps)
  BY <1>7 DEF SnapsSound
<1>15. FieldsSound
  <2>1. \A c \in Contents : c = blank
    BY <1>2, <1>7 DEF Contents
  <2>2. \A f \in Fields : blank[f] = 0
    BY <1>1
  <2> QED
    BY <2>1, <2>2 DEF FieldsSound
<1>16. EditsSound
  BY <1>4 DEF EditsSound, Live
<1> QED
  BY <1>11, <1>13, <1>14, <1>15, <1>16 DEF VaultInv

\* A step of device d.
Step(d) ==
  SyncStep(d) \/ RunFails(d) \/ Crash(d) \/ Edit(d) \/ lock_session(d) \/ Unlock(d) \/ resolve(d)

LEMMA StepKeeps ==
  ASSUME VaultInv, NEW d \in Devices, Step(d)
  PROVE  VaultInv' /\ Onward(d)
<1>1. CASE SyncStep(d)
  <2>1. CASE BeginRun(d) \/ FlushRead(d) \/ FlushSend(d) \/ List(d)
    BY <2>1, BeginRunKeeps, FlushReadKeeps, FlushSendKeeps, ListKeeps
  <2>2. CASE HeadMissing(d) \/ SynchronizeLocked(d) \/ SynchronizeUnlocked(d)
    BY <2>2, HeadMissingKeeps, SynchronizeLockedKeeps, SynchronizeUnlockedKeeps
  <2>3. CASE MergeHead(d) \/ Publish(d) \/ Save(d)
    BY <2>3, MergeHeadKeeps, PublishKeeps, SaveKeeps
  <2>4. CASE SnapshotGone(d) \/ Prune(d) \/ Delete(d) \/ PruneCache(d)
    BY <2>4, SnapshotGoneKeeps, PruneKeeps, DeleteKeeps, PruneCacheKeeps
  <2> QED
    BY <1>1, <2>1, <2>2, <2>3, <2>4 DEF SyncStep
<1>2. CASE RunFails(d) \/ Crash(d) \/ Edit(d)
  BY <1>2, RunFailsKeeps, CrashKeeps, EditKeeps
<1>3. CASE lock_session(d) \/ Unlock(d) \/ resolve(d)
  BY <1>3, LockKeeps, UnlockKeeps, resolveKeeps
<1> QED
  BY <1>1, <1>2, <1>3 DEF Step

\* It touches no other device's vault.
LEMMA VaultStill ==
  ASSUME VaultInv, NEW d \in Devices, Step(d), NEW e \in Devices, e # d
  PROVE  vault'[e] = vault[e]
<1>1. vault' = vault \/ \E x : vault' = [vault EXCEPT ![d] = x]
  <2>1. CASE SyncStep(d)
    <3>1. CASE SynchronizeLocked(d)
      BY <3>1 DEF SynchronizeLocked
    <3>2. CASE SynchronizeUnlocked(d)
      BY <3>2 DEF SynchronizeUnlocked
    <3>3. CASE MergeHead(d)
      BY <3>3 DEF MergeHead
    <3>4. CASE BeginRun(d) \/ FlushRead(d) \/ FlushSend(d) \/ List(d) \/ HeadMissing(d) \/ SnapshotGone(d)
      BY <3>4 DEF BeginRun, FlushRead, FlushSend, List, HeadMissing, SnapshotGone
    <3>5. CASE Publish(d) \/ Save(d) \/ Prune(d) \/ Delete(d) \/ PruneCache(d)
      BY <3>5 DEF Publish, Save, Prune, Delete, PruneCache
    <3> QED
      BY <2>1, <3>1, <3>2, <3>3, <3>4, <3>5 DEF SyncStep
  <2>2. CASE RunFails(d) \/ Crash(d) \/ lock_session(d) \/ Unlock(d)
    BY <2>2 DEF RunFails, Crash, lock_session, Unlock
  <2>3. CASE Edit(d)
    BY <2>3 DEF Edit
  <2>4. CASE resolve(d)
    BY <2>4 DEF resolve
  <2> QED
    BY <2>1, <2>2, <2>3, <2>4 DEF Step
<1>2. vault = [c \in Devices |-> vault[c]]
  BY DeviceFunctions
<1>3. At(d, vault, vault')
  BY <1>1, <1>2, AtOne
<1> QED
  BY <1>3 DEF At

\* Edits are only added.
LEMMA PriorGrows ==
  ASSUME NEW d \in Devices, Step(d), History(prior)
  PROVE  Len(prior) <= Len(prior') /\ \A e \in DOMAIN prior : prior'[e] = prior[e]
<1>1. CASE Edit(d)
  <2>1. PICK f \in Fields : prior' = Append(prior, vault[d][f])
    BY <1>1 DEF Edit
  <2>2. PICK x : x = vault[d][f]
    OBVIOUS
  <2>3. prior' = Append(prior, x) /\ prior \in Seq(Nat)
    BY <2>1, <2>2 DEF History
  <2> QED
    BY <2>3
<1>2. CASE prior' = prior
  BY <1>2 DEF History
<1>3. CASE SyncStep(d)
  <2>1. CASE BeginRun(d) \/ FlushRead(d) \/ FlushSend(d) \/ List(d) \/ HeadMissing(d) \/ SnapshotGone(d)
    BY <1>2, <2>1 DEF BeginRun, FlushRead, FlushSend, List, HeadMissing, SnapshotGone
  <2>2. CASE SynchronizeLocked(d) \/ SynchronizeUnlocked(d) \/ MergeHead(d)
    BY <1>2, <2>2 DEF SynchronizeLocked, SynchronizeUnlocked, MergeHead
  <2>3. CASE Publish(d) \/ Save(d) \/ Prune(d) \/ Delete(d) \/ PruneCache(d)
    BY <1>2, <2>3 DEF Publish, Save, Prune, Delete, PruneCache
  <2> QED
    BY <1>3, <2>1, <2>2, <2>3 DEF SyncStep
<1>4. CASE RunFails(d) \/ Crash(d) \/ lock_session(d) \/ Unlock(d) \/ resolve(d)
  BY <1>2, <1>4 DEF RunFails, Crash, lock_session, Unlock, resolve
<1> QED
  BY <1>1, <1>3, <1>4 DEF Step

\* Retention alone takes snapshots from the target, one at a time.
LEMMA RemoteStill ==
  ASSUME NEW d \in Devices, Step(d), ~Delete(d)
  PROVE  remote \subseteq remote'
<1>1. CASE SyncStep(d)
  <2>1. CASE BeginRun(d) \/ FlushRead(d) \/ FlushSend(d) \/ List(d) \/ HeadMissing(d) \/ SnapshotGone(d)
    BY <2>1 DEF BeginRun, FlushRead, FlushSend, List, HeadMissing, SnapshotGone
  <2>2. CASE SynchronizeLocked(d) \/ SynchronizeUnlocked(d) \/ MergeHead(d)
    BY <2>2 DEF SynchronizeLocked, SynchronizeUnlocked, MergeHead
  <2>3. CASE Publish(d) \/ Save(d) \/ Prune(d) \/ PruneCache(d)
    BY <2>3 DEF Publish, Save, Prune, PruneCache
  <2> QED
    BY <1>1, <2>1, <2>2, <2>3 DEF SyncStep
<1>2. CASE RunFails(d) \/ Crash(d) \/ lock_session(d) \/ Unlock(d) \/ Edit(d) \/ resolve(d)
  BY <1>2 DEF RunFails, Crash, lock_session, Unlock, Edit, resolve
<1> QED
  BY <1>1, <1>2 DEF Step

LEMMA StutterKeeps ==
  ASSUME VaultInv, UNCHANGED vars
  PROVE  VaultInv'
<1>1. UNCHANGED <<snaps, remote, vault, open, disk, run, prior, dropped, faults>>
  BY DEF vars
<1>2. Types' /\ DevicesSound' /\ SnapsSound(prior', dropped', snaps')
  BY <1>1 DEF VaultInv, Types, DevicesSound
<1>3. FieldsSound'
  BY <1>1 DEF VaultInv, FieldsSound, Contents
<1>4. EditsSound'
  BY <1>1 DEF VaultInv, EditsSound, Live, Sent
<1> QED
  BY <1>2, <1>3, <1>4 DEF VaultInv

\* The inductive invariant: a device's vault has taken up all that its
\* checkpoint names and all that waits in its outbox, a snapshot all that its
\* parents held, and every edit that nobody overwrote or gave up is in a vault
\* or in what was sent (vault_sync.rs and vault_sync/storage.rs as a whole).
THEOREM VaultInvHolds == Spec => []VaultInv
<1>1. Init => VaultInv
  BY InitInv
<1>2. VaultInv /\ [Next]_vars => VaultInv'
  <2> SUFFICES ASSUME VaultInv, [Next]_vars PROVE VaultInv'
    OBVIOUS
  <2>1. CASE Next
    <3>1. PICK d \in Devices : Step(d)
      BY <2>1 DEF Next, Step
    <3> QED
      BY <3>1, StepKeeps
  <2>2. CASE UNCHANGED vars
    BY <2>2, StutterKeeps
  <2> QED
    BY <2>1, <2>2
<1> QED
  BY <1>1, <1>2, PTL DEF Spec

-----------------------------------------------------------------------------
(* What follows from it *)

LEMMA InvType ==
  ASSUME VaultInv
  PROVE  TypeOK
<1>1. \A d \in Devices : /\ Sound(prior, dropped, snaps, vault[d], open[d], disk[d], run[d])
                         /\ Held(prior, dropped, snaps, vault[d], disk[d])
  BY DeviceFacts, HeldFacts
<1>2. Types
  BY DEF VaultInv
<1>3. /\ \A i \in DOMAIN snaps : snaps[i].parents \subseteq 1 .. (i - 1) /\ snaps[i].content \in Content
      /\ Len(snaps) <= MaxSnaps
  <2>1. Graph(snaps) /\ \A i \in DOMAIN snaps : snaps[i].content \in Files(prior)
    BY <1>2 DEF Types, Filed
  <2>2. \A i \in DOMAIN snaps : snaps[i].content \in Content
    BY <2>1, FilesNone
  <2> QED
    BY <2>1, <2>2 DEF Graph
<1>4. vault \in [Devices -> Content \cup {None}]
  <2>1. \A d \in Devices : vault[d] \in Content \cup {None}
    BY <1>1, FilesNone DEF Sound
  <2>2. vault = [d \in Devices |-> vault[d]]
    BY DeviceFunctions
  <2> QED
    BY <2>1, <2>2
<1>5. disk \in [Devices -> DiskType] /\ run \in [Devices -> RunType]
  <2>1. \A d \in Devices : disk[d] \in DiskType /\ run[d] \in RunType
    BY <1>1 DEF Sound
  <2>2. disk = [d \in Devices |-> disk[d]] /\ run = [d \in Devices |-> run[d]]
    BY DeviceFunctions
  <2> QED
    BY <2>1, <2>2
<1>6. \A d \in Devices : disk[d].outbox \subseteq disk[d].cache /\ disk[d].cache \subseteq DOMAIN snaps
  BY HeldFacts
<1>7. /\ Len(prior) <= MaxEdits /\ dropped \subseteq DOMAIN prior
      /\ \A e \in DOMAIN prior : prior[e] \in 0 .. (e - 1)
      /\ faults \in 0 .. MaxFaults /\ remote \subseteq DOMAIN snaps /\ open \in [Devices -> BOOLEAN]
  BY <1>2 DEF Types, History
<1> QED
  BY <1>3, <1>4, <1>5, <1>6, <1>7 DEF TypeOK

LEMMA InvNoLoss ==
  ASSUME VaultInv
  PROVE  NoSilentLoss
<1>1. PICK S : S = Sent
  OBVIOUS
<1>2. /\ History(prior) /\ dropped \subseteq DOMAIN prior /\ Graph(snaps) /\ Filed(prior, snaps)
      /\ SnapsSound(prior, dropped, snaps)
  BY DEF VaultInv, Types
<1>3. S \subseteq DOMAIN snaps
  <2>1. \A d \in Devices : disk[d].outbox \subseteq DOMAIN snaps
    BY HeldFacts
  <2>2. remote \subseteq DOMAIN snaps
    BY DEF VaultInv, Types
  <2> QED
    BY <1>1, <2>1, <2>2 DEF Sent
<1>4. ASSUME NEW e \in Live, NEW i \in S, e \in Values(snaps[i].content)
      PROVE  \E h \in HeadsOf(S) : e \in Values(snaps[h].content)
  <2>1. PICK h \in S \ ParentsIn(snaps, S) : Follows(prior, dropped, snaps[i].content, snaps[h].content)
    BY <1>2, <1>3, HeadFollows
  <2>2. snaps[h].content \in Files(prior)
    BY <1>2, <1>3 DEF Filed
  <2>3. e \notin Earlier(prior) /\ e \notin dropped
    BY LiveFacts
  <2>4. e \in Values(snaps[h].content)
    BY <1>2, <1>4, <2>1, <2>2, <2>3, LiveFollows
  <2>5. h \in HeadsOf(S)
    BY DEF HeadsOf, Parents, ParentsIn
  <2> QED
    BY <2>4, <2>5
<1>5. EditsSound
  BY DEF VaultInv
<1> QED
  BY <1>1, <1>4, <1>5 DEF NoSilentLoss, EditsSound, Sent

\* Files, outbox, target and vaults are always what the program may find: a
\* pending snapshot is in the cache as well and everything named exists
\* (stage_snapshot writes the cache before the outbox).
THEOREM VaultSyncTypeOK == Spec => []TypeOK
<1>1. VaultInv => TypeOK
  BY InvType
<1> QED
  BY <1>1, VaultInvHolds, PTL

\* No edit disappears silently, whatever the devices, the records, the number
\* of edits, snapshots, errors and crashes (synchronize, queue_local_changes,
\* finish_compaction, retention and resolve together).
THEOREM SyncNoSilentLoss == Spec => []NoSilentLoss
<1>1. VaultInv => NoSilentLoss
  BY InvNoLoss
<1> QED
  BY <1>1, VaultInvHolds, PTL

LEMMA StepNotUndone ==
  ASSUME VaultInv, [Next]_vars, VaultInv', NEW d \in Devices, NEW f \in Fields,
         vault[d] # None, vault[d][f] \notin GivenUp'
  PROVE  vault'[d][f] \notin Overwritten(vault[d][f])
<1>1. vault'[d] # None /\ Follows(prior', dropped', vault[d], vault'[d])
  <2>1. CASE vault'[d] = vault[d]
    BY <2>1, FollowsSelf
  <2>2. CASE vault'[d] # vault[d]
    <3>1. Next
      BY <2>2 DEF vars
    <3>2. PICK e \in Devices : Step(e)
      BY <3>1 DEF Next, Step
    <3>3. e = d
      BY <2>2, <3>2, VaultStill
    <3>4. Onward(d)
      BY <3>2, <3>3, StepKeeps
    <3> QED
      BY <3>4 DEF Onward
  <2> QED
    BY <2>1, <2>2
<1>2. PICK p, q, x, y : p = prior' /\ q = dropped' /\ x = vault[d][f] /\ y = vault'[d][f]
  OBVIOUS
<1>3. History(prior) /\ History(p)
  BY <1>2 DEF VaultInv, Types
<1>4. vault[d] \in Files(prior) /\ vault'[d] \in Files(p)
  <2>1. Sound(prior, dropped, snaps, vault[d], open[d], disk[d], run[d])
    BY DeviceFacts
  <2>2. DevicesSound'
    BY DEF VaultInv
  <2>3. Sound(p, q, snaps', vault'[d], open'[d], disk'[d], run'[d])
    BY <1>2, <2>2 DEF DevicesSound
  <2> QED
    BY <1>1, <2>1, <2>3 DEF Sound
<1>5. x \in 0 .. Len(prior) /\ y \in 0 .. Len(p)
  BY <1>2, <1>4 DEF Files
<1>6. Len(prior) <= Len(p) /\ \A e \in DOMAIN prior : p[e] = prior[e]
  <2>1. CASE UNCHANGED vars
    BY <1>2, <1>3, <2>1 DEF vars, History
  <2>2. CASE Next
    <3>1. PICK e \in Devices : Step(e)
      BY <2>2 DEF Next, Step
    <3> QED
      BY <1>2, <1>3, <3>1, PriorGrows
  <2> QED
    BY <2>1, <2>2
<1>7. Below(p, x) = Below(prior, x)
  BY <1>3, <1>5, <1>6, BelowKept
<1>8. Under(p, q, x, y)
  BY <1>1, <1>2 DEF Follows
<1>9. x = y \/ x \in Below(p, y)
  <2>1. GivenUp' = q \cup UNION {Below(p, e) : e \in q}
    BY <1>2 DEF GivenUp, Overwritten, Below
  <2>2. x \notin q /\ \A e \in q : x \notin Below(p, e)
    BY <1>2, <2>1
  <2> QED
    BY <1>8, <2>2 DEF Under
<1>10. ASSUME y \in Below(p, x) PROVE FALSE
  <2>1. x \in 0 .. Len(p)
    BY <1>3, <1>5, <1>6 DEF History
  <2>2. y < x
    BY <1>3, <1>10, <2>1, BelowFacts
  <2>3. x = y \/ x < y
    BY <1>3, <1>5, <1>9, BelowFacts
  <2> QED
    BY <1>5, <2>1, <2>2, <2>3
<1>11. Overwritten(x) = Below(prior, x)
  BY DEF Overwritten, Below
<1> QED
  BY <1>2, <1>7, <1>10, <1>11

\* Synchronization never takes a device back, for any number of devices and
\* edits (synchronize, merge_sync_snapshot and resolve).
THEOREM SyncNeverUndone == Spec => NeverUndone
<1>1. VaultInv /\ VaultInv' /\ [Next]_vars =>
        \A d \in Devices, f \in Fields :
          vault[d] # None /\ vault[d][f] \notin GivenUp' => vault'[d][f] \notin Overwritten(vault[d][f])
  BY StepNotUndone
<1>2. VaultInv /\ VaultInv' /\ [Next]_vars =>
        [\A d \in Devices, f \in Fields :
           vault[d] # None /\ vault[d][f] \notin GivenUp' => vault'[d][f] \notin Overwritten(vault[d][f])]_vars
  BY <1>1
<1> QED
  BY <1>2, VaultInvHolds, PTL DEF Spec, NeverUndone

LEMMA StepKeepsNewest ==
  ASSUME VaultInv, [Next]_vars, NEW i \in remote \ remote'
  PROVE  \E j \in remote' : i \in Ancestors(j)
<1>1. Next
  BY DEF vars
<1>2. PICK d \in Devices : Step(d)
  BY <1>1 DEF Next, Step
<1>3. Delete(d)
  BY <1>2, RemoteStill
<1>4. PICK k \in run[d].todo : run[d].pc = "delete" /\ remote' = remote \ {k}
  BY <1>3 DEF Delete
<1>5. k = i
  BY <1>4
<1>6. PICK j \in remote : j # i /\ i \in Line(snaps, j)
  BY <1>4, <1>5, DeviceFacts DEF Listed
<1>7. j \in remote'
  BY <1>4, <1>5, <1>6
<1>8. Ancestors(j) = Line(snaps, j)
  BY DEF Ancestors, Line, Within, Reach, Parents, ParentsIn
<1> QED
  BY <1>6, <1>7, <1>8

\* Retention never deletes the newest version of a branch, however many
\* devices delete at once (expired_ids and prune in cloudkit_retention.rs).
THEOREM SyncNewestStays == Spec => NewestStays
<1>1. VaultInv /\ [Next]_vars => \A i \in remote \ remote' : \E j \in remote' : i \in Ancestors(j)
  BY StepKeepsNewest
<1>2. VaultInv /\ [Next]_vars => [\A i \in remote \ remote' : \E j \in remote' : i \in Ancestors(j)]_vars
  BY <1>1
<1> QED
  BY <1>2, VaultInvHolds, PTL DEF Spec, NewestStays
=============================================================================
