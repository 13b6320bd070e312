---------------------------- MODULE SetupProofs ------------------------------
(***************************************************************************)
(* Proofs about what fvd sets up on the machine, the managed volumes and   *)
(* the managed region of ~/.bazelrc: for any locations, any number of      *)
(* creations and any events, the types, and what a creation adds and       *)
(* where; for any files, any text of the user's and any appliers, the      *)
(* types, and what an apply makes of the file, whatever overlaps it.       *)
(***************************************************************************)
EXTENDS Volumes, Bazelrc, SequenceTheorems, WellFoundedInduction, TLAPS
----------------------------------------------------------------------------
(***************************************************************************)
(* The volumes.                                                            *)
(***************************************************************************)

CreatorBusy(c) == creator[c] \in {"audit", "prompt", "script"}

\* One creation at a time, until two overlap.
AloneInv ==
  "overlap" \notin met =>
    \A c, d \in Creators : CreatorBusy(c) /\ CreatorBusy(d) => c = d

\* What a creation found absent has no volume, as long as none is ever hidden.
CountInv ==
  met \cap {"overlap", "unmount"} = {} =>
    /\ \A l \in Locations : volumes[l] <= 1 /\ (volumes[l] # 0 => place[l] = "volume")
    /\ \A c \in Creators : CreatorBusy(c) => \A l \in todo[c] : volumes[l] = 0

\* And it stays absent until something is mounted there.
AbsentInv ==
  met \cap {"overlap", "mount"} = {} =>
    \A c \in Creators : CreatorBusy(c) => \A l \in todo[c] : place[l] = "absent"

Inv == TypeOK /\ AloneInv /\ CountInv /\ AbsentInv

LEMMA InvInit == Init => Inv
<1> SUFFICES ASSUME Init PROVE Inv
  OBVIOUS
<1> USE VolumesConstants DEF Init
<1>1. TypeOK BY DEF TypeOK
<1>2. \A c \in Creators : ~CreatorBusy(c) BY DEF CreatorBusy
<1> QED BY <1>1, <1>2 DEF Inv, AloneInv, CountInv, AbsentInv

LEMMA TypeStep == TypeOK /\ [Next]_vars => TypeOK'
<1> SUFFICES ASSUME TypeOK, [Next]_vars PROVE TypeOK'
  OBVIOUS
<1> USE VolumesConstants DEF TypeOK, Goto, world
<1>1. ASSUME NEW c \in Creators, Call(c) PROVE TypeOK'
  <2>1. PICK w \in Selections :
          want' = [want EXCEPT ![c] = w] /\ left' = [left EXCEPT ![c] = Locations]
    BY <1>1 DEF Call
  <2>2. w \subseteq Locations BY DEF Selections
  <2>3. Mounted \subseteq Locations BY DEF Mounted
  <2>4. calls' \in [Creators -> 0..MaxCalls] BY <1>1 DEF Call
  <2> QED BY <1>1, <2>1, <2>2, <2>3, <2>4 DEF Call
<1>2. ASSUME NEW c \in Creators, NEW l \in Locations, AuditOne(c, l) PROVE TypeOK'
  BY <1>2 DEF AuditOne
<1>3. ASSUME NEW c \in Creators, NEW l \in Locations, AddVolume(c, l) PROVE TypeOK'
  <2>1. volumes' = [volumes EXCEPT ![l] = volumes[l] + 1] BY <1>3 DEF AddVolume
  <2>2. volumes' \in [Locations -> Nat] BY <2>1
  <2>3. \A m \in Locations : place'[m] = "volume" => volumes'[m] > 0 BY <1>3, <2>1 DEF AddVolume
  <2>4. todo' \in [Creators -> SUBSET Locations] BY <1>3 DEF AddVolume
  <2> QED BY <1>3, <2>2, <2>3, <2>4 DEF AddVolume
<1>4. ASSUME NEW c \in Creators,
             EndAudit(c) \/ DryRun(c) \/ Elevate(c) \/ ScriptFails(c) \/ EndScript(c)
      PROVE  TypeOK'
  <2>1. \E st \in {"done", "prompt", "script", "failed"} : creator' = [creator EXCEPT ![c] = st]
    BY <1>4 DEF EndAudit, DryRun, Elevate, ScriptFails, EndScript
  <2>2. todo' = todo \/ todo' = [todo EXCEPT ![c] = {}]
    BY <1>4 DEF EndAudit, DryRun, Elevate, ScriptFails, EndScript
  <2>3. UNCHANGED <<place, volumes, want, table, left, calls, met>>
    BY <1>4 DEF EndAudit, DryRun, Elevate, ScriptFails, EndScript
  <2> QED BY <2>1, <2>2, <2>3
<1>5. ASSUME NEW l \in Locations, Mount(l) PROVE TypeOK'
  BY <1>5 DEF Mount
<1>6. ASSUME NEW l \in Locations, Unmount(l) PROVE TypeOK'
  BY <1>6 DEF Unmount
<1>7. CASE UNCHANGED vars BY <1>7 DEF vars
<1> QED BY <1>1, <1>2, <1>3, <1>4, <1>5, <1>6, <1>7 DEF Next, Create

LEMMA PlaceStep ==
  Inv /\ [Next]_vars => AloneInv' /\ CountInv' /\ AbsentInv'
<1> DEFINE Goal == AloneInv' /\ CountInv' /\ AbsentInv'
<1> SUFFICES ASSUME Inv, [Next]_vars PROVE Goal
  OBVIOUS
<1> USE DEF Inv, TypeOK, AloneInv, CountInv, AbsentInv, CreatorBusy, Goto, world
<1>1. ASSUME NEW c \in Creators, Call(c) PROVE Goal
  <2>1. /\ creator' = [creator EXCEPT ![c] = "audit"] /\ todo' = [todo EXCEPT ![c] = {}]
        /\ met' = IF Busy = {} THEN met ELSE met \cup {"overlap"}
        /\ place' = place /\ volumes' = volumes
    BY <1>1 DEF Call
  <2>2. Busy = {} => \A d \in Creators : ~CreatorBusy(d) BY DEF Busy
  <2> QED BY <2>1, <2>2
<1>2. ASSUME NEW c \in Creators, NEW l \in Locations, AuditOne(c, l) PROVE Goal
  <2>1. \/ todo' = todo
        \/ todo' = [todo EXCEPT ![c] = @ \cup {l}] /\ place[l] = "absent"
    BY <1>2 DEF AuditOne, Disposition
  <2> QED BY <1>2, <2>1 DEF AuditOne
<1>3. ASSUME NEW c \in Creators, NEW l \in Locations, AddVolume(c, l) PROVE Goal
  <2>1. /\ volumes' = [volumes EXCEPT ![l] = @ + 1] /\ place' = [place EXCEPT ![l] = "volume"]
        /\ todo' = [todo EXCEPT ![c] = @ \ {l}] /\ creator' = creator /\ met' = met
        /\ creator[c] = "script" /\ l \in todo[c]
    BY <1>3 DEF AddVolume
  <2>2. AloneInv' BY <2>1
  <2>3. CountInv' BY <2>1
  <2>4. AbsentInv' BY <2>1
  <2> QED BY <2>2, <2>3, <2>4
<1>4. ASSUME NEW c \in Creators,
             EndAudit(c) \/ DryRun(c) \/ Elevate(c) \/ ScriptFails(c) \/ EndScript(c)
      PROVE  Goal
  BY <1>4 DEF EndAudit, DryRun, Elevate, ScriptFails, EndScript
<1>5. ASSUME NEW l \in Locations, Mount(l) PROVE Goal
  <2>1. Busy = {} => \A d \in Creators : ~CreatorBusy(d) BY DEF Busy
  <2> QED BY <1>5, <2>1 DEF Mount
<1>6. ASSUME NEW l \in Locations, Unmount(l) PROVE Goal
  BY <1>6 DEF Unmount
<1>7. CASE UNCHANGED vars BY <1>7 DEF vars
<1> QED BY <1>1, <1>2, <1>3, <1>4, <1>5, <1>6, <1>7 DEF Next, Create
----------------------------------------------------------------------------
LEMMA Invariance == Spec => []Inv
<1>1. Inv /\ [Next]_vars => Inv' BY TypeStep, PlaceStep DEF Inv
<1> QED BY <1>1, InvInit, PTL DEF Spec

\* The types of the locations, the volumes and the creations.
THEOREM TypeCorrect == Spec => []TypeOK
<1>1. Inv => TypeOK BY DEF Inv
<1> QED BY <1>1, Invariance, PTL

\* For any locations, creations and failures midway: no location gets a second
\* volume, until two creations overlap or a volume is unmounted.
THEOREM OneVolume == Spec => []OneVolumeEach
<1>1. Inv => OneVolumeEach BY DEF Inv, CountInv, OneVolumeEach
<1> QED BY <1>1, Invariance, PTL

\* And none is mounted over what a location holds, until two creations overlap or
\* something is mounted during one.
THEOREM NothingMountedOver == Spec => NeverMountedOver
<1>1. Inv => \A c \in Creators, l \in Locations :
        AddVolume(c, l) /\ met \cap {"overlap", "mount"} = {} => place[l] = "absent"
  BY DEF Inv, AbsentInv, AddVolume, CreatorBusy
<1> QED BY <1>1, Invariance, PTL DEF NeverMountedOver
----------------------------------------------------------------------------
(***************************************************************************)
(* The managed region. First the operators of Bazelrc: where FirstAt       *)
(* finds a marker, and what Splice makes of a file, piece by piece.        *)
(***************************************************************************)
\* A non-empty set of naturals has a least element.
LEMMA LeastNat ==
  ASSUME NEW T \in SUBSET Nat, T # {}
  PROVE  \E n \in T : \A m \in T : n <= m
<1> DEFINE R == {ss \in Nat \X Nat : ss[1] < ss[2]}
<1>1. OpToRel(<, Nat) = R  BY Zenon DEF OpToRel
<1>2. IsWellFoundedOn(R, Nat)  BY Zenon, <1>1, NatLessThanWellFounded
<1> HIDE DEF R
<1>3. PICK n \in T : \A m \in T : ~(<<m, n>> \in R)  BY <1>2, WFMin
<1>4. \A m \in T : ~(m < n)
  <2> SUFFICES ASSUME NEW m \in T, m < n PROVE FALSE OBVIOUS
  <2>1. <<m, n>> \in R BY DEF R
  <2> QED BY <2>1, <1>3
<1> QED BY <1>4

\* What a file has.
LEMMA HasIff ==
  ASSUME NEW s \in Seq(Text), NEW x
  PROVE  Has(s, x) <=> \E i \in 1..Len(s) : s[i] = x
BY DEF Has, Range

\* What FirstAt finds in a file that has it.
LEMMA FirstIs ==
  ASSUME NEW s \in Seq(Text), NEW x, Has(s, x)
  PROVE  /\ FirstAt(s, x) \in 1..Len(s) /\ s[FirstAt(s, x)] = x
         /\ \A j \in 1..Len(s) : s[j] = x => FirstAt(s, x) <= j
<1> DEFINE T == {i \in 1..Len(s) : s[i] = x}
<1>1. T \in SUBSET Nat /\ T # {} BY HasIff
<1>2. PICK n \in T : \A m \in T : n <= m BY <1>1, LeastNat
<1>3. n \in DOMAIN s /\ s[n] = x /\ \A j \in 1..(n - 1) : s[j] # x
  BY <1>2
<1>4. FirstAt(s, x) \in DOMAIN s /\ s[FirstAt(s, x)] = x
      /\ \A j \in 1..(FirstAt(s, x) - 1) : s[j] # x
  BY <1>3 DEF FirstAt
<1> QED BY <1>4

\* ... and where it is when the place is known.
LEMMA FirstAtIs ==
  ASSUME NEW s \in Seq(Text), NEW x, NEW n \in 1..Len(s), s[n] = x,
         \A j \in 1..Len(s) : s[j] = x => n <= j
  PROVE  Has(s, x) /\ FirstAt(s, x) = n
<1>1. Has(s, x) BY HasIff
<1> QED BY <1>1, FirstIs

\* The kinds of pieces are apart.
LEMMA MarkerFacts ==
  /\ Begin \in Text /\ End \in Text /\ NL \in Text
  /\ Begin # End /\ Begin # NL /\ End # NL
  /\ Configs \subseteq Text /\ Lines \subseteq Text
  /\ Begin \notin Configs /\ End \notin Configs /\ NL \notin Configs
  /\ Begin \notin Lines /\ End \notin Lines /\ NL \notin Lines
  /\ Configs \cap Lines = {}
BY BazelrcConstants DEF Begin, End, NL, Text

\* No end marker before the first begin marker, said of every end marker.
LEMMA InOrderIff ==
  ASSUME NEW s \in Seq(Text)
  PROVE  InOrder(s) <=>
           \A e \in 1..Len(s) : s[e] = End => \E b \in 1..(e - 1) : s[b] = Begin
<1>1. ASSUME InOrder(s), NEW e \in 1..Len(s), s[e] = End
      PROVE  \E b \in 1..(e - 1) : s[b] = Begin
  <2>1. Has(s, End) BY <1>1, HasIff
  <2>2. Has(s, Begin) /\ FirstAt(s, Begin) < FirstAt(s, End) BY <1>1, <2>1 DEF InOrder
  <2>3. FirstAt(s, End) \in 1..Len(s) /\ FirstAt(s, End) <= e BY <1>1, <2>1, FirstIs
  <2>4. FirstAt(s, Begin) \in 1..Len(s) /\ s[FirstAt(s, Begin)] = Begin BY <2>2, FirstIs
  <2> QED BY <2>2, <2>3, <2>4
<1>2. ASSUME \A e \in 1..Len(s) : s[e] = End => \E b \in 1..(e - 1) : s[b] = Begin
      PROVE  InOrder(s)
  <2> SUFFICES ASSUME Has(s, End)
               PROVE  Has(s, Begin) /\ FirstAt(s, Begin) < FirstAt(s, End)
    BY DEF InOrder
  <2>1. FirstAt(s, End) \in 1..Len(s) /\ s[FirstAt(s, End)] = End BY FirstIs
  <2>2. PICK b \in 1..(FirstAt(s, End) - 1) : s[b] = Begin BY <1>2, <2>1
  <2>3. b \in 1..Len(s) BY <2>1
  <2>4. Has(s, Begin) BY <2>2, <2>3, HasIff
  <2>5. FirstAt(s, Begin) \in 1..Len(s) /\ FirstAt(s, Begin) <= b BY <2>2, <2>3, <2>4, FirstIs
  <2> QED BY <2>1, <2>4, <2>5
<1> QED BY <1>1, <1>2
----------------------------------------------------------------------------
\* The parts of a file and a file put together from two, piece by piece.
LEMMA PartIs ==
  ASSUME NEW s \in Seq(Text), NEW m \in Nat \ {0}, NEW n \in 0..Len(s), m <= n + 1
  PROVE  /\ SubSeq(s, m, n) \in Seq(Text) /\ Len(SubSeq(s, m, n)) = n - m + 1
         /\ \A i \in 1..(n - m + 1) : SubSeq(s, m, n)[i] = s[m + i - 1]
<1>1. \A i \in m..n : s[i] \in Text BY ElementOfSeq
<1>2. SubSeq(s, m, n) \in Seq(Text) /\ Len(SubSeq(s, m, n)) = (IF m <= n THEN n - m + 1 ELSE 0)
      /\ \A i \in 1..(n - m + 1) : SubSeq(s, m, n)[i] = s[m + i - 1]
  BY <1>1, SubSeqProperties
<1> QED BY <1>2

LEMMA JoinIs ==
  ASSUME NEW s \in Seq(Text), NEW t \in Seq(Text)
  PROVE  /\ s \o t \in Seq(Text) /\ Len(s \o t) = Len(s) + Len(t)
         /\ \A i \in 1..Len(s) : (s \o t)[i] = s[i]
         /\ \A j \in 1..Len(t) : (s \o t)[Len(s) + j] = t[j]
<1> DEFINE m == Len(s) n == Len(t) r == s \o t
<1>1. /\ r \in Seq(Text) /\ Len(r) = m + n
      /\ \A i \in 1..m + n : r[i] = IF i <= m THEN s[i] ELSE t[i - m]
  BY ConcatProperties
<1>2. m \in Nat /\ n \in Nat OBVIOUS
<1> HIDE DEF m, n, r
<1>3. \A j \in 1..n : m + j \in 1..(m + n) /\ ~(m + j <= m) /\ (m + j) - m = j BY <1>2
<1>4. \A i \in 1..m : i \in 1..(m + n) /\ i <= m BY <1>2
<1>5. \A i \in 1..m : r[i] = s[i] BY <1>1, <1>4
<1>6. \A j \in 1..n : r[m + j] = t[j]
  <2> SUFFICES ASSUME NEW j \in 1..n PROVE r[m + j] = t[j] OBVIOUS
  <2>1. r[m + j] = IF m + j <= m THEN s[m + j] ELSE t[(m + j) - m] BY <1>1, <1>3
  <2> QED BY <1>3, <2>1
<1> QED BY <1>1, <1>5, <1>6 DEF m, n, r

\* The block, and what of it replaces a region.
LEMMA BlockIs ==
  ASSUME NEW c \in Configs
  PROVE  /\ ManagedBlock(c) \in Seq(Text) /\ Front(ManagedBlock(c)) \in Seq(Text)
         /\ Front(ManagedBlock(c)) = <<Begin, NL, c, NL, End>>
<1>1. ManagedBlock(c) \in Seq(Text) /\ Len(ManagedBlock(c)) = 6 BY MarkerFacts DEF ManagedBlock
<1>2. Front(ManagedBlock(c)) = SubSeq(ManagedBlock(c), 1, 5) BY <1>1 DEF Front
<1> DEFINE b == ManagedBlock(c) f == SubSeq(b, 1, 5)
<1>3. f \in Seq(Text) /\ Len(f) = 5 /\ \A i \in 1..5 : f[i] = b[i]
  <2> HIDE DEF b
  <2>1. b \in Seq(Text) /\ 1 \in Nat \ {0} /\ 5 \in 0..Len(b) /\ 1 <= 5 + 1
    BY <1>1 DEF b
  <2>2. /\ f \in Seq(Text) /\ Len(f) = 5 - 1 + 1
        /\ \A i \in 1..(5 - 1 + 1) : f[i] = b[1 + i - 1]
    BY ONLY <2>1, PartIs
  <2> QED BY ONLY <2>2
<1> DEFINE g == <<Begin, NL, c, NL, End>>
<1>4. g \in Seq(Text) /\ Len(g) = 5 BY MarkerFacts
<1>5. \A i \in 1..5 : ManagedBlock(c)[i] = g[i]
  <2> SUFFICES ASSUME NEW i \in 1..5 PROVE ManagedBlock(c)[i] = g[i] OBVIOUS
  <2>1. i = 1 \/ i = 2 \/ i = 3 \/ i = 4 \/ i = 5 OBVIOUS
  <2> QED BY <2>1 DEF ManagedBlock
<1>6. f = g BY <1>3, <1>4, <1>5, SeqEqual
<1> QED BY <1>1, <1>2, <1>3, <1>6


\* Where a region replaces the one that was there.
Replaced(s, c) ==
  LET p == FirstAt(s, Begin) q == FirstAt(s, End) r == Splice(s, ManagedBlock(c))
  IN  /\ r \in Seq(Text) /\ p \in 1..Len(s) /\ q \in 1..Len(s) /\ s[p] = Begin /\ s[q] = End
      /\ Len(r) = p + 4 + Len(s) - q
      /\ \A i \in 1..(p - 1) : r[i] = s[i] /\ s[i] # Begin
      /\ r[p] = Begin /\ r[p + 1] = NL /\ r[p + 2] = c /\ r[p + 3] = NL /\ r[p + 4] = End
      /\ \A j \in 1..(Len(s) - q) : r[p + 4 + j] = s[q + j]

LEMMA SpliceReplaces ==
  ASSUME NEW s \in Seq(Text), NEW c \in Configs, Has(s, Begin), Has(s, End)
  PROVE  Replaced(s, c)
<1> DEFINE p == FirstAt(s, Begin) q == FirstAt(s, End) r == Splice(s, ManagedBlock(c))
           h == SubSeq(s, 1, p - 1) m == Front(ManagedBlock(c)) t == SubSeq(s, q + 1, Len(s))
           hm == h \o m
<1>1. /\ p \in 1..Len(s) /\ q \in 1..Len(s) /\ s[p] = Begin /\ s[q] = End
      /\ \A i \in 1..(p - 1) : s[i] # Begin
  BY FirstIs
<1>2. r = hm \o t BY DEF Splice
<1>3. h \in Seq(Text) /\ Len(h) = p - 1 /\ \A i \in 1..(p - 1) : h[i] = s[i]
  BY <1>1, PartIs
<1>4. t \in Seq(Text) /\ Len(t) = Len(s) - q /\ \A i \in 1..(Len(s) - q) : t[i] = s[q + i]
  BY <1>1, PartIs
<1>5. m \in Seq(Text) /\ m = <<Begin, NL, c, NL, End>> BY BlockIs
<1>6. /\ Len(m) = 5 /\ m[1] = Begin /\ m[2] = NL /\ m[3] = c /\ m[4] = NL /\ m[5] = End
  BY <1>5
<1> HIDE DEF p, q, r, h, m, t
<1>7. Len(s) \in Nat /\ p - 1 \in Nat /\ 5 \in Nat /\ p + 4 \in Nat /\ Len(s) - q \in Nat
      /\ p - 1 + 5 = p + 4
  BY <1>1
<1>13. /\ hm \in Seq(Text) /\ Len(hm) = Len(h) + Len(m)
       /\ \A i \in 1..Len(h) : hm[i] = h[i]
       /\ \A j \in 1..Len(m) : hm[Len(h) + j] = m[j]
  BY <1>3, <1>5, JoinIs
<1> HIDE DEF hm
<1>8. /\ hm \in Seq(Text) /\ Len(hm) = p + 4
      /\ \A i \in 1..(p - 1) : hm[i] = h[i]
      /\ \A j \in 1..5 : hm[p - 1 + j] = m[j]
  BY <1>3, <1>6, <1>7, <1>13
<1>14. /\ hm \o t \in Seq(Text) /\ Len(hm \o t) = Len(hm) + Len(t)
       /\ \A i \in 1..Len(hm) : (hm \o t)[i] = hm[i]
       /\ \A j \in 1..Len(t) : (hm \o t)[Len(hm) + j] = t[j]
  BY <1>4, <1>8, JoinIs
<1>9. /\ r \in Seq(Text) /\ Len(r) = p + 4 + (Len(s) - q)
      /\ \A i \in 1..(p + 4) : r[i] = hm[i]
      /\ \A j \in 1..(Len(s) - q) : r[p + 4 + j] = t[j]
  BY <1>2, <1>4, <1>8, <1>14
<1>10. \A i \in 1..(p - 1) : r[i] = s[i]
  <2> SUFFICES ASSUME NEW i \in 1..(p - 1) PROVE r[i] = s[i] OBVIOUS
  <2>1. i \in 1..(p + 4) BY <1>1
  <2> QED BY <1>3, <1>8, <1>9, <2>1
<1>11. \A j \in 1..5 : r[p - 1 + j] = m[j]
  BY <1>1, <1>8, <1>9
<1>12. r[p] = Begin /\ r[p + 1] = NL /\ r[p + 2] = c /\ r[p + 3] = NL /\ r[p + 4] = End
  BY <1>1, <1>6, <1>11
<1> QED BY <1>1, <1>4, <1>7, <1>9, <1>10, <1>12 DEF Replaced, p, q, r

\* And where a region is appended.
Appended(s, c, g) ==
  LET r == Splice(s, ManagedBlock(c)) n == Len(s) + Len(g)
  IN  /\ r \in Seq(Text) /\ g \in {<< >>, <<NL>>, <<NL, NL>>}
      /\ Len(g) \in Nat /\ Len(r) = n + 6
      /\ \A i \in 1..Len(s) : r[i] = s[i]
      /\ \A j \in 1..Len(g) : r[Len(s) + j] = NL /\ g[j] = NL
      /\ r[n + 1] = Begin /\ r[n + 2] = NL /\ r[n + 3] = c /\ r[n + 4] = NL
      /\ r[n + 5] = End /\ r[n + 6] = NL

LEMMA SpliceAppends ==
  ASSUME NEW s \in Seq(Text), NEW c \in Configs, ~(Has(s, Begin) /\ Has(s, End))
  PROVE  \E g : Appended(s, c, g)
<1> DEFINE g1 == IF s # << >> /\ Last(s) # NL THEN <<NL>> ELSE << >>
           g2 == IF s # << >> THEN <<NL>> ELSE << >>
           g == g1 \o g2 r == Splice(s, ManagedBlock(c)) b == ManagedBlock(c)
           sg == s \o g
<1>1. r = s \o g1 \o g2 \o b BY DEF Splice
<1>2. g1 \in {<< >>, <<NL>>} /\ g2 \in {<< >>, <<NL>>} OBVIOUS
<1>3. g1 \in Seq(Text) /\ g2 \in Seq(Text) BY <1>2, MarkerFacts
<1>4. b \in Seq(Text) /\ Len(b) = 6 /\ b[1] = Begin /\ b[2] = NL /\ b[3] = c
      /\ b[4] = NL /\ b[5] = End /\ b[6] = NL
  BY MarkerFacts DEF ManagedBlock
<1> HIDE DEF g1, g2, r, b
<1>5. g \in {<< >>, <<NL>>, <<NL, NL>>} /\ g \in Seq(Text) /\ Len(g) \in Nat
      /\ \A j \in 1..Len(g) : g[j] = NL
  <2>1. g1 = << >> => g = g2 BY <1>3, ConcatEmptySeq
  <2>2. g2 = << >> => g = g1 BY <1>3, ConcatEmptySeq
  <2>3. << >> \in Seq(Text) /\ <<NL>> \in Seq(Text) /\ <<NL, NL>> \in Seq(Text) BY MarkerFacts
  <2>4. CASE g1 = <<NL>> /\ g2 = <<NL>>
    <3>1. Len(<<NL>>) = 1 /\ <<NL>>[1] = NL OBVIOUS
    <3>3. /\ g \in Seq(Text) /\ Len(g) = 1 + 1
          /\ \A i \in 1..1 : g[i] = <<NL>>[i]
          /\ \A j \in 1..1 : g[1 + j] = <<NL>>[j]
      BY <2>3, <2>4, <3>1, JoinIs
    <3> DEFINE w == <<NL, NL>>
    <3>4. w \in Seq(Text) /\ Len(w) = 2 /\ w[1] = NL /\ w[2] = NL BY <2>3
    <3> HIDE DEF g, w
    <3>5. g[1] = NL /\ g[2] = NL BY <3>1, <3>3
    <3>6. g = w
      <4>1. Len(g) = Len(w) /\ \A i \in 1..Len(g) : g[i] = w[i] BY <3>3, <3>4, <3>5
      <4> QED BY <3>3, <3>4, <4>1, SeqEqual
    <3> QED BY <3>3, <3>4, <3>5, <3>6 DEF w
  <2> HIDE DEF g
  <2>5. CASE g = << >> BY <2>3, <2>5
  <2>6. CASE g = <<NL>> BY <2>3, <2>6
  <2> QED BY <1>2, <2>1, <2>2, <2>4, <2>5, <2>6
<1>6. r = sg \o b BY <1>1, <1>3, ConcatAssociative
<1> HIDE DEF g
<1>7. Len(s) \in Nat /\ Len(s) + Len(g) \in Nat /\ 6 \in Nat BY <1>5
<1>8. /\ sg \in Seq(Text) /\ Len(sg) = Len(s) + Len(g)
      /\ \A i \in 1..Len(s) : sg[i] = s[i]
      /\ \A j \in 1..Len(g) : sg[Len(s) + j] = g[j]
  BY <1>5, JoinIs
<1> HIDE DEF sg
<1>14. /\ sg \o b \in Seq(Text) /\ Len(sg \o b) = Len(sg) + Len(b)
       /\ \A i \in 1..Len(sg) : (sg \o b)[i] = sg[i]
       /\ \A j \in 1..Len(b) : (sg \o b)[Len(sg) + j] = b[j]
  BY <1>4, <1>8, JoinIs
<1>9. /\ r \in Seq(Text) /\ Len(r) = Len(s) + Len(g) + 6
      /\ \A i \in 1..(Len(s) + Len(g)) : r[i] = sg[i]
      /\ \A j \in 1..6 : r[Len(s) + Len(g) + j] = b[j]
  BY <1>4, <1>6, <1>8, <1>14
<1>10. \A i \in 1..Len(s) : r[i] = s[i]
  BY <1>5, <1>7, <1>8, <1>9
<1>11. \A j \in 1..Len(g) : r[Len(s) + j] = NL
  <2> SUFFICES ASSUME NEW j \in 1..Len(g) PROVE r[Len(s) + j] = NL OBVIOUS
  <2>1. Len(s) + j \in 1..(Len(s) + Len(g)) BY <1>5, <1>7
  <2> QED BY <1>5, <1>8, <1>9, <2>1
<1> DEFINE n == Len(s) + Len(g)
<1>12. /\ r[n + 1] = b[1] /\ r[n + 2] = b[2] /\ r[n + 3] = b[3] /\ r[n + 4] = b[4]
       /\ r[n + 5] = b[5] /\ r[n + 6] = b[6]
  BY <1>9
<1>13. Appended(s, c, g)
  BY <1>4, <1>5, <1>7, <1>9, <1>10, <1>11, <1>12 DEF Appended, r
<1> QED BY <1>13
----------------------------------------------------------------------------
(***************************************************************************)
(* Markers in order, and bodies enclosed in regions, survive what apply    *)
(* does to a file.                                                         *)
(***************************************************************************)
Ordered(s) == \A e \in 1..Len(s) : s[e] = End => \E b \in 1..(e - 1) : s[b] = Begin
Opens(s, b, i) == s[b] = Begin /\ \A k \in b..i : s[k] # End
Wrapped(s) == \A i \in 1..Len(s) : s[i] \in Configs => \E b \in 1..(i - 1) : Opens(s, b, i)

LEMMA EnclosedIff == ASSUME NEW s \in Seq(Text) PROVE Enclosed(s) <=> Wrapped(s)
BY DEF Enclosed, Wrapped, Opens

\* What begins like a file whose markers are in order has them in order, and so
\* with bodies.
LEMMA PrefixKeeps ==
  ASSUME NEW s \in Seq(Text), NEW r \in Seq(Text), NEW n \in 0..Len(s), n <= Len(r),
         \A i \in 1..n : r[i] = s[i]
  PROVE  /\ Ordered(s) => \A e \in 1..n : r[e] = End => \E b \in 1..(e - 1) : r[b] = Begin
         /\ Wrapped(s) => \A i \in 1..n : r[i] \in Configs => \E b \in 1..(i - 1) : Opens(r, b, i)
<1>1. ASSUME Ordered(s), NEW e \in 1..n, r[e] = End PROVE \E b \in 1..(e - 1) : r[b] = Begin
  <2>1. PICK b \in 1..(e - 1) : s[b] = Begin BY <1>1 DEF Ordered
  <2>2. b \in 1..n OBVIOUS
  <2> QED BY <2>1, <2>2
<1>2. ASSUME Wrapped(s), NEW i \in 1..n, r[i] \in Configs PROVE \E b \in 1..(i - 1) : Opens(r, b, i)
  <2>1. PICK b \in 1..(i - 1) : Opens(s, b, i) BY <1>2 DEF Wrapped
  <2>2. \A k \in b..i : k \in 1..n OBVIOUS
  <2>3. b \in 1..n OBVIOUS
  <2> QED BY <2>1, <2>2, <2>3 DEF Opens
<1> QED BY <1>1, <1>2

\* The first pieces of a file that was being written.
LEMMA CutKeeps ==
  ASSUME NEW s \in Seq(Text), NEW n \in 0..Len(s)
  PROVE  /\ SubSeq(s, 1, n) \in Seq(Text)
         /\ Ordered(s) => Ordered(SubSeq(s, 1, n))
         /\ Wrapped(s) => Wrapped(SubSeq(s, 1, n))
<1> DEFINE r == SubSeq(s, 1, n)
<1>1. r \in Seq(Text) /\ Len(r) = n /\ \A i \in 1..n : r[i] = s[i] BY PartIs
<1> HIDE DEF r
<1>2. /\ Ordered(s) => \A e \in 1..n : r[e] = End => \E b \in 1..(e - 1) : r[b] = Begin
      /\ Wrapped(s) => \A i \in 1..n : r[i] \in Configs => \E b \in 1..(i - 1) : Opens(r, b, i)
  BY <1>1, PrefixKeeps
<1>3. (Ordered(s) => Ordered(r)) /\ (Wrapped(s) => Wrapped(r))
  BY <1>1, <1>2 DEF Ordered, Wrapped
<1> QED BY <1>1, <1>3 DEF r

\* The spliced file.
LEMMA SpliceKeeps ==
  ASSUME NEW s \in Seq(Text), NEW c \in Configs
  PROVE  /\ Splice(s, ManagedBlock(c)) \in Seq(Text)
         /\ Ordered(s) => Ordered(Splice(s, ManagedBlock(c)))
         /\ Wrapped(s) => Wrapped(Splice(s, ManagedBlock(c)))
<1> DEFINE r == Splice(s, ManagedBlock(c)) p == FirstAt(s, Begin) q == FirstAt(s, End)
<1> USE MarkerFacts
<1>1. CASE Has(s, Begin) /\ Has(s, End)
  <2>1. /\ r \in Seq(Text) /\ p \in 1..Len(s) /\ q \in 1..Len(s) /\ s[p] = Begin /\ s[q] = End
        /\ Len(r) = p + 4 + Len(s) - q
        /\ \A i \in 1..(p - 1) : r[i] = s[i] /\ s[i] # Begin
        /\ r[p] = Begin /\ r[p + 1] = NL /\ r[p + 2] = c /\ r[p + 3] = NL /\ r[p + 4] = End
        /\ \A j \in 1..(Len(s) - q) : r[p + 4 + j] = s[q + j]
    BY <1>1, SpliceReplaces DEF Replaced
  <2> HIDE DEF r, p, q
  <2>2. p - 1 \in 0..Len(s) /\ p - 1 <= Len(r) /\ Len(s) \in Nat BY <2>1
  <2>3. /\ Ordered(s) => \A e \in 1..(p - 1) : r[e] = End => \E b \in 1..(e - 1) : r[b] = Begin
        /\ Wrapped(s) => \A i \in 1..(p - 1) : r[i] \in Configs => \E b \in 1..(i - 1) : Opens(r, b, i)
    BY <2>1, <2>2, PrefixKeeps
  <2>4. ASSUME Ordered(s), NEW e \in 1..Len(r), r[e] = End
        PROVE  \E b \in 1..(e - 1) : r[b] = Begin
    <3>1. CASE e \in 1..(p - 1) BY <2>3, <2>4, <3>1
    <3>2. CASE e = p BY <2>1, <2>4, <3>2
    <3>3. CASE e > p
      <4>1. p \in 1..(e - 1) BY <2>1, <3>3
      <4> QED BY <2>1, <4>1
    <3> QED BY <2>1, <3>1, <3>2, <3>3
  <2>5. ASSUME Wrapped(s), NEW i \in 1..Len(r), r[i] \in Configs
        PROVE  \E b \in 1..(i - 1) : Opens(r, b, i)
    <3>1. CASE i \in 1..(p - 1) BY <2>3, <2>5, <3>1
    <3>2. CASE i = p + 2
      <4>1. \A k \in p..i : k = p \/ k = p + 1 \/ k = p + 2 BY <2>1, <3>2
      <4>2. c # End OBVIOUS
      <4>3. Opens(r, p, i) BY <2>1, <3>2, <4>1, <4>2 DEF Opens
      <4> QED BY <2>1, <3>2, <4>3
    <3>3. CASE i > p + 4
      <4> DEFINE j == i - (p + 4)
      <4>1. j \in 1..(Len(s) - q) /\ i = p + 4 + j BY <2>1, <2>2, <3>3
      <4> HIDE DEF j
      <4>2. s[q + j] = r[i] BY <2>1, <4>1
      <4>3. q + j \in 1..Len(s) BY <2>1, <2>2, <4>1
      <4>4. PICK b \in 1..((q + j) - 1) : Opens(s, b, q + j) 
        <5> DEFINE o == q + j
        <5>1. o \in 1..Len(s) /\ s[o] \in Configs BY <2>5, <4>2, <4>3
        <5> HIDE DEF o
        <5>2. \E b \in 1..(o - 1) : Opens(s, b, o) BY <2>5, <5>1 DEF Wrapped
        <5> QED BY <5>2 DEF o
      <4>5. ~(b <= q)
        <5> SUFFICES ASSUME b <= q PROVE FALSE OBVIOUS
        <5>1. q \in b..(q + j) BY <2>1, <4>1
        <5> QED BY <2>1, <4>4, <5>1 DEF Opens
      <4> DEFINE a == b - q
      <4>6. a \in 1..(j - 1) /\ b = q + a BY <2>1, <4>1, <4>5
      <4> HIDE DEF a
      <4>7. a \in 1..(Len(s) - q) /\ r[p + 4 + a] = Begin
        <5>1. p \in Nat /\ q \in Nat BY <2>1
        <5>2. a \in 1..(Len(s) - q) BY <2>2, <4>1, <4>6, <5>1
        <5>3. s[q + a] = Begin BY <4>4, <4>6 DEF Opens
        <5> QED BY <2>1, <5>2, <5>3
      <4>8. \A k \in (p + 4 + a)..i : r[k] # End
        <5> SUFFICES ASSUME NEW k \in (p + 4 + a)..i PROVE r[k] # End OBVIOUS
        <5> DEFINE m == k - (p + 4)
        <5>1. m \in a..j /\ k = p + 4 + m BY <2>1, <4>1, <4>6
        <5> HIDE DEF m
        <5>2. m \in 1..(Len(s) - q) /\ q + m \in b..(q + j) BY <2>1, <2>2, <4>1, <4>6, <5>1
        <5> QED BY <2>1, <4>4, <5>1, <5>2 DEF Opens
      <4>9. p + 4 + a \in 1..(i - 1) 
        <5>1. p \in Nat BY <2>1
        <5>2. j \in Int BY <4>1
        <5> QED BY <4>1, <4>6, <5>1, <5>2
      <4> QED BY <4>7, <4>8, <4>9 DEF Opens
    <3>4. i \in 1..(p - 1) \/ i = p \/ i = p + 1 \/ i = p + 2 \/ i = p + 3 \/ i = p + 4 \/ i > p + 4
      BY <2>1
    <3> QED BY <2>1, <2>5, <3>1, <3>2, <3>3, <3>4
  <2> QED BY <2>1, <2>4, <2>5 DEF Ordered, Wrapped, r
<1>2. CASE ~(Has(s, Begin) /\ Has(s, End))
  <2> DEFINE l == Len(s)
  <2>1. PICK g : Appended(s, c, g) BY <1>2, SpliceAppends
  <2> DEFINE n == l + Len(g)
  <2>2. /\ r \in Seq(Text) /\ l \in Nat /\ Len(g) \in Nat /\ Len(r) = n + 6
        /\ \A i \in 1..l : r[i] = s[i]
        /\ \A j \in 1..Len(g) : r[l + j] = NL
        /\ r[n + 1] = Begin /\ r[n + 2] = NL /\ r[n + 3] = c /\ r[n + 4] = NL
        /\ r[n + 5] = End /\ r[n + 6] = NL
    BY <2>1 DEF Appended
  <2>3. n \in Nat /\ l <= n /\ l \in 0..Len(s) /\ l <= Len(r) BY <2>2
  <2>4. \A i \in (l + 1)..n : r[i] = NL
    <3> SUFFICES ASSUME NEW i \in (l + 1)..n PROVE r[i] = NL OBVIOUS
    <3>1. i - l \in 1..Len(g) /\ i = l + (i - l) BY <2>2
    <3> QED BY <2>2, <3>1
  <2> HIDE DEF r, l, n
  <2>5. /\ Ordered(s) => \A e \in 1..l : r[e] = End => \E b \in 1..(e - 1) : r[b] = Begin
        /\ Wrapped(s) => \A i \in 1..l : r[i] \in Configs => \E b \in 1..(i - 1) : Opens(r, b, i)
    BY <2>2, <2>3, PrefixKeeps
  <2>6. \A i \in 1..Len(r) : \/ i \in 1..l \/ i \in (l + 1)..n \/ i = n + 1 \/ i = n + 2
                             \/ i = n + 3 \/ i = n + 4 \/ i = n + 5 \/ i = n + 6
    BY <2>2, <2>3
  <2>7. ASSUME Ordered(s), NEW e \in 1..Len(r), r[e] = End
        PROVE  \E b \in 1..(e - 1) : r[b] = Begin
    <3>1. CASE e \in 1..l BY <2>5, <2>7, <3>1
    <3>2. CASE e = n + 5
      <4>1. n + 1 \in 1..(e - 1) BY <2>3, <3>2
      <4> QED BY <2>2, <4>1
    <3>3. c # End OBVIOUS
    <3> QED BY <2>2, <2>4, <2>6, <2>7, <3>1, <3>2, <3>3
  <2>8. ASSUME Wrapped(s), NEW i \in 1..Len(r), r[i] \in Configs
        PROVE  \E b \in 1..(i - 1) : Opens(r, b, i)
    <3>1. CASE i \in 1..l BY <2>5, <2>8, <3>1
    <3>2. CASE i = n + 3
      <4>1. \A k \in (n + 1)..i : k = n + 1 \/ k = n + 2 \/ k = n + 3 BY <2>3, <3>2
      <4>2. c # End OBVIOUS
      <4>3. Opens(r, n + 1, i) BY <2>2, <3>2, <4>1, <4>2 DEF Opens
      <4>4. n + 1 \in 1..(i - 1) BY <2>3, <3>2
      <4> QED BY <4>3, <4>4
    <3> QED BY <2>2, <2>4, <2>6, <2>8, <3>1, <3>2
  <2> QED BY <2>2, <2>7, <2>8 DEF Ordered, Wrapped, r
<1> QED BY <1>1, <1>2
\* A line more, before or behind.
LEMMA LineKeeps ==
  ASSUME NEW s \in Seq(Text), NEW x \in Lines
  PROVE  /\ <<x, NL>> \o s \in Seq(Text) /\ s \o <<x, NL>> \in Seq(Text)
         /\ Ordered(s) => Ordered(<<x, NL>> \o s) /\ Ordered(s \o <<x, NL>>)
         /\ Wrapped(s) => Wrapped(<<x, NL>> \o s) /\ Wrapped(s \o <<x, NL>>)
<1> DEFINE w == <<x, NL>> r == w \o s t == s \o w l == Len(s)
<1>1. w \in Seq(Text) /\ Len(w) = 2 /\ w[1] = x /\ w[2] = NL /\ x # End /\ x \notin Configs
  BY MarkerFacts
<1>2. NL # End /\ NL \notin Configs BY MarkerFacts
<1> HIDE DEF w
<1>3. /\ r \in Seq(Text) /\ Len(r) = 2 + l /\ r[1] = x /\ r[2] = NL
      /\ \A j \in 1..l : r[2 + j] = s[j]
  <2>1. /\ r \in Seq(Text) /\ Len(r) = Len(w) + l
        /\ \A i \in 1..Len(w) : r[i] = w[i]
        /\ \A j \in 1..l : r[Len(w) + j] = s[j]
    BY <1>1, JoinIs
  <2> HIDE DEF r, l
  <2> QED BY <1>1, <2>1
<1>4. /\ t \in Seq(Text) /\ Len(t) = l + 2 /\ t[l + 1] = x /\ t[l + 2] = NL
      /\ \A i \in 1..l : t[i] = s[i]
  <2>1. /\ t \in Seq(Text) /\ Len(t) = l + Len(w)
        /\ \A i \in 1..l : t[i] = s[i]
        /\ \A j \in 1..Len(w) : t[l + j] = w[j]
    BY <1>1, JoinIs
  <2> HIDE DEF t, l
  <2> QED BY <1>1, <2>1
<1>5. l \in Nat /\ l \in 0..Len(s) /\ l <= Len(t) BY <1>4
<1> HIDE DEF r, t
<1>6. /\ Ordered(s) => \A e \in 1..l : t[e] = End => \E b \in 1..(e - 1) : t[b] = Begin
      /\ Wrapped(s) => \A i \in 1..l : t[i] \in Configs => \E b \in 1..(i - 1) : Opens(t, b, i)
  BY <1>4, <1>5, PrefixKeeps
<1>7. l = Len(s) OBVIOUS
<1> HIDE DEF l
<1>8. \A i \in 1..Len(t) : i \in 1..l \/ i = l + 1 \/ i = l + 2 BY <1>4, <1>5
<1>9. (Ordered(s) => Ordered(t)) /\ (Wrapped(s) => Wrapped(t))
  BY <1>1, <1>2, <1>4, <1>6, <1>8 DEF Ordered, Wrapped
<1>10. ASSUME NEW i \in 1..Len(r), i # 1, i # 2 PROVE \E j \in 1..l : i = 2 + j
  <2>1. i - 2 \in 1..l /\ i = 2 + (i - 2) BY <1>3, <1>5, <1>10
  <2> QED BY <2>1
<1>11. ASSUME Ordered(s) PROVE Ordered(r)
  <2> SUFFICES ASSUME NEW e \in 1..Len(r), r[e] = End PROVE \E b \in 1..(e - 1) : r[b] = Begin
    BY DEF Ordered
  <2>1. e # 1 /\ e # 2 BY <1>1, <1>2, <1>3
  <2>2. PICK j \in 1..l : e = 2 + j BY <1>10, <2>1
  <2>3. s[j] = End BY <1>3, <2>2
  <2>4. PICK b \in 1..(j - 1) : s[b] = Begin BY <1>7, <1>11, <2>3 DEF Ordered
  <2>5. b \in 1..l /\ 2 + b \in 1..(e - 1) BY <1>5, <2>2
  <2> QED BY <1>3, <2>4, <2>5
<1>12. ASSUME Wrapped(s) PROVE Wrapped(r)
  <2> SUFFICES ASSUME NEW i \in 1..Len(r), r[i] \in Configs PROVE \E b \in 1..(i - 1) : Opens(r, b, i)
    BY DEF Wrapped
  <2>1. i # 1 /\ i # 2 BY <1>1, <1>2, <1>3
  <2>2. PICK j \in 1..l : i = 2 + j BY <1>10, <2>1
  <2>3. s[j] \in Configs BY <1>3, <2>2
  <2>4. PICK b \in 1..(j - 1) : Opens(s, b, j) BY <1>7, <1>12, <2>3 DEF Wrapped
  <2>5. b \in 1..l /\ 2 + b \in 1..(i - 1) BY <1>5, <2>2
  <2>6. \A k \in (2 + b)..i : k - 2 \in b..j /\ k - 2 \in 1..l /\ k = 2 + (k - 2) BY <1>5, <2>2
  <2>7. \A k \in (2 + b)..i : r[k] = s[k - 2] BY <1>3, <2>6
  <2>8. \A k \in (2 + b)..i : r[k] # End BY <2>4, <2>6, <2>7 DEF Opens
  <2>9. r[2 + b] = Begin BY <1>3, <2>4, <2>5 DEF Opens
  <2> QED BY <2>5, <2>8, <2>9 DEF Opens
<1> QED BY <1>3, <1>4, <1>9, <1>11, <1>12 DEF r, t, w
----------------------------------------------------------------------------
\* What an applier writes is a block of some config, spliced into a file whose
\* bodies are enclosed.
Engaged(a) == applier[a] \in {"write", "truncated"}
RcInv ==
  /\ RcTypeOK /\ Wrapped(file)
  /\ \A a \in Appliers : applier[a] # "idle" => \E c \in Configs : block[a] = ManagedBlock(c)
  /\ \A a \in Appliers : Engaged(a) => Wrapped(existing[a])

LEMMA RcInvInit == RcInit => RcInv
<1> SUFFICES ASSUME RcInit PROVE RcInv OBVIOUS
<1>1. file \in Seq(Text) /\ Wrapped(file) BY BazelrcFiles, EnclosedIff DEF RcInit
<1>2. << >> \in Seq(Text) OBVIOUS
<1>3. 0 \in 0..MaxApplies /\ 0 \in 0..Edits BY BazelrcConstants
<1> QED BY <1>1, <1>2, <1>3 DEF RcInit, RcInv, RcTypeOK, Engaged

\* What an applier makes of what it read.
LEMMA UpdatedIs ==
  ASSUME RcInv, NEW a \in Appliers, Engaged(a)
  PROVE  /\ Updated(a) \in Seq(Text) /\ Wrapped(Updated(a))
         /\ Ordered(existing[a]) => Ordered(Updated(a))
<1>1. PICK c \in Configs : block[a] = ManagedBlock(c) BY DEF RcInv, Engaged
<1>2. existing[a] \in Seq(Text) /\ Wrapped(existing[a]) BY DEF RcInv, RcTypeOK
<1> QED BY <1>1, <1>2, SpliceKeeps DEF Updated

\* A file that was emptied, or that could not be read.
LEMMA EmptyKeeps == << >> \in Seq(Text) /\ Ordered(<< >>) /\ Wrapped(<< >>)
BY DEF Ordered, Wrapped

LEMMA RcStep == RcInv /\ [RcNext]_rcVars => RcInv'
<1> SUFFICES ASSUME RcInv, [RcNext]_rcVars PROVE RcInv' OBVIOUS
<1> USE DEF RcInv, RcTypeOK, Engaged, ApplierAt
<1>1. ASSUME NEW a \in Appliers, Apply(a) PROVE RcInv'
  <2>1. /\ applier[a] = "idle" /\ applier' = [applier EXCEPT ![a] = "read"]
        /\ applies' = [applies EXCEPT ![a] = @ + 1] /\ applies[a] < MaxApplies
        /\ block' = [block EXCEPT ![a] = ManagedBlock(config)]
        /\ UNCHANGED <<file, config, existing, edits>>
    BY <1>1 DEF Apply
  <2>2. preview' \in [Appliers -> BOOLEAN] /\ \A d \in Appliers \ {a} : preview'[d] = preview[d]
    BY <1>1 DEF Apply
  <2>3. config \in Configs /\ ManagedBlock(config) \in Seq(Text) BY BlockIs
  <2>4. \A d \in Appliers : applier'[d] = "truncated" => Writes(d)'
    <3> SUFFICES ASSUME NEW d \in Appliers, applier'[d] = "truncated" PROVE Writes(d)' OBVIOUS
    <3>1. d # a /\ applier[d] = "truncated" BY <2>1
    <3>2. block'[d] = block[d] /\ existing'[d] = existing[d] /\ preview'[d] = preview[d]
      BY <2>1, <2>2, <3>1
    <3> QED BY <3>1, <3>2 DEF Writes, Changed, Updated
  <2>5. block' \in [Appliers -> Seq(Text)] BY <2>1, <2>3
  <2>6. applies' \in [Appliers -> 0..MaxApplies] BY <2>1, BazelrcConstants
  <2>7. \A d \in Appliers : applier'[d] # "idle" => \E c \in Configs : block'[d] = ManagedBlock(c)
    BY <2>1, <2>3
  <2>8. \A d \in Appliers : applier'[d] \in {"write", "truncated"} => Wrapped(existing'[d])
    BY <2>1
  <2> QED BY <2>1, <2>2, <2>4, <2>5, <2>6, <2>7, <2>8
<1>2. ASSUME NEW a \in Appliers, Read(a) PROVE RcInv'
  <2>1. /\ applier[a] = "read" /\ applier' = [applier EXCEPT ![a] = "write"]
        /\ UNCHANGED <<file, config, block, preview, applies, edits>>
    BY <1>2 DEF Read
  <2>2. PICK f : f \in {file, << >>} /\ existing' = [existing EXCEPT ![a] = f]
    BY <1>2 DEF Read
  <2>3. f \in Seq(Text) /\ Wrapped(f) BY <2>2, EmptyKeeps
  <2>4. \A d \in Appliers : applier'[d] = "truncated" => Writes(d)'
    <3> SUFFICES ASSUME NEW d \in Appliers, applier'[d] = "truncated" PROVE Writes(d)' OBVIOUS
    <3>1. d # a /\ applier[d] = "truncated" BY <2>1
    <3>2. existing'[d] = existing[d] BY <2>2, <3>1
    <3> QED BY <2>1, <3>1, <3>2 DEF Writes, Changed, Updated
  <2>5. existing' \in [Appliers -> Seq(Text)] BY <2>2, <2>3
  <2>6. \A d \in Appliers : applier'[d] \in {"write", "truncated"} => Wrapped(existing'[d])
    BY <2>1, <2>2, <2>3
  <2> QED BY <2>1, <2>4, <2>5, <2>6
<1>3. ASSUME NEW a \in Appliers, NothingToWrite(a) \/ Truncate(a) \/ Write(a) \/ Crash(a)
      PROVE  RcInv'
  <2>1. /\ applier[a] # "idle"
        /\ \/ applier' = [applier EXCEPT ![a] = "idle"]
           \/ applier' = [applier EXCEPT ![a] = "truncated"] /\ applier[a] = "write" /\ Writes(a)
        /\ UNCHANGED <<config, existing, block, preview, applies, edits>>
    <3>1. CASE NothingToWrite(a) BY <3>1 DEF NothingToWrite
    <3>2. CASE Truncate(a) BY <3>2 DEF Truncate
    <3>3. CASE Write(a) BY <3>3 DEF Write
    <3>4. CASE Crash(a) BY <3>4 DEF Crash
    <3> QED BY <1>3, <3>1, <3>2, <3>3, <3>4
  <2>2. \/ file' = file \/ file' = << >>
        \/ Engaged(a) /\ file' = Updated(a)
        \/ Engaged(a) /\ \E n \in 0..Len(Updated(a)) : file' = SubSeq(Updated(a), 1, n)
    BY <1>3 DEF NothingToWrite, Truncate, Write, Crash
  <2>3. file' \in Seq(Text) /\ Wrapped(file')
    <3>1. CASE Engaged(a)
      <4>1. Updated(a) \in Seq(Text) /\ Wrapped(Updated(a)) BY <3>1, UpdatedIs
      <4>2. \A n \in 0..Len(Updated(a)) :
              SubSeq(Updated(a), 1, n) \in Seq(Text) /\ Wrapped(SubSeq(Updated(a), 1, n))
        BY <4>1, CutKeeps
      <4> QED BY <2>2, <4>1, <4>2, EmptyKeeps
    <3>2. CASE ~Engaged(a) BY <2>2, <3>2, EmptyKeeps
    <3> QED BY <3>1, <3>2
  <2>4. \A d \in Appliers : applier'[d] = "truncated" => Writes(d)'
    <3> SUFFICES ASSUME NEW d \in Appliers, applier'[d] = "truncated" PROVE Writes(d)' OBVIOUS
    <3>1. Writes(d) BY <2>1
    <3> QED BY <2>1, <3>1 DEF Writes, Changed, Updated
  <2>5. \A d \in Appliers : applier'[d] \in {"write", "truncated"} => applier[d] \in {"write", "truncated"}
    BY <2>1
  <2>6. applier' \in [Appliers -> {"idle", "read", "write", "truncated"}] BY <2>1
  <2>7. \A d \in Appliers : applier'[d] # "idle" => applier[d] # "idle" BY <2>1
  <2> QED BY <2>1, <2>3, <2>4, <2>5, <2>6, <2>7
<1>4. ASSUME Edit PROVE RcInv'
  <2>1. edits' \in 0..Edits /\ UNCHANGED <<applier, existing, block, preview, applies>>
    BY <1>4, BazelrcConstants DEF Edit
  <2>2. \A d \in Appliers : Writes(d)' = Writes(d) BY <2>1 DEF Writes, Changed, Updated
  <2>3. config' \in Configs /\ file' \in Seq(Text) /\ Wrapped(file')
    BY <1>4, LineKeeps DEF Edit
  <2> QED BY <2>1, <2>2, <2>3
<1>5. CASE UNCHANGED rcVars
  <2>1. \A d \in Appliers : Writes(d)' = Writes(d) BY <1>5 DEF rcVars, Writes, Changed, Updated
  <2> QED BY <1>5, <2>1 DEF rcVars
<1> QED BY <1>1, <1>2, <1>3, <1>4, <1>5 DEF RcNext

LEMMA RcInvariance == RcSpec => []RcInv
BY RcInvInit, RcStep, PTL DEF RcSpec

\* The types of the file, the config and the appliers, and that an applier has
\* emptied the file only to write it.
THEOREM BazelrcTypeCorrect == RcSpec => []RcTypeOK
<1>1. RcInv => RcTypeOK BY DEF RcInv
<1> QED BY <1>1, RcInvariance, PTL
----------------------------------------------------------------------------
LEMMA OrderlyIs ==
  ASSUME file \in Seq(Text), existing \in [Appliers -> Seq(Text)]
  PROVE  Orderly <=> Ordered(file) /\ \A a \in Appliers : Engaged(a) => Ordered(existing[a])
BY InOrderIff DEF Orderly, Ordered, Engaged

LEMMA OrderStep == RcInv /\ [RcNext]_rcVars => (Orderly => Orderly')
<1> DEFINE Sorted == Ordered(file) /\ \A a \in Appliers : Engaged(a) => Ordered(existing[a])
<1> SUFFICES ASSUME RcInv, [RcNext]_rcVars, Sorted PROVE Sorted'
  <2>1. RcInv /\ [RcNext]_rcVars => RcInv' BY RcStep
  <2>2. RcInv => (Orderly <=> Sorted) BY OrderlyIs DEF RcInv, RcTypeOK
  <2>3. RcInv' => (Orderly' <=> Sorted')
    <3> SUFFICES ASSUME RcInv' PROVE Orderly' <=> Sorted' OBVIOUS
    <3>1. file' \in Seq(Text) /\ existing' \in [Appliers -> Seq(Text)] BY DEF RcInv, RcTypeOK
    <3>2. InOrder(file') <=> Ordered(file') BY <3>1, InOrderIff DEF Ordered
    <3>3. \A a \in Appliers : InOrder(existing'[a]) <=> Ordered(existing'[a])
      BY <3>1, InOrderIff DEF Ordered
    <3>4. \A a \in Appliers : Engaged(a)' <=> applier'[a] \in {"write", "truncated"} BY DEF Engaged
    <3>5. Orderly' <=> /\ InOrder(file')
                      /\ \A a \in Appliers : applier'[a] \in {"write", "truncated"} => InOrder(existing'[a])
      BY DEF Orderly, InOrder, Has, FirstAt
    <3>6. Sorted' <=> /\ Ordered(file')
                     /\ \A a \in Appliers : applier'[a] \in {"write", "truncated"} => Ordered(existing'[a])
      BY DEF Engaged, Ordered
    <3> QED BY <3>2, <3>3, <3>5, <3>6
  <2> QED BY <2>1, <2>2, <2>3
<1> DEFINE Goal == /\ Ordered(file')
                   /\ \A a \in Appliers :
                        applier'[a] \in {"write", "truncated"} => Ordered(existing'[a])
<1> SUFFICES Goal BY DEF Engaged, Ordered
<1> USE DEF RcInv, RcTypeOK, ApplierAt
<1>0. /\ Ordered(file)
      /\ \A a \in Appliers : applier[a] \in {"write", "truncated"} => Ordered(existing[a])
  BY DEF Engaged
<1>1. ASSUME NEW a \in Appliers, Apply(a) PROVE Goal
  BY <1>0, <1>1 DEF Apply
<1>2. ASSUME NEW a \in Appliers, Read(a) PROVE Goal
  <2>1. applier' = [applier EXCEPT ![a] = "write"] /\ file' = file BY <1>2 DEF Read
  <2>2. PICK f : f \in {file, << >>} /\ existing' = [existing EXCEPT ![a] = f]
    BY <1>2 DEF Read
  <2>3. Ordered(f) BY <1>0, <2>2, EmptyKeeps
  <2> QED BY <1>0, <2>1, <2>2, <2>3
<1>3. ASSUME NEW a \in Appliers, NothingToWrite(a) \/ Truncate(a) \/ Write(a) \/ Crash(a)
      PROVE  Goal
  <2>1. /\ existing' = existing
        /\ \A d \in Appliers : applier'[d] \in {"write", "truncated"} => applier[d] \in {"write", "truncated"}
    BY <1>3 DEF NothingToWrite, Truncate, Write, Crash
  <2>2. \/ file' = file \/ file' = << >>
        \/ Engaged(a) /\ file' = Updated(a)
        \/ Engaged(a) /\ \E n \in 0..Len(Updated(a)) : file' = SubSeq(Updated(a), 1, n)
    BY <1>3 DEF NothingToWrite, Truncate, Write, Crash, Engaged
  <2>3. Ordered(file')
    <3>1. CASE Engaged(a)
      <4>1. Updated(a) \in Seq(Text) /\ Ordered(Updated(a)) BY <1>0, <3>1, UpdatedIs DEF Engaged
      <4>2. \A n \in 0..Len(Updated(a)) : Ordered(SubSeq(Updated(a), 1, n)) BY <4>1, CutKeeps
      <4> QED BY <1>0, <2>2, <4>1, <4>2, EmptyKeeps
    <3>2. CASE ~Engaged(a) BY <1>0, <2>2, <3>2, EmptyKeeps
    <3> QED BY <3>1, <3>2
  <2> QED BY <1>0, <2>1, <2>3
<1>4. ASSUME Edit PROVE Goal
  <2>1. UNCHANGED <<applier, existing>> BY <1>4 DEF Edit
  <2>2. Ordered(file') BY <1>0, <1>4, LineKeeps DEF Edit
  <2> QED BY <1>0, <2>1, <2>2
<1>5. CASE UNCHANGED rcVars BY <1>0, <1>5 DEF rcVars
<1> QED BY <1>1, <1>2, <1>3, <1>4, <1>5 DEF RcNext

\* For any appliers, edits, failed reads and crashes: a file whose markers are in
\* order never gets an end marker before its first begin marker, so that `apply`
\* does not come to panic on what it and the user's new lines made of it.
THEOREM MarkersKeepOrder == RcSpec => NeverReversed
BY RcInvariance, OrderStep, PTL DEF RcSpec, NeverReversed
----------------------------------------------------------------------------
\* A file with one region, of the config c, that begins at p.
Shape(r, c, p) ==
  /\ r \in Seq(Text) /\ p \in Nat \ {0} /\ p + 4 <= Len(r)
  /\ r[p] = Begin /\ r[p + 1] = NL /\ r[p + 2] = c /\ r[p + 3] = NL /\ r[p + 4] = End
  /\ \A i \in 1..Len(r) : i < p \/ i > p + 4 => r[i] \notin Configs \cup {Begin, End}

\* Such a file is what the properties of apply ask for; its own block changes nothing.
LEMMA ShapeHas ==
  ASSUME NEW r, NEW c \in Configs, NEW p, Shape(r, c, p)
  PROVE  /\ OneRegionAt(r, p, p + 4) /\ WellMarked(r) /\ Has(r, Begin) /\ Has(r, End)
         /\ FirstAt(r, Begin) = p /\ FirstAt(r, End) = p + 4
         /\ r[p + 2] = c /\ p + 2 \in DOMAIN r /\ \A j \in DOMAIN r \ {p + 2} : r[j] \notin Configs
<1> USE MarkerFacts
<1>1. /\ r \in Seq(Text) /\ p \in 1..Len(r) /\ p + 4 \in 1..Len(r) /\ p + 2 \in 1..Len(r)
      /\ Len(r) \in Nat /\ p \in Nat
  <2>1. Len(r) \in Nat BY DEF Shape
  <2> QED BY <2>1 DEF Shape
<1>2. \A i \in 1..Len(r) : \/ i < p \/ i > p + 4 \/ i = p \/ i = p + 1 \/ i = p + 2 \/ i = p + 3
                           \/ i = p + 4
  BY <1>1
<1>3. \A i \in 1..Len(r) : /\ r[i] = Begin <=> i = p
                           /\ r[i] = End <=> i = p + 4
                           /\ r[i] \in Configs => i = p + 2
  BY <1>1, <1>2 DEF Shape
<1>4. r[p] = Begin /\ r[p + 4] = End /\ r[p + 2] = c BY DEF Shape
<1>5. p <= p /\ p + 4 <= p + 4 /\ p < p + 4 BY <1>1
<1>6. Has(r, Begin) /\ FirstAt(r, Begin) = p BY <1>1, <1>3, <1>4, <1>5, FirstAtIs
<1>7. Has(r, End) /\ FirstAt(r, End) = p + 4
  <2> DEFINE e == p + 4
  <2>1. e \in 1..Len(r) /\ r[e] = End /\ \A j \in 1..Len(r) : r[j] = End => e <= j
    BY <1>1, <1>3, <1>4, <1>5
  <2> HIDE DEF e
  <2>2. Has(r, End) /\ FirstAt(r, End) = e BY <1>1, <2>1, FirstAtIs
  <2> QED BY <2>2 DEF e
<1>8. DOMAIN r = 1..Len(r) BY <1>1
<1>9. OneRegionAt(r, p, p + 4) BY <1>1, <1>3, <1>5, <1>8 DEF OneRegionAt, At
<1>10. WellMarked(r) BY <1>1, <1>8, <1>9 DEF WellMarked
<1> QED BY <1>1, <1>3, <1>4, <1>6, <1>7, <1>8, <1>9, <1>10

LEMMA ShapeStays ==
  ASSUME NEW r, NEW c \in Configs, NEW p, Shape(r, c, p)
  PROVE  Splice(r, ManagedBlock(c)) = r
<1> DEFINE t == Splice(r, ManagedBlock(c)) l == Len(r)
<1>1. /\ r \in Seq(Text) /\ Has(r, Begin) /\ Has(r, End)
      /\ FirstAt(r, Begin) = p /\ FirstAt(r, End) = p + 4
  BY ShapeHas DEF Shape
<1>2. l \in Nat /\ p \in Nat \ {0} /\ p + 4 <= l BY <1>1 DEF Shape
<1>3. Replaced(r, c) BY <1>1, SpliceReplaces
<1>4. /\ t \in Seq(Text) /\ Len(t) = p + 4 + l - (p + 4)
      /\ \A i \in 1..(p - 1) : t[i] = r[i]
      /\ t[p] = Begin /\ t[p + 1] = NL /\ t[p + 2] = c /\ t[p + 3] = NL /\ t[p + 4] = End
      /\ \A j \in 1..(l - (p + 4)) : t[p + 4 + j] = r[p + 4 + j]
  BY <1>1, <1>3 DEF Replaced
<1> HIDE DEF t
<1>5. Len(t) = l BY <1>2, <1>4
<1>6. ASSUME NEW i \in 1..l PROVE t[i] = r[i]
  <2>1. \/ i \in 1..(p - 1) \/ i = p \/ i = p + 1 \/ i = p + 2 \/ i = p + 3 \/ i = p + 4
        \/ i - (p + 4) \in 1..(l - (p + 4)) /\ i = p + 4 + (i - (p + 4))
    <3> HIDE DEF l
    <3> QED BY <1>2
  <2> QED BY <1>4, <2>1 DEF Shape
<1>7. t = r BY <1>1, <1>4, <1>5, <1>6, SeqEqual
<1> QED BY <1>7 DEF t

\* A file whose markers are those of one region, whose bodies are in it: where it
\* stands, and that nothing else is a marker or a body.
LEMMA MarkedIs ==
  ASSUME NEW s \in Seq(Text), WellMarked(s), Wrapped(s), Has(s, Begin) \/ Has(s, End)
  PROVE  /\ Has(s, Begin) /\ Has(s, End) /\ FirstAt(s, Begin) < FirstAt(s, End)
         /\ \A i \in 1..Len(s) : i < FirstAt(s, Begin) \/ i > FirstAt(s, End)
                                => s[i] \notin Configs \cup {Begin, End}
<1>1. PICK b, e \in DOMAIN s : OneRegionAt(s, b, e) BY DEF WellMarked
<1>2. b \in 1..Len(s) /\ e \in 1..Len(s) /\ b < e /\ Len(s) \in Nat BY <1>1 DEF OneRegionAt
<1>3. \A i \in 1..Len(s) : (s[i] = Begin <=> i = b) /\ (s[i] = End <=> i = e)
  BY <1>1 DEF OneRegionAt, At
<1>4. Has(s, Begin) /\ FirstAt(s, Begin) = b BY <1>2, <1>3, FirstAtIs
<1>5. Has(s, End) /\ FirstAt(s, End) = e BY <1>2, <1>3, FirstAtIs
<1>6. ASSUME NEW i \in 1..Len(s), i < b \/ i > e, s[i] \in Configs PROVE FALSE
  <2>1. PICK a \in 1..(i - 1) : Opens(s, a, i) BY <1>6 DEF Wrapped
  <2>2. a = b BY <1>2, <1>3, <2>1 DEF Opens
  <2>3. e \in a..i BY <1>2, <1>6, <2>1, <2>2
  <2>4. s[e] = End BY <1>2, <1>3
  <2> QED BY <2>1, <2>3, <2>4 DEF Opens
<1>7. \A i \in 1..Len(s) : i < b \/ i > e => i # b /\ i # e BY <1>2
<1> QED BY <1>2, <1>3, <1>4, <1>5, <1>6, <1>7

\* And a file without markers has no body.
LEMMA UnmarkedIs ==
  ASSUME NEW s \in Seq(Text), Wrapped(s), ~Has(s, Begin), ~Has(s, End)
  PROVE  \A i \in 1..Len(s) : s[i] \notin Configs \cup {Begin, End}
<1>1. \A i \in 1..Len(s) : s[i] # Begin /\ s[i] # End BY HasIff
<1>2. ASSUME NEW i \in 1..Len(s), s[i] \in Configs PROVE FALSE
  <2>1. PICK a \in 1..(i - 1) : Opens(s, a, i) BY <1>2 DEF Wrapped
  <2>2. a \in 1..Len(s) BY <2>1
  <2> QED BY <1>1, <2>1, <2>2 DEF Opens
<1> QED BY <1>1, <1>2

\* The spliced file has one region, with what was before and behind the old one
\* before and behind it.
LEMMA SpliceShape ==
  ASSUME NEW s \in Seq(Text), NEW c \in Configs, WellMarked(s), Wrapped(s)
  PROVE  LET r == Splice(s, ManagedBlock(c)) IN
         /\ \E p : Shape(r, c, p)
         /\ \E gap \in {<< >>, <<NL>>, <<NL, NL>>}, rest \in {<< >>, <<NL>>} :
              /\ Before(r) = Before(s) \o gap /\ Behind(r) = rest \o Behind(s)
              /\ Has(s, Begin) => gap = << >> /\ rest = << >>
<1> DEFINE r == Splice(s, ManagedBlock(c)) p == FirstAt(s, Begin) q == FirstAt(s, End) l == Len(s)
<1> USE MarkerFacts
<1>0. l \in Nat OBVIOUS
<1>1. CASE Has(s, Begin) \/ Has(s, End)
  <2>1. /\ Has(s, Begin) /\ Has(s, End) /\ p < q
        /\ \A i \in 1..l : i < p \/ i > q => s[i] \notin Configs \cup {Begin, End}
    BY <1>1, MarkedIs
  <2>2. Replaced(s, c) BY <2>1, SpliceReplaces
  <2>3. /\ r \in Seq(Text) /\ p \in 1..l /\ q \in 1..l /\ s[p] = Begin /\ s[q] = End
        /\ Len(r) = p + 4 + l - q
        /\ \A i \in 1..(p - 1) : r[i] = s[i]
        /\ r[p] = Begin /\ r[p + 1] = NL /\ r[p + 2] = c /\ r[p + 3] = NL /\ r[p + 4] = End
        /\ \A j \in 1..(l - q) : r[p + 4 + j] = s[q + j]
    BY <2>2 DEF Replaced
  <2>4. Before(s) = SubSeq(s, 1, p - 1) /\ Behind(s) = SubSeq(s, q + 1, l) BY <2>1 DEF Before, Behind
  <2> HIDE DEF r, p, q
  <2>5. p \in Nat \ {0} /\ q \in Nat \ {0} /\ p + 4 <= Len(r) /\ Len(r) \in Nat BY <1>0, <2>3
  <2>6. ASSUME NEW i \in 1..Len(r), i < p \/ i > p + 4 PROVE r[i] \notin Configs \cup {Begin, End}
    <3>1. CASE i < p
      <4>1. i \in 1..(p - 1) /\ i \in 1..l BY <2>3, <2>5, <3>1
      <4> QED BY <2>1, <2>3, <3>1, <4>1
    <3>2. CASE i > p + 4
      <4> DEFINE j == i - (p + 4)
      <4>1. j \in 1..(l - q) /\ i = p + 4 + j BY <1>0, <2>3, <2>5, <3>2
      <4> HIDE DEF j
      <4>2. q + j \in 1..l /\ q + j > q BY <1>0, <2>5, <4>1
      <4>3. r[i] = s[q + j] BY <2>3, <4>1
      <4> QED BY <2>1, <4>2, <4>3
    <3> QED BY <2>6, <3>1, <3>2
  <2>7. Shape(r, c, p) BY <2>3, <2>5, <2>6 DEF Shape
  <2>8. Has(r, Begin) /\ Has(r, End) /\ FirstAt(r, Begin) = p /\ FirstAt(r, End) = p + 4
    BY <2>7, ShapeHas
  <2>9. Before(r) = SubSeq(r, 1, p - 1) /\ Behind(r) = SubSeq(r, p + 4 + 1, Len(r))
    BY <2>8 DEF Before, Behind
  <2>10. SubSeq(r, 1, p - 1) = SubSeq(s, 1, p - 1)
    <3> DEFINE x == SubSeq(r, 1, p - 1) y == SubSeq(s, 1, p - 1)
    <3>1. p - 1 \in 0..Len(r) /\ p - 1 \in 0..Len(s) BY <1>0, <2>3, <2>5
    <3>2. x \in Seq(Text) /\ Len(x) = p - 1 /\ \A i \in 1..(p - 1) : x[i] = r[i]
      BY <2>3, <2>5, <3>1, PartIs
    <3>3. y \in Seq(Text) /\ Len(y) = p - 1 /\ \A i \in 1..(p - 1) : y[i] = s[i]
      BY <2>5, <3>1, PartIs
    <3> HIDE DEF x, y
    <3>4. x = y BY <2>3, <3>2, <3>3, SeqEqual
    <3> QED BY <3>4 DEF x, y
  <2>11. SubSeq(r, p + 4 + 1, Len(r)) = SubSeq(s, q + 1, l)
    <3> DEFINE x == SubSeq(r, p + 4 + 1, Len(r)) y == SubSeq(s, q + 1, l)
    <3>1. p + 4 + 1 \in Nat \ {0} /\ Len(r) \in 0..Len(r) /\ p + 4 + 1 <= Len(r) + 1
          /\ Len(r) - (p + 4 + 1) + 1 = l - q /\ q + 1 \in Nat \ {0} /\ l \in 0..Len(s)
          /\ q + 1 <= l + 1 /\ l - (q + 1) + 1 = l - q
      BY <1>0, <2>3, <2>5
    <3>2. x \in Seq(Text) /\ Len(x) = l - q /\ \A i \in 1..(l - q) : x[i] = r[p + 4 + 1 + i - 1]
      <4> DEFINE a == p + 4 + 1 z == Len(r)
      <4>1. a \in Nat \ {0} /\ z \in 0..Len(r) /\ a <= z + 1 /\ z - a + 1 = l - q BY <3>1
      <4> HIDE DEF a, z
      <4>2. /\ SubSeq(r, a, z) \in Seq(Text) /\ Len(SubSeq(r, a, z)) = z - a + 1
            /\ \A i \in 1..(z - a + 1) : SubSeq(r, a, z)[i] = r[a + i - 1]
        BY <2>3, <4>1, PartIs
      <4> QED BY <4>1, <4>2 DEF a, z
    <3>3. y \in Seq(Text) /\ Len(y) = l - q /\ \A i \in 1..(l - q) : y[i] = s[q + 1 + i - 1]
      BY <3>1, PartIs
    <3> HIDE DEF x, y
    <3>4. ASSUME NEW i \in 1..(l - q) PROVE x[i] = y[i]
      <4>1. p + 4 + 1 + i - 1 = p + 4 + i /\ q + 1 + i - 1 = q + i BY <2>5
      <4>2. x[i] = r[p + 4 + i] BY <3>2, <4>1
      <4>3. y[i] = s[q + i] BY <3>3, <4>1
      <4> QED BY <2>3, <4>2, <4>3
    <3>5. x = y BY <3>2, <3>3, <3>4, SeqEqual
    <3> QED BY <3>5 DEF x, y
  <2>12. Before(s) \in Seq(Text) /\ Behind(s) \in Seq(Text)
    <3>1. p - 1 \in 0..l /\ l \in 0..l /\ q + 1 \in Nat \ {0} /\ q + 1 <= l + 1 /\ 1 <= p - 1 + 1
      BY <1>0, <2>3
    <3> QED BY <2>4, <3>1, PartIs
  <2>13. Before(r) = Before(s) \o << >> /\ Behind(r) = << >> \o Behind(s)
    BY <2>4, <2>9, <2>10, <2>11, <2>12, ConcatEmptySeq
  <2> QED BY <2>7, <2>13 DEF r
<1>2. CASE ~(Has(s, Begin) \/ Has(s, End))
  <2>1. \A i \in 1..l : s[i] \notin Configs \cup {Begin, End} BY <1>2, UnmarkedIs
  <2>2. PICK g : Appended(s, c, g) BY <1>2, SpliceAppends
  <2> DEFINE n == l + Len(g)
  <2>3. /\ r \in Seq(Text) /\ g \in {<< >>, <<NL>>, <<NL, NL>>} /\ Len(g) \in Nat /\ Len(r) = n + 6
        /\ \A i \in 1..l : r[i] = s[i]
        /\ \A j \in 1..Len(g) : r[l + j] = NL /\ g[j] = NL
        /\ r[n + 1] = Begin /\ r[n + 2] = NL /\ r[n + 3] = c /\ r[n + 4] = NL
        /\ r[n + 5] = End /\ r[n + 6] = NL
    BY <2>2 DEF Appended
  <2>4. Before(s) = s /\ Behind(s) = << >> BY <1>2 DEF Before, Behind
  <2>5. n \in Nat /\ l <= n BY <1>0, <2>3
  <2>6. \A i \in (l + 1)..n : r[i] = NL
    <3> SUFFICES ASSUME NEW i \in (l + 1)..n PROVE r[i] = NL OBVIOUS
    <3>1. i - l \in 1..Len(g) /\ i = l + (i - l) BY <1>0, <2>3
    <3> QED BY <2>3, <3>1
  <2> HIDE DEF r, n
  <2>7. ASSUME NEW i \in 1..Len(r), i < n + 1 \/ i > n + 1 + 4
        PROVE  r[i] \notin Configs \cup {Begin, End}
    <3>1. i \in 1..l \/ i \in (l + 1)..n \/ i = n + 6
      <4>1. Len(r) = n + 6 BY <2>3
      <4>2. i \in 1..(n + 6) BY <4>1
      <4> QED BY <1>0, <2>5, <2>7, <4>2
    <3> QED BY <2>1, <2>3, <2>6, <3>1
  <2>8. Shape(r, c, n + 1)
    <3>1. n + 1 \in Nat \ {0} /\ n + 1 + 4 <= Len(r) BY <2>3, <2>5
    <3>2. n + 1 + 1 = n + 2 /\ n + 1 + 2 = n + 3 /\ n + 1 + 3 = n + 4 /\ n + 1 + 4 = n + 5 BY <2>5
    <3> QED BY <2>3, <2>7, <3>1, <3>2 DEF Shape
  <2>9. Has(r, Begin) /\ Has(r, End) /\ FirstAt(r, Begin) = n + 1 /\ FirstAt(r, End) = n + 1 + 4
    BY <2>8, ShapeHas
  <2>10. Before(r) = SubSeq(r, 1, n) /\ Behind(r) = SubSeq(r, n + 6, n + 6)
    <3>1. (n + 1) - 1 = n /\ (n + 1 + 4) + 1 = n + 6 BY <2>5
    <3>2. Len(r) = n + 6 BY <2>3
    <3>3. Before(r) = SubSeq(r, 1, (n + 1) - 1) BY <2>9 DEF Before
    <3>4. Behind(r) = SubSeq(r, (n + 1 + 4) + 1, Len(r)) BY <2>9 DEF Behind
    <3> QED BY <3>1, <3>2, <3>3, <3>4
  <2>11. g \in Seq(Text)
    <3>1. << >> \in Seq(Text) /\ <<NL>> \in Seq(Text) /\ <<NL, NL>> \in Seq(Text) OBVIOUS
    <3> QED BY <2>3, <3>1
  <2>12. SubSeq(r, 1, n) = s \o g
    <3> DEFINE x == SubSeq(r, 1, n) y == s \o g
    <3>1. n \in 0..Len(r) /\ 1 <= n + 1 /\ n - 1 + 1 = n BY <2>3, <2>5
    <3>2. x \in Seq(Text) /\ Len(x) = n /\ \A i \in 1..n : x[i] = r[i]
      BY <2>3, <2>5, <3>1, PartIs
    <3>3. /\ y \in Seq(Text) /\ Len(y) = l + Len(g)
          /\ \A i \in 1..l : y[i] = s[i]
          /\ \A j \in 1..Len(g) : y[l + j] = g[j]
      BY <2>11, JoinIs
    <3> HIDE DEF x, y
    <3>4. n = l + Len(g) BY DEF n
    <3>5. ASSUME NEW i \in 1..n PROVE x[i] = y[i]
      <4>1. CASE i \in 1..l BY <2>3, <3>2, <3>3, <4>1
      <4>2. CASE i \in (l + 1)..n
        <5>1. i - l \in 1..Len(g) /\ i = l + (i - l) BY <1>0, <2>3, <3>4, <4>2
        <5>3. PICK j \in 1..Len(g) : i = l + j BY <5>1
        <5>2. y[i] = NL BY <2>3, <3>3, <5>3
        <5> QED BY <2>6, <3>2, <4>2, <5>2
      <4> QED BY <1>0, <2>5, <4>1, <4>2
    <3>6. x = y BY <3>2, <3>3, <3>4, <3>5, SeqEqual
    <3> QED BY <3>6 DEF x, y
  <2>13. SubSeq(r, n + 6, n + 6) = <<NL>>
    <3> DEFINE x == SubSeq(r, n + 6, n + 6) y == <<NL>>
    <3>1. n + 6 \in Nat \ {0} /\ n + 6 \in 0..Len(r) /\ n + 6 <= n + 6 + 1 /\ n + 6 - (n + 6) + 1 = 1
          /\ n + 6 + 1 - 1 = n + 6
      BY <2>3, <2>5
    <3>2. x \in Seq(Text) /\ Len(x) = 1 /\ x[1] = r[n + 6]
      <4>1. \A i \in 1..1 : x[i] = r[n + 6 + i - 1] BY <2>3, <3>1, PartIs
      <4>2. x \in Seq(Text) /\ Len(x) = 1 BY <2>3, <3>1, PartIs
      <4> QED BY <3>1, <4>1, <4>2
    <3>3. y \in Seq(Text) /\ Len(y) = 1 /\ y[1] = NL OBVIOUS
    <3> HIDE DEF x, y
    <3>4. x = y
      <4>1. \A i \in 1..Len(x) : x[i] = y[i] BY <2>3, <3>2, <3>3
      <4> QED BY <3>2, <3>3, <4>1, SeqEqual
    <3> QED BY <3>4 DEF x, y
  <2>14. Before(r) = Before(s) \o g /\ Behind(r) = <<NL>> \o Behind(s)
    <3>1. <<NL>> \o << >> = <<NL>> OBVIOUS
    <3> QED BY <2>4, <2>10, <2>12, <2>13, <3>1
  <2> QED BY <1>2, <2>3, <2>8, <2>14 DEF r
<1> QED BY <1>1, <1>2

\* What an applier has read and rendered, when it writes.
LEMMA WritesBlock ==
  ASSUME RcInv, NEW a \in Appliers, Engaged(a)
  PROVE  /\ existing[a] \in Seq(Text) /\ Wrapped(existing[a])
         /\ \E c \in Configs : block[a] = ManagedBlock(c) /\ block[a][3] = c
<1>1. PICK c \in Configs : block[a] = ManagedBlock(c) BY DEF RcInv, Engaged
<1>2. ManagedBlock(c)[3] = c BY DEF ManagedBlock
<1> QED BY <1>1, <1>2 DEF RcInv, RcTypeOK

\* For any file, any text of the user and any interleaving: what an apply makes of a
\* file with the markers of one region or none has one region, of the config that
\* was loaded, and no other body; the same apply again would change nothing.
THEOREM AppliedIsOneRegion == RcSpec => OneRegion
<1> DEFINE Good(a) == /\ WellMarked(file') /\ Has(file', Begin)
                      /\ \E i \in DOMAIN file' : /\ file'[i] = block[a][3] /\ file'[i] \in Configs
                                                 /\ \A j \in DOMAIN file' \ {i} : file'[j] \notin Configs
                      /\ Splice(file', block[a]) = file'
<1>1. ASSUME RcInv, NEW a \in Appliers, Write(a), WellMarked(existing[a]) PROVE Good(a)
  <2>1. Engaged(a) /\ file' = Splice(existing[a], block[a]) BY <1>1 DEF Write, Engaged, Updated
  <2>2. existing[a] \in Seq(Text) /\ Wrapped(existing[a]) BY <1>1, <2>1, WritesBlock
  <2>3. PICK c \in Configs : block[a] = ManagedBlock(c) /\ block[a][3] = c
    BY <1>1, <2>1, WritesBlock
  <2>4. PICK p : Shape(file', c, p) BY <1>1, <2>1, <2>2, <2>3, SpliceShape
  <2>5. Splice(file', block[a]) = file' BY <2>3, <2>4, ShapeStays
  <2>6. /\ WellMarked(file') /\ Has(file', Begin)
        /\ file'[p + 2] = c /\ p + 2 \in DOMAIN file'
        /\ \A j \in DOMAIN file' \ {p + 2} : file'[j] \notin Configs
    BY <2>4, ShapeHas
  <2> QED BY <2>3, <2>5, <2>6
<1>2. RcInv => [\A a \in Appliers : Write(a) /\ WellMarked(existing[a]) => Good(a)]_rcVars
  BY <1>1
<1> QED BY <1>2, RcInvariance, PTL DEF OneRegion

\* And such an apply leaves what stood before and behind the region as it was, but for
\* the newlines that set off a region that is new.
THEOREM AppliedPreserves == RcSpec => Preserves
<1> DEFINE Kept(a) ==
             \E gap \in {<< >>, <<NL>>, <<NL, NL>>}, rest \in {<< >>, <<NL>>} :
               /\ Before(Updated(a)) = Before(file) \o gap
               /\ Behind(Updated(a)) = rest \o Behind(file)
               /\ Has(file, Begin) => gap = << >> /\ rest = << >>
<1>1. ASSUME RcInv, NEW a \in Appliers, Truncate(a), existing[a] = file, WellMarked(file)
      PROVE  Kept(a)
  <2>1. Engaged(a) BY <1>1 DEF Truncate, Engaged
  <2>2. file \in Seq(Text) /\ Wrapped(file) BY <1>1 DEF RcInv, RcTypeOK
  <2>3. PICK c \in Configs : block[a] = ManagedBlock(c) BY <1>1, <2>1, WritesBlock
  <2>4. Updated(a) = Splice(file, ManagedBlock(c)) BY <1>1, <2>3 DEF Updated
  <2> QED BY <1>1, <2>2, <2>4, SpliceShape
<1>2. RcInv => [\A a \in Appliers :
                  Truncate(a) /\ existing[a] = file /\ WellMarked(file) => Kept(a)]_rcVars
  BY <1>1
<1> QED BY <1>2, RcInvariance, PTL DEF Preserves
============================================================================
