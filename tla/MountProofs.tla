----------------------------- MODULE MountProofs -----------------------------
(***************************************************************************)
(* Proofs about Mount and Namespace, for any names, any trees of Drive Kit *)
(* within the assumptions, and any bounds: the types of the three maps and *)
(* of Drive Kit's own tree, and that every start mounts the same folder.   *)
(*                                                                         *)
(* The invariant is MountInv.  CloudOK keeps the tree of Drive Kit a tree, *)
(* IndexOK and OpInv are the types of the maps and of the operation on its *)
(* way, Agree says that an id stays a folder's or stays a file's wherever  *)
(* a record of it is, and NamedInv that no operation, no listing and no    *)
(* record touches the entry of the folder that is mounted by its name.     *)
(***************************************************************************)
EXTENDS Mount, FiniteSetTheorems, SequenceTheorems, TLAPS

-----------------------------------------------------------------------------
(* Paths.                                                                    *)

LEMMA FrontLast ==
  ASSUME NEW p \in Path, p # << >>
  PROVE  /\ Front(p) \in Path /\ Last(p) \in Names /\ Append(Front(p), Last(p)) = p
         /\ Len(p) \in Nat /\ Len(p) > 0 /\ Len(Front(p)) = Len(p) - 1
         /\ \A i \in 1..(Len(p) - 1) : Front(p)[i] = p[i]
<1>1. /\ p \in Seq(Names) /\ Len(p) \in Nat /\ Len(p) > 0 /\ Len(p) - 1 \in Nat
      /\ \A i \in 1..Len(p) : p[i] \in Names
  BY EmptySeq, LenProperties DEF Path
<1>2. Front(p) = SubSeq(p, 1, Len(p) - 1) /\ Last(p) = p[Len(p)]
  BY DEF Front, Last
<1>3. /\ Front(p) \in Seq(Names) /\ Len(Front(p)) = Len(p) - 1
      /\ \A i \in 1..(Len(p) - 1) : Front(p)[i] = p[i]
  <2>1. \A i \in 1..(Len(p) - 1) : p[i] \in Names
    BY <1>1
  <2>2. /\ SubSeq(p, 1, Len(p) - 1) \in Seq(Names)
        /\ Len(SubSeq(p, 1, Len(p) - 1)) =
             IF 1 <= Len(p) - 1 THEN (Len(p) - 1) - 1 + 1 ELSE 0
        /\ \A i \in 1..((Len(p) - 1) - 1 + 1) : SubSeq(p, 1, Len(p) - 1)[i] = p[1 + i - 1]
    BY <1>1, <2>1, SubSeqProperties
  <2>3. (Len(p) - 1) - 1 + 1 = Len(p) - 1 /\ (~(1 <= Len(p) - 1) => Len(p) - 1 = 0)
        /\ \A i \in 1..(Len(p) - 1) : 1 + i - 1 = i
    BY <1>1
  <2>4. Len(SubSeq(p, 1, Len(p) - 1)) = Len(p) - 1
    BY <2>2, <2>3
  <2>5. \A i \in 1..(Len(p) - 1) : SubSeq(p, 1, Len(p) - 1)[i] = p[i]
    BY <2>2, <2>3
  <2> QED
    BY <1>2, <2>2, <2>4, <2>5
<1>4. Last(p) \in Names
  BY <1>1, <1>2
<1>5. Append(Front(p), Last(p)) = p
  <2> DEFINE a == Append(Front(p), Last(p))
  <2>1. a \in Seq(Names) /\ Len(a) = Len(p) /\ a[Len(p)] = p[Len(p)]
        /\ \A i \in 1..(Len(p) - 1) : a[i] = p[i]
    <3> HIDE DEF Front, Last
    <3>1. PICK f : f = Front(p)
      OBVIOUS
    <3>2. f \in Seq(Names) /\ Len(f) + 1 = Len(p) /\ \A i \in 1..Len(f) : f[i] = p[i]
      BY <1>1, <1>3, <3>1
    <3>3. Append(f, Last(p)) \in Seq(Names) /\ Len(Append(f, Last(p))) = Len(f) + 1
          /\ Append(f, Last(p))[Len(f) + 1] = Last(p)
          /\ \A i \in 1..Len(f) : Append(f, Last(p))[i] = f[i]
      BY <1>4, <3>2
    <3> QED
      BY <1>1, <1>2, <3>1, <3>2, <3>3
  <2> HIDE DEF a
  <2>2. \A i \in 1..Len(p) : a[i] = p[i]
    BY <1>1, <2>1
  <2>3. a = p
    BY <1>1, <2>1, <2>2, SeqEqual
  <2> QED
    BY <2>3 DEF a
<1> QED
  BY <1>1, <1>3, <1>4, <1>5 DEF Path

LEMMA AppendPath ==
  ASSUME NEW p \in Path, NEW n \in Names
  PROVE  /\ Append(p, n) \in Path /\ Append(p, n) # << >>
         /\ Front(Append(p, n)) = p /\ Last(Append(p, n)) = n
  BY DEF Path, Front, Last

LEMMA PrefixMeans ==
  ASSUME NEW p \in Path, NEW q \in Path
  PROVE  IsPrefix(p, q) <=> Len(p) <= Len(q) /\ \A i \in 1..Len(p) : p[i] = q[i]
  BY DEF Path, IsPrefix

LEMMA PrefixSelf ==
  ASSUME NEW p \in Path
  PROVE  IsPrefix(p, p) /\ IsPrefix(<< >>, p) /\ << >> \in Path
<1>1. << >> \in Path /\ Len(<< >>) = 0 /\ Len(p) \in Nat
  BY DEF Path
<1> QED
  BY <1>1, PrefixMeans

LEMMA PrefixTrans ==
  ASSUME NEW p \in Path, NEW q \in Path, NEW r \in Path, IsPrefix(p, q), IsPrefix(q, r)
  PROVE  IsPrefix(p, r)
<1>1. Len(p) \in Nat /\ Len(q) \in Nat /\ Len(r) \in Nat
  BY DEF Path
<1> QED
  BY <1>1, PrefixMeans

LEMMA PrefixFront ==
  ASSUME NEW p \in Path, p # << >>, NEW r \in Path
  PROVE  IsPrefix(r, p) <=> r = p \/ IsPrefix(r, Front(p))
<1>1. /\ Len(p) \in Nat /\ Len(p) > 0 /\ Len(r) \in Nat
      /\ p \in Seq(Names) /\ r \in Seq(Names)
      /\ Front(p) \in Path /\ Len(Front(p)) = Len(p) - 1
      /\ \A i \in 1..(Len(p) - 1) : Front(p)[i] = p[i]
  BY FrontLast, LenProperties DEF Path
<1>2. IsPrefix(r, Front(p)) <=> Len(r) <= Len(p) - 1 /\ \A i \in 1..Len(r) : r[i] = p[i]
  BY <1>1, PrefixMeans
<1>3. IsPrefix(r, p) <=> Len(r) <= Len(p) /\ \A i \in 1..Len(r) : r[i] = p[i]
  BY PrefixMeans
<1>4. Len(r) = Len(p) /\ (\A i \in 1..Len(r) : r[i] = p[i]) => r = p
  BY <1>1
<1> QED
  BY <1>1, <1>2, <1>3, <1>4, PrefixSelf

-----------------------------------------------------------------------------
(* What is inside a folder.                                                  *)

ClosedUnder(tree, S) == \A m \in tree : m.parent \in S => m.id \in S

LEMMA InsideLeast ==
  ASSUME NEW tree, NEW i, NEW S \in SUBSET Ids, i \in S, ClosedUnder(tree, S)
  PROVE  Inside(tree, i) \subseteq S
  BY DEF Inside, ClosedUnder

LEMMA InsideIds ==
  ASSUME NEW tree, NEW i
  PROVE  Inside(tree, i) \subseteq Ids
  BY DEF Inside

LEMMA InsideSelf ==
  ASSUME NEW tree, NEW i \in Ids
  PROVE  i \in Inside(tree, i)
  BY DEF Inside

LEMMA InsideClosed ==
  ASSUME NEW tree, NEW i, \A m \in tree : m.id \in Ids
  PROVE  ClosedUnder(tree, Inside(tree, i))
  BY DEF Inside, ClosedUnder

LEMMA InsideTrans ==
  ASSUME NEW tree, NEW i, \A m \in tree : m.id \in Ids, NEW j \in Inside(tree, i)
  PROVE  Inside(tree, j) \subseteq Inside(tree, i)
  BY InsideClosed, InsideIds, InsideLeast

LEMMA InsideParent ==
  ASSUME NEW tree, NEW i \in Ids, \A m \in tree : m.id \in Ids,
         NEW x \in Inside(tree, i), x # i
  PROVE  \E m \in tree : m.id = x /\ m.parent \in Inside(tree, i)
<1> DEFINE S == Inside(tree, i) \ {x}
<1> SUFFICES ASSUME \A m \in tree : m.parent \in Inside(tree, i) => m.id # x
             PROVE  FALSE
  OBVIOUS
<1>1. ClosedUnder(tree, S)
  BY InsideClosed DEF ClosedUnder
<1>2. i \in S /\ S \in SUBSET Ids
  BY InsideSelf, InsideIds
<1> HIDE DEF S
<1>3. Inside(tree, i) \subseteq S
  BY <1>1, <1>2, InsideLeast
<1> QED
  BY <1>3 DEF S

-----------------------------------------------------------------------------
(* What the requests do to the tree of Drive Kit.                            *)

CloudOK ==
  /\ cloud \subseteq [id : Ids, name : Names, dir : BOOLEAN, parent : Ids \cup {Top}, rev : {0}]
  /\ WellFormed(cloud) /\ Acyclic(cloud)
  /\ lastId \in 0..MaxId /\ \A m \in cloud : m.id <= lastId

\* A folder that may be listed or changed.
IsFolder(d) == d \in DirIds /\ \A e \in cloud : e.id = d => e.dir

LEMMA RealDir ==
  ASSUME NEW d \in DirIds
  PROVE  /\ Real(d) \in Ids \cup {Top}
         /\ Real(d) = Top <=> d \in {Top, Keyword}
         /\ d \notin {Top, Keyword} => Real(d) = d /\ d \in Ids
  BY SentinelAssumption, BoundAssumption DEF Real, DirIds, Ids, Top

LEMMA NewIdIsFresh ==
  ASSUME CloudOK, NEW i, i = lastId + 1, i <= MaxId
  PROVE  /\ i \in Ids /\ \A e \in cloud : e.id # i /\ e.parent # i
         /\ \A j \in Ids : j <= lastId => j # i
<1>1. i \in Ids /\ \A j \in Ids : j <= lastId => j # i
  BY BoundAssumption DEF CloudOK, Ids
<1>2. \A e \in cloud : e.id \in Ids /\ e.id # i
  BY <1>1 DEF CloudOK
<1>3. \A e \in cloud : e.parent \in Folders(cloud) \cup {Top}
  BY DEF CloudOK, WellFormed
<1>4. Top # i
  BY <1>1 DEF Top, Ids
<1> QED
  BY <1>1, <1>2, <1>3, <1>4 DEF Folders

\* create_file and create_folder: the entry comes in by itself.
LEMMA PostKeeps ==
  ASSUME CloudOK, NEW m \in Entry, m.rev = 0, m.id = lastId + 1, PostEntry(m), IsFolder(m.parent)
  PROVE  /\ CloudOK'
         /\ lastId' = m.id /\ m.id <= MaxId
         /\ cloud' = cloud \cup {[m EXCEPT !.parent = Real(m.parent)]}
<1> DEFINE n == [m EXCEPT !.parent = Real(m.parent)]
<1>1. /\ n.id = m.id /\ n.name = m.name /\ n.dir = m.dir /\ n.parent = Real(m.parent) /\ n.rev = 0
      /\ m.parent \in DirIds
      /\ n \in [id : Ids, name : Names, dir : BOOLEAN, parent : Ids \cup {Top}, rev : {0}]
  <2>1. m.parent \in DirIds
    BY DEF Entry
  <2> QED
    BY <2>1, RealDir DEF Entry
<1>2. lastId' = m.id /\ m.id <= MaxId /\ cloud' = cloud \cup {n}
  BY DEF PostEntry
<1>3. \A e \in cloud : e.id \in Ids /\ e.id # n.id /\ e.parent # n.id /\ e.id <= lastId
  BY <1>1, <1>2, NewIdIsFresh DEF CloudOK
<1>4. n.id \in Ids /\ n.parent # n.id /\ n.parent \in Folders(cloud) \cup {Top}
  <2>1. n.id \in Ids
    BY <1>1
  <2>2. n.parent = Top \/ \E e \in cloud : e.id = n.parent /\ e.dir
    BY <1>1, RealDir DEF PostEntry, Exists, IsFolder
  <2>3. Top \notin Ids
    BY DEF Top, Ids
  <2> QED
    BY <1>3, <2>1, <2>2, <2>3 DEF Folders
<1> HIDE DEF n
<1>5. WellFormed(cloud')
  <2>1. Folders(cloud) \subseteq Folders(cloud')
    BY <1>2 DEF Folders
  <2> QED
    BY <1>2, <1>3, <1>4, <2>1 DEF WellFormed, CloudOK
<1>6. Acyclic(cloud')
  <2>1. ASSUME NEW e \in cloud PROVE e.parent \notin Inside(cloud', e.id)
    <3> DEFINE S == Inside(cloud, e.id) \cup {n.id}
    <3>1. S \in SUBSET Ids /\ e.id \in S
      BY <1>3, <1>4, InsideIds, InsideSelf
    <3>2. ClosedUnder(cloud', S)
      BY <1>2, <1>3, InsideClosed DEF ClosedUnder
    <3>3. e.parent \notin S
      BY <1>3 DEF CloudOK, Acyclic
    <3> HIDE DEF S
    <3> QED
      BY <3>1, <3>2, <3>3, InsideLeast
  <2>2. n.parent \notin Inside(cloud', n.id)
    <3>1. {n.id} \in SUBSET Ids /\ ClosedUnder(cloud', {n.id})
      BY <1>2, <1>3, <1>4 DEF ClosedUnder
    <3> QED
      BY <1>4, <3>1, InsideLeast
  <2> QED
    BY <1>2, <2>1, <2>2 DEF Acyclic
<1>7. lastId' \in 0..MaxId /\ \A e \in cloud' : e.id <= lastId'
  <2>1. lastId \in Nat /\ MaxId \in Nat /\ m.id \in Nat
    BY BoundAssumption DEF CloudOK, Entry, Ids
  <2>2. \A e \in cloud : e.id \in Nat
    BY <1>3 DEF Ids
  <2> QED
    BY <1>1, <1>2, <1>3, <2>1, <2>2
<1>8. cloud' \subseteq [id : Ids, name : Names, dir : BOOLEAN, parent : Ids \cup {Top}, rev : {0}]
  BY <1>1, <1>2 DEF CloudOK
<1> QED
  BY <1>2, <1>5, <1>6, <1>7, <1>8 DEF CloudOK, n

LEMMA InsideMono ==
  ASSUME NEW tree, NEW sub \in SUBSET tree, \A m \in tree : m.id \in Ids, NEW i \in Ids
  PROVE  Inside(sub, i) \subseteq Inside(tree, i)
<1>1. ClosedUnder(sub, Inside(tree, i))
  BY InsideClosed DEF ClosedUnder
<1> QED
  BY <1>1, InsideIds, InsideSelf, InsideLeast

\* delete_file: the entry goes with all that is inside it.
LEMMA DeleteKeeps ==
  ASSUME CloudOK, NEW i, DeleteEntry(i)
  PROVE  CloudOK' /\ lastId' = lastId /\ cloud' = {e \in cloud : e.id \notin Inside(cloud, i)}
<1>1. lastId' = lastId /\ cloud' = {e \in cloud : e.id \notin Inside(cloud, i)}
  BY DEF DeleteEntry
<1>2. \A m \in cloud : m.id \in Ids
  BY DEF CloudOK
<1>3. ASSUME NEW m \in cloud' PROVE m.parent \in Folders(cloud') \cup {Top}
  <2>1. m \in cloud /\ m.id \notin Inside(cloud, i)
    BY <1>1
  <2>2. m.parent \notin Inside(cloud, i)
    BY <1>2, <2>1, InsideClosed DEF ClosedUnder
  <2>3. m.parent = Top \/ \E e \in cloud : e.dir /\ e.id = m.parent
    BY <2>1 DEF CloudOK, WellFormed, Folders
  <2> QED
    BY <1>1, <2>2, <2>3 DEF Folders
<1>4. WellFormed(cloud')
  BY <1>1, <1>3 DEF CloudOK, WellFormed
<1>5. Acyclic(cloud')
  BY <1>1, <1>2, InsideMono DEF CloudOK, Acyclic
<1> QED
  BY <1>1, <1>4, <1>5 DEF CloudOK

Patched(e, i, name, d) == IF e.id = i THEN [e EXCEPT !.name = name, !.parent = Real(d)] ELSE e

LEMMA PatchedIs ==
  ASSUME CloudOK, NEW e \in cloud, NEW i \in Ids, NEW name \in Names, NEW d \in DirIds
  PROVE  LET n == Patched(e, i, name, d) IN
         /\ n \in [id : Ids, name : Names, dir : BOOLEAN, parent : Ids \cup {Top}, rev : {0}]
         /\ n.id = e.id /\ n.dir = e.dir /\ n.rev = e.rev
         /\ e.id # i => n = e
         /\ e.id = i => n.name = name /\ n.parent = Real(d)
<1>1. e \in [id : Ids, name : Names, dir : BOOLEAN, parent : Ids \cup {Top}, rev : {0}]
  BY DEF CloudOK
<1>2. Real(d) \in Ids \cup {Top}
  BY RealDir
<1> QED
  BY <1>1, <1>2 DEF Patched

\* update_metadata: one entry gets a new name and a new parent.
LEMMA PatchKeeps ==
  ASSUME CloudOK, NEW i \in Ids, NEW name \in Names, NEW d, IsFolder(d), PatchEntry(i, name, d)
  PROVE  CloudOK' /\ lastId' = lastId /\ cloud' = {Patched(e, i, name, d) : e \in cloud}
<1>1. lastId' = lastId /\ cloud' = {Patched(e, i, name, d) : e \in cloud} /\ d \in DirIds
      /\ d \notin Inside(cloud, i)
  BY DEF PatchEntry, Patched, IsFolder
<1>2. \A m \in cloud : m.id \in Ids
  BY DEF CloudOK
<1>3. \A n \in cloud' : \E e \in cloud : n = Patched(e, i, name, d)
  BY <1>1
<1>4. ASSUME NEW n \in cloud'
      PROVE  /\ n \in [id : Ids, name : Names, dir : BOOLEAN, parent : Ids \cup {Top}, rev : {0}]
             /\ \E e \in cloud : n.id = e.id /\ n.dir = e.dir /\ (e.id # i => n = e)
             /\ n.id = i => n.parent = Real(d) /\ n.name = name
  BY <1>1, <1>3, PatchedIs
<1>5. Folders(cloud) = Folders(cloud')
  <2>1. Folders(cloud') \subseteq Folders(cloud)
    BY <1>4 DEF Folders
  <2>2. ASSUME NEW e \in cloud, e.dir PROVE e.id \in Folders(cloud')
    <3>1. Patched(e, i, name, d) \in cloud'
      BY <1>1
    <3>2. Patched(e, i, name, d).id = e.id /\ Patched(e, i, name, d).dir = e.dir
      BY <1>1, PatchedIs
    <3> QED
      BY <2>2, <3>1, <3>2 DEF Folders
  <2> QED
    BY <2>1, <2>2 DEF Folders
<1>6. Real(d) \in Folders(cloud) \cup {Top}
  <2>1. Real(d) = Top \/ \E e \in cloud : e.id = d
    BY DEF PatchEntry, Exists
  <2> QED
    BY <1>1, <2>1, RealDir DEF IsFolder, Folders
<1>7. WellFormed(cloud')
  <2>1. ASSUME NEW m \in cloud', NEW n \in cloud', m.id = n.id PROVE m = n
    BY <1>1, <1>3, <2>1, PatchedIs DEF CloudOK, WellFormed
  <2>2. ASSUME NEW n \in cloud' PROVE n.parent \in Folders(cloud') \cup {Top}
    BY <1>4, <1>5, <1>6 DEF CloudOK, WellFormed
  <2> QED
    BY <2>1, <2>2 DEF WellFormed
<1>8. Acyclic(cloud')
  <2> DEFINE In == Inside(cloud, i)
  <2>0. /\ \A e \in cloud : e.parent \in In => e.id \in In
        /\ i \in In /\ In \subseteq Ids
    BY <1>2, InsideClosed, InsideSelf, InsideIds DEF ClosedUnder
  <2>1. Real(d) \notin In
    <3>1. d \notin {Top, Keyword} => Real(d) = d
      BY <1>1, RealDir
    <3>2. d \in {Top, Keyword} => Real(d) \notin Ids
      BY <1>1, RealDir DEF Top, Ids
    <3> QED
      BY <1>1, <2>0, <3>1, <3>2
  <2> HIDE DEF In
  <2> SUFFICES ASSUME NEW n \in cloud' PROVE n.parent \notin Inside(cloud', n.id)
    BY DEF Acyclic
  <2>2. PICK e \in cloud : n.id = e.id /\ (e.id # i => n = e)
    BY <1>4
  <2>3. CASE e.id = i
    <3>1. ClosedUnder(cloud', In)
      BY <1>4, <2>0, <2>1 DEF ClosedUnder
    <3>2. Inside(cloud', i) \subseteq In
      BY <2>0, <3>1, InsideLeast
    <3> QED
      BY <1>4, <2>1, <2>2, <2>3, <3>2
  <2>4. CASE e.id # i /\ e.id \in In
    <3> DEFINE S == Inside(cloud, e.id)
    <3>1. /\ S \in SUBSET Ids /\ e.id \in S /\ S \subseteq In
          /\ \A x \in cloud : x.parent \in S => x.id \in S
      BY <1>2, <2>4, InsideIds, InsideSelf, InsideTrans, InsideClosed DEF In, ClosedUnder
    <3>2. e.parent \notin S
      BY DEF CloudOK, Acyclic
    <3> HIDE DEF S
    <3>3. ClosedUnder(cloud', S)
      BY <1>4, <2>1, <3>1 DEF ClosedUnder
    <3>4. Inside(cloud', e.id) \subseteq S
      BY <3>1, <3>3, InsideLeast
    <3> QED
      BY <2>2, <2>4, <3>2, <3>4
  <2>5. CASE e.id # i /\ e.id \notin In
    <3> DEFINE S == Inside(cloud, e.id) \cup In
    <3>1. /\ S \in SUBSET Ids /\ e.id \in S /\ i \in S
          /\ \A x \in cloud : x.parent \in S => x.id \in S
      BY <1>2, <2>0, InsideIds, InsideSelf, InsideClosed DEF ClosedUnder
    <3>2. e.parent \notin S
      BY <2>0, <2>5 DEF CloudOK, Acyclic
    <3> HIDE DEF S
    <3>3. ClosedUnder(cloud', S)
      BY <1>4, <3>1 DEF ClosedUnder
    <3>4. Inside(cloud', e.id) \subseteq S
      BY <3>1, <3>3, InsideLeast
    <3> QED
      BY <2>2, <2>5, <3>2, <3>4
  <2> QED
    BY <2>3, <2>4, <2>5
<1>9. \A n \in cloud' : n.id <= lastId'
  BY <1>1, <1>4 DEF CloudOK
<1> QED
  BY <1>1, <1>4, <1>7, <1>8, <1>9 DEF CloudOK

-----------------------------------------------------------------------------
(* Children lists.                                                           *)

LEMMA BagOfNone == IsABag(EmptyBag) /\ BagToSet(EmptyBag) = {}
  BY DEF IsABag, EmptyBag, SetToBag, BagToSet

LEMMA BagWithSet ==
  ASSUME NEW b, IsABag(b), NEW S
  PROVE  /\ IsABag(b (+) SetToBag(S))
         /\ BagToSet(b (+) SetToBag(S)) = BagToSet(b) \cup S
         /\ \A c \in BagToSet(b) \ S : (b (+) SetToBag(S))[c] = b[c]
         /\ \A c \in S \ BagToSet(b) : (b (+) SetToBag(S))[c] = 1
<1>1. DOMAIN SetToBag(S) = S /\ \A c \in S : SetToBag(S)[c] = 1
  BY DEF SetToBag
<1>2. \A c \in DOMAIN b : b[c] \in Nat /\ b[c] > 0
  BY DEF IsABag
<1>3. DOMAIN (b (+) SetToBag(S)) = DOMAIN b \cup S
  BY <1>1 DEF (+)
<1>4. \A c \in DOMAIN b \cup S :
        (b (+) SetToBag(S))[c] = (IF c \in DOMAIN b THEN b[c] ELSE 0) + (IF c \in S THEN 1 ELSE 0)
  BY <1>1 DEF (+)
<1>5. \A c \in DOMAIN b \cup S :
        (b (+) SetToBag(S))[c] \in Nat /\ (b (+) SetToBag(S))[c] > 0
  BY <1>2, <1>4
<1>6. b (+) SetToBag(S) = [c \in DOMAIN b \cup S |-> (b (+) SetToBag(S))[c]]
  BY <1>1 DEF (+)
<1>7. IsABag(b (+) SetToBag(S))
  BY <1>3, <1>5, <1>6 DEF IsABag
<1>8. \A c \in DOMAIN b \ S : (b (+) SetToBag(S))[c] = b[c]
  BY <1>2, <1>4
<1>9. \A c \in S \ DOMAIN b : (b (+) SetToBag(S))[c] = 1
  BY <1>4
<1> QED
  BY <1>3, <1>7, <1>8, <1>9 DEF BagToSet

LEMMA BagPlus ==
  ASSUME NEW b, IsABag(b), NEW m
  PROVE  /\ IsABag(Plus(b, m)) /\ BagToSet(Plus(b, m)) = BagToSet(b) \cup {m}
         /\ \A c \in BagToSet(b) \ {m} : Plus(b, m)[c] = b[c]
         /\ m \notin BagToSet(b) => Plus(b, m)[m] = 1
  BY BagWithSet DEF Plus

LEMMA BagMinus ==
  ASSUME NEW b, IsABag(b), NEW m
  PROVE  /\ IsABag(Minus(b, m))
         /\ BagToSet(Minus(b, m)) \subseteq BagToSet(b)
         /\ BagToSet(b) \ {m} \subseteq BagToSet(Minus(b, m))
         /\ m \in BagToSet(b) /\ b[m] = 1 => m \notin BagToSet(Minus(b, m))
         /\ \A c \in BagToSet(b) \ {m} : Minus(b, m)[c] = b[c]
<1> DEFINE B == [e \in DOMAIN b |-> IF e \in {m} THEN b[e] - 1 ELSE b[e]]
<1>1. DOMAIN SetToBag({m}) = {m} /\ SetToBag({m})[m] = 1
  BY DEF SetToBag
<1>2. \A c \in DOMAIN b : b[c] \in Nat /\ b[c] > 0
  BY DEF IsABag
<1>3. Minus(b, m) = [e \in {d \in DOMAIN B : B[d] > 0} |-> B[e]]
  BY <1>1 DEF Minus, (-)
<1>4. DOMAIN B = DOMAIN b /\ \A c \in DOMAIN b : B[c] = IF c = m THEN b[c] - 1 ELSE b[c]
  OBVIOUS
<1> HIDE DEF B
<1>5. \A c \in DOMAIN b : B[c] \in Int /\ (c # m => B[c] = b[c]) /\ (c = m => B[c] = b[m] - 1)
  BY <1>2, <1>4
<1>6. DOMAIN Minus(b, m) = {d \in DOMAIN b : B[d] > 0}
      /\ \A c \in DOMAIN Minus(b, m) : Minus(b, m)[c] = B[c]
  BY <1>3, <1>4
<1>7. IsABag(Minus(b, m))
  <2>1. Minus(b, m) = [c \in DOMAIN Minus(b, m) |-> Minus(b, m)[c]]
    BY <1>3
  <2>2. \A c \in DOMAIN Minus(b, m) : Minus(b, m)[c] \in {n \in Nat : n > 0}
    BY <1>5, <1>6
  <2> QED
    BY <2>1, <2>2 DEF IsABag
<1>8. \A c \in DOMAIN b \ {m} : c \in DOMAIN Minus(b, m) /\ Minus(b, m)[c] = b[c]
  BY <1>2, <1>5, <1>6
<1>9. m \in DOMAIN b /\ b[m] = 1 => m \notin DOMAIN Minus(b, m)
  BY <1>5, <1>6
<1> QED
  BY <1>6, <1>7, <1>8, <1>9 DEF BagToSet

LEMMA BagDropped ==
  ASSUME NEW b, IsABag(b), NEW i
  PROVE  /\ IsABag(Dropped(b, i)) /\ BagToSet(Dropped(b, i)) = {c \in BagToSet(b) : c.id # i}
         /\ \A c \in BagToSet(Dropped(b, i)) : Dropped(b, i)[c] = b[c]
<1>1. DOMAIN Dropped(b, i) = {c \in DOMAIN b : c.id # i}
      /\ \A c \in DOMAIN Dropped(b, i) : Dropped(b, i)[c] = b[c]
  BY DEF Dropped, BagToSet
<1>2. Dropped(b, i) = [c \in DOMAIN Dropped(b, i) |-> Dropped(b, i)[c]]
  BY DEF Dropped
<1>3. \A c \in DOMAIN b : b[c] \in {n \in Nat : n > 0}
  BY DEF IsABag
<1>4. IsABag(Dropped(b, i))
  BY <1>1, <1>2, <1>3 DEF IsABag
<1> QED
  BY <1>1, <1>4 DEF BagToSet

-----------------------------------------------------------------------------
(* The invariant of the types.                                               *)

IndexOK ==
  /\ root \in DirIds \cup {None}
  /\ \A p \in DOMAIN path_map : p \in Path /\ p # << >> /\ path_map[p] \in Entry
  /\ \A i \in DOMAIN id_map : i \in Ids /\ id_map[i] \in Path /\ id_map[i] # << >>
  /\ DOMAIN children_map = DirIds
  /\ \A d \in DirIds : IsABag(children_map[d]) /\ Kids(d) \subseteq Entry
  /\ loaded \subseteq DirIds /\ failed \subseteq DirIds /\ loose \subseteq Path
  /\ DOMAIN listing = DirIds
  /\ \A d \in DirIds : listing[d] = None \/ listing[d] \subseteq Entry

\* The paths of the operation on its way, and where its entry is.
OpInv ==
  op # None =>
    /\ op \in Operation
    /\ op.kind \in {"add", "remove", "move"}
    /\ op.path \in Path /\ op.path # << >> /\ op.dirs \subseteq Path
    /\ op.kind = "add" => op.meta \in Entry
    /\ op.kind # "add" => op.path \in DOMAIN path_map
    /\ op.kind = "move" => op.to \in Path /\ op.to # << >> /\ Front(op.to) \in {<< >>} \cup DOMAIN path_map

\* The paths of the operation that has looked them up, and the ids it has found.
AskInv ==
  ask # None =>
    /\ ask \in Request /\ op = None
    /\ ask.kind \in {"add", "remove", "move"} /\ ask.sure \in BOOLEAN
    /\ ask.path \in Path /\ ask.path # << >> /\ ask.dirs \subseteq Path
    /\ ask.kind = "add" => ask.dir \in BOOLEAN /\ IsFolder(ask.parent)
    /\ ask.kind # "add" => ask.path \in DOMAIN path_map /\ ask.id \in Ids
    /\ ask.kind = "move" =>
         /\ ask.to \in Path /\ ask.to # << >> /\ Front(ask.to) \in {<< >>} \cup DOMAIN path_map
         /\ IsFolder(ask.parent)

\* Before the folder is mounted there is nothing.
Down ==
  root = None =>
    /\ DOMAIN path_map = {} /\ DOMAIN id_map = {} /\ ask = None /\ op = None
    /\ loaded = {} /\ loose = {}
    /\ \A d \in DirIds : Kids(d) = {} /\ listing[d] = None

Counts == changes \in 0..MaxChanges /\ errors \in 0..MaxErrors

\* D are the ids of the folders there have been: an id stays a folder's, or a file's.
Fits(m, n, D) == m.id <= n /\ (m.dir <=> m.id \in D)

Agree(D) ==
  /\ \A i \in D : i <= lastId
  /\ \A m \in cloud : Fits(m, lastId, D)
  /\ \A p \in DOMAIN path_map : Fits(path_map[p], lastId, D)
  /\ \A d \in DirIds : \A c \in Kids(d) : Fits(c, lastId, D)
  /\ \A d \in DirIds : listing[d] # None => \A m \in listing[d] : Fits(m, lastId, D)
  /\ op # None /\ op.kind = "add" => Fits(op.meta, lastId, D)
  /\ root \in Ids => root <= lastId /\ root \in D

NsInv(D) == CloudOK /\ IndexOK /\ OpInv /\ AskInv /\ Down /\ Counts /\ Agree(D)

LEMMA DirAtIs ==
  ASSUME CloudOK, IndexOK, NEW D, Agree(D), root # None, NEW p, IsDir(p)
  PROVE  /\ DirAt(p) \in DirIds /\ IsFolder(DirAt(p))
         /\ p # << >> => DirAt(p) \in Ids /\ p \in DOMAIN path_map /\ p \in Path
         /\ DirAt(p) \in Ids => DirAt(p) <= lastId /\ DirAt(p) \in D
<1>1. CASE p = << >>
  <2>1. DirAt(p) = root /\ root \in DirIds
    BY <1>1 DEF DirAt, IndexOK
  <2>2. ASSUME NEW e \in cloud, e.id = root PROVE e.dir
    <3>1. root \in Ids
      BY <2>2 DEF CloudOK
    <3> QED
      BY <2>2, <3>1 DEF Agree, Fits
  <2> QED
    BY <1>1, <2>1, <2>2 DEF IsFolder, Agree
<1>2. CASE p # << >>
  <2>1. p \in DOMAIN path_map /\ path_map[p].dir /\ DirAt(p) = path_map[p].id /\ path_map[p] \in Entry
        /\ p \in Path
    BY <1>2 DEF IsDir, DirAt, IndexOK
  <2>2. DirAt(p) \in Ids /\ DirAt(p) \in D /\ DirAt(p) <= lastId
    BY <2>1 DEF Agree, Fits, Entry
  <2> QED
    BY <1>2, <2>1, <2>2 DEF IsFolder, Agree, Fits, DirIds
<1> QED
  BY <1>1, <1>2

LEMMA WalkedIs ==
  ASSUME NEW p \in Path, Walked(p)
  PROVE  IsDir(p) /\ Tried(DirAt(p))
<1>1. SubSeq(p, 1, Len(p)) = p /\ Len(p) \in 0..Len(p)
  BY SubSeqFull, LenProperties DEF Path
<1> QED
  BY <1>1 DEF Walked

LEMMA PathsIs ==
  ASSUME NEW p \in Paths
  PROVE  p \in Path /\ p # << >>
<1>1. PICK n \in 0..MaxDepth : p \in [1..n -> Names]
  BY DEF Paths, BoundedSeq, SeqOf
<1>2. n \in Nat
  BY <1>1, BoundAssumption
<1>3. p \in Seq(Names)
  BY <1>1, <1>2, SeqDef
<1> QED
  BY <1>3 DEF Paths, Path

-----------------------------------------------------------------------------
(* The edits of the maps.                                                    *)

LEMMA AddEntryIs ==
  ASSUME IndexOK, NEW p, NEW m, m.parent \in DirIds, AddEntry(p, m)
  PROVE  /\ DOMAIN path_map' = DOMAIN path_map \cup {p} /\ path_map'[p] = m
         /\ \A q \in DOMAIN path_map : q # p => path_map'[q] = path_map[q]
         /\ DOMAIN id_map' = DOMAIN id_map \cup {m.id} /\ id_map'[m.id] = p
         /\ \A i \in DOMAIN id_map : i # m.id => id_map'[i] = id_map[i]
         /\ DOMAIN children_map' = DirIds
         /\ children_map'[m.parent] = Plus(children_map[m.parent], m)
         /\ \A d \in DirIds \ {m.parent} : children_map'[d] = children_map[d]
<1>1. /\ path_map' = With(path_map, p, m) /\ id_map' = With(id_map, m.id, p)
      /\ children_map' = [children_map EXCEPT ![m.parent] = Plus(@, m)]
      /\ DOMAIN children_map = DirIds
  BY DEF AddEntry, IndexOK
<1>2. /\ DOMAIN path_map' = DOMAIN path_map \cup {p} /\ path_map'[p] = m
      /\ \A q \in DOMAIN path_map : q # p => path_map'[q] = path_map[q]
  BY <1>1 DEF With, Updated
<1>3. /\ DOMAIN id_map' = DOMAIN id_map \cup {m.id} /\ id_map'[m.id] = p
      /\ \A i \in DOMAIN id_map : i # m.id => id_map'[i] = id_map[i]
  BY <1>1 DEF With, Updated
<1> QED
  BY <1>1, <1>2, <1>3

LEMMA RemoveEntryIs ==
  ASSUME IndexOK, NEW p \in DOMAIN path_map, RemoveEntry(p)
  PROVE  LET m == path_map[p] IN
         /\ DOMAIN path_map' = DOMAIN path_map \ {p}
         /\ \A q \in DOMAIN path_map' : path_map'[q] = path_map[q]
         /\ DOMAIN id_map' = DOMAIN id_map \ {m.id}
         /\ \A i \in DOMAIN id_map' : id_map'[i] = id_map[i]
         /\ DOMAIN children_map' = DirIds /\ m.parent \in DirIds
         /\ children_map'[m.parent] = Dropped(children_map[m.parent], m.id)
         /\ \A d \in DirIds \ {m.parent} : children_map'[d] = children_map[d]
<1>1. path_map[p] \in Entry /\ DOMAIN children_map = DirIds
  BY DEF IndexOK
<1>2. path_map[p].parent \in DirIds
  BY <1>1 DEF Entry
<1> QED
  BY <1>1, <1>2 DEF RemoveEntry, Without

LEMMA MovedIs ==
  ASSUME IndexOK, NEW p \in DOMAIN path_map, NEW q \in Path, q # << >>, DirAt(Front(q)) \in DirIds
  PROVE  LET m == path_map[p]
             n == Moved(p, q) IN
         /\ m \in Entry /\ n \in Entry /\ n.id = m.id /\ n.dir = m.dir /\ n.rev = m.rev
         /\ n.name = Last(q) /\ n.parent = DirAt(Front(q)) /\ m.parent \in DirIds
<1>1. path_map[p] \in Entry /\ Last(q) \in Names
  BY FrontLast DEF IndexOK
<1> QED
  BY <1>1 DEF Moved, Entry

LEMMA MoveEntryIs ==
  ASSUME IndexOK, NEW p \in DOMAIN path_map, NEW q \in Path, q # << >>, DirAt(Front(q)) \in DirIds,
         MoveEntry(p, q)
  PROVE  LET m == path_map[p]
             n == Moved(p, q)
             kids == [children_map EXCEPT ![m.parent] = Dropped(@, m.id)] IN
         /\ DOMAIN path_map' = (DOMAIN path_map \ {p}) \cup {q} /\ path_map'[q] = n
         /\ \A r \in DOMAIN path_map \ {p} : r # q => path_map'[r] = path_map[r]
         /\ DOMAIN id_map' = DOMAIN id_map \cup {m.id} /\ id_map'[m.id] = q
         /\ \A i \in DOMAIN id_map : i # m.id => id_map'[i] = id_map[i]
         /\ DOMAIN children_map' = DirIds
         /\ kids[m.parent] = Dropped(children_map[m.parent], m.id)
         /\ \A d \in DirIds \ {m.parent} : kids[d] = children_map[d]
         /\ children_map'[n.parent] = Plus(kids[n.parent], n)
         /\ \A d \in DirIds \ {n.parent} : children_map'[d] = kids[d]
<1> DEFINE m == path_map[p]
           n == Moved(p, q)
           kids == [children_map EXCEPT ![m.parent] = Dropped(@, m.id)]
<1>1. m.parent \in DirIds /\ n.parent \in DirIds /\ DOMAIN children_map = DirIds
  BY MovedIs DEF IndexOK
<1>2. /\ path_map' = With(Without(path_map, {p}), q, n)
      /\ id_map' = With(id_map, m.id, q)
      /\ children_map' = [kids EXCEPT ![n.parent] = Plus(@, n)]
  BY DEF MoveEntry
<1>3. DOMAIN kids = DirIds
      /\ kids[m.parent] = Dropped(children_map[m.parent], m.id)
      /\ \A d \in DirIds \ {m.parent} : kids[d] = children_map[d]
  BY <1>1
<1> HIDE DEF m, n, kids
<1>4. /\ DOMAIN path_map' = (DOMAIN path_map \ {p}) \cup {q} /\ path_map'[q] = n
      /\ \A r \in DOMAIN path_map \ {p} : r # q => path_map'[r] = path_map[r]
  BY <1>2 DEF Without, With, Updated
<1>5. /\ DOMAIN id_map' = DOMAIN id_map \cup {m.id} /\ id_map'[m.id] = q
      /\ \A i \in DOMAIN id_map : i # m.id => id_map'[i] = id_map[i]
  BY <1>2 DEF With, Updated
<1>6. /\ DOMAIN children_map' = DirIds
      /\ children_map'[n.parent] = Plus(kids[n.parent], n)
      /\ \A d \in DirIds \ {n.parent} : children_map'[d] = kids[d]
  BY <1>1, <1>2, <1>3
<1> QED
  BY <1>3, <1>4, <1>5, <1>6 DEF m, n, kids

\* The children list after UpdateMeta: it has lost nothing but an older record.
LEMMA UpdateMetaIs ==
  ASSUME IndexOK, NEW p \in DOMAIN path_map, UpdateMeta(p)
  PROVE  LET m == path_map[p]
             n == [m EXCEPT !.rev = 1] IN
         /\ m \in Entry /\ n \in Entry /\ m.parent \in DirIds
         /\ n.id = m.id /\ n.name = m.name /\ n.dir = m.dir /\ n.parent = m.parent /\ n.rev = 1
         /\ DOMAIN path_map' = DOMAIN path_map /\ path_map'[p] = n
         /\ \A q \in DOMAIN path_map : q # p => path_map'[q] = path_map[q]
         /\ id_map' = id_map
         /\ DOMAIN children_map' = DirIds
         /\ \A d \in DirIds \ {m.parent} : children_map'[d] = children_map[d]
         /\ \/ children_map' = children_map /\ \A c \in Kids(m.parent) : c.id # m.id
            \/ \E c \in Kids(m.parent) :
                 c.id = m.id /\ children_map'[m.parent] = Plus(Minus(children_map[m.parent], c), n)
<1>1. path_map[p] \in Entry /\ DOMAIN children_map = DirIds
  BY DEF IndexOK
<1>2. path_map[p].parent \in DirIds /\ [path_map[p] EXCEPT !.rev = 1] \in Entry
  BY <1>1 DEF Entry
<1>3. LET m == path_map[p]
          n == [m EXCEPT !.rev = 1] IN
      n.id = m.id /\ n.name = m.name /\ n.dir = m.dir /\ n.parent = m.parent /\ n.rev = 1
  BY <1>1 DEF Entry
<1> QED
  BY <1>1, <1>2, <1>3 DEF UpdateMeta

\* Where the entries of a listing go.
PathTo(d) == IF Real(d) = root THEN << >> ELSE id_map[Real(d)]

LEMMA MergeIs ==
  ASSUME IndexOK, NEW d \in DirIds, Merge(d)
  PROVE  LET kept == Placed(d)
             at == PathTo(d) IN
         /\ kept \subseteq listing[d] /\ kept \subseteq Entry /\ (kept # {} => at \in Path)
         /\ Real(d) \in DirIds
         /\ DOMAIN path_map' = DOMAIN path_map \cup {Append(at, m.name) : m \in kept}
         /\ \A p \in DOMAIN path_map' :
              \/ \E m \in kept : p = Append(at, m.name) /\ path_map'[p] = m
              \/ /\ p \in DOMAIN path_map /\ path_map'[p] = path_map[p]
                 /\ \A m \in kept : p # Append(at, m.name)
         /\ DOMAIN id_map' = DOMAIN id_map \cup {m.id : m \in kept}
         /\ \A i \in DOMAIN id_map' :
              \/ \E m \in kept : i = m.id /\ id_map'[i] = Append(at, m.name)
              \/ /\ i \in DOMAIN id_map /\ id_map'[i] = id_map[i]
                 /\ \A m \in kept : i # m.id
         /\ DOMAIN children_map' = DirIds
         /\ children_map'[Real(d)] = children_map[Real(d)] (+) SetToBag(kept)
         /\ \A e \in DirIds \ {Real(d)} : children_map'[e] = children_map[e]
         /\ listing[d] # None /\ listing' = [listing EXCEPT ![d] = None]
         /\ loaded' = loaded \cup {d} /\ failed' = failed \ {d}
         /\ loose' = IF DistinctNames(kept) THEN loose ELSE loose \cup {at}
         /\ UNCHANGED <<server, root, ask, op, changes, errors>>
<1> DEFINE kept == Placed(d)
           at == PathTo(d)
           PathOf(m) == Append(at, m.name)
           MetaAt(p) == CHOOSE m \in kept : PathOf(m) = p
           MetaOf(i) == CHOOSE m \in kept : m.id = i
           f == [p \in {PathOf(m) : m \in kept} |-> MetaAt(p)]
           g == [i \in {m.id : m \in kept} |-> PathOf(MetaOf(i))]
<1>1. /\ kept \subseteq listing[d] /\ listing[d] # None /\ listing[d] \subseteq Entry
      /\ kept # {} => at \in Path
  <2>1. listing[d] # None
    BY DEF Merge
  <2>2. listing[d] \subseteq Entry
    BY <2>1 DEF IndexOK
  <2>3. kept # {} => Real(d) = root \/ Real(d) \in DOMAIN id_map
    BY DEF Placed
  <2>4. << >> \in Path
    BY DEF Path
  <2> QED
    BY <2>1, <2>2, <2>3, <2>4 DEF Placed, PathTo, IndexOK
<1>2. Real(d) \in DirIds
  BY RealDir DEF DirIds
<1>3. /\ path_map' = Updated(path_map, f) /\ id_map' = Updated(id_map, g)
      /\ children_map' = [children_map EXCEPT ![Real(d)] = @ (+) SetToBag(kept)]
  BY DEF Merge, PathTo
<1>4. DOMAIN f = {PathOf(m) : m \in kept}
      /\ \A p \in DOMAIN f : \E m \in kept : p = PathOf(m) /\ f[p] = m
  <2>1. DOMAIN f = {PathOf(m) : m \in kept} /\ \A p \in DOMAIN f : f[p] = MetaAt(p)
    OBVIOUS
  <2>2. \A p \in {PathOf(m) : m \in kept} : \E m \in kept : p = PathOf(m)
    OBVIOUS
  <2> HIDE DEF f, kept, PathOf
  <2>3. \A p \in {PathOf(m) : m \in kept} : MetaAt(p) \in kept /\ PathOf(MetaAt(p)) = p
    BY <2>2
  <2> HIDE DEF MetaAt
  <2> QED
    BY <2>1, <2>3
<1>5. DOMAIN g = {m.id : m \in kept}
      /\ \A i \in DOMAIN g : \E m \in kept : i = m.id /\ g[i] = PathOf(m)
  <2>1. DOMAIN g = {m.id : m \in kept} /\ \A i \in DOMAIN g : g[i] = PathOf(MetaOf(i))
    OBVIOUS
  <2>2. \A i \in {m.id : m \in kept} : \E m \in kept : m.id = i
    OBVIOUS
  <2> HIDE DEF g, kept, PathOf
  <2>3. \A i \in {m.id : m \in kept} : MetaOf(i) \in kept /\ MetaOf(i).id = i
    BY <2>2
  <2> HIDE DEF MetaOf
  <2> QED
    BY <2>1, <2>3
<1> HIDE DEF f, g
<1>6. DOMAIN children_map = DirIds
  BY DEF IndexOK
<1>7. /\ DOMAIN children_map' = DirIds
      /\ children_map'[Real(d)] = children_map[Real(d)] (+) SetToBag(kept)
      /\ \A e \in DirIds \ {Real(d)} : children_map'[e] = children_map[e]
  <2> HIDE DEF kept
  <2> QED
    BY <1>2, <1>3, <1>6
<1>8. /\ DOMAIN path_map' = DOMAIN path_map \cup DOMAIN f
      /\ \A p \in DOMAIN f : path_map'[p] = f[p]
      /\ \A p \in DOMAIN path_map \ DOMAIN f : path_map'[p] = path_map[p]
  BY <1>3 DEF Updated
<1>9. /\ DOMAIN id_map' = DOMAIN id_map \cup DOMAIN g
      /\ \A p \in DOMAIN g : id_map'[p] = g[p]
      /\ \A p \in DOMAIN id_map \ DOMAIN g : id_map'[p] = id_map[p]
  BY <1>3 DEF Updated
<1>10. /\ listing' = [listing EXCEPT ![d] = None]
       /\ loaded' = loaded \cup {d} /\ failed' = failed \ {d}
       /\ loose' = IF DistinctNames(kept) THEN loose ELSE loose \cup {at}
       /\ UNCHANGED <<server, root, ask, op, changes, errors>>
  BY DEF Merge, PathTo
<1> HIDE DEF kept, at
<1>11. /\ DOMAIN path_map' = DOMAIN path_map \cup {Append(at, m.name) : m \in kept}
       /\ \A p \in DOMAIN path_map' :
              \/ \E m \in kept : p = Append(at, m.name) /\ path_map'[p] = m
              \/ /\ p \in DOMAIN path_map /\ path_map'[p] = path_map[p]
                 /\ \A m \in kept : p # Append(at, m.name)
  BY <1>4, <1>8
<1>12. /\ DOMAIN id_map' = DOMAIN id_map \cup {m.id : m \in kept}
       /\ \A i \in DOMAIN id_map' :
              \/ \E m \in kept : i = m.id /\ id_map'[i] = Append(at, m.name)
              \/ /\ i \in DOMAIN id_map /\ id_map'[i] = id_map[i]
                 /\ \A m \in kept : i # m.id
  BY <1>5, <1>9
<1> QED
  BY <1>1, <1>2, <1>7, <1>10, <1>11, <1>12 DEF kept, at

-----------------------------------------------------------------------------
(* Every step keeps the invariant.                                           *)

LEMMA IndexStays ==
  ASSUME IndexOK, UNCHANGED <<root, index, loading>>, loose' \subseteq Path
  PROVE  IndexOK'
  BY DEF IndexOK, index, loading, Kids

LEMMA ServedPaths ==
  ASSUME IndexOK, AskInv, ask # None, Served
  PROVE  loose' \subseteq Path
  BY DEF IndexOK, AskInv, Served

\* A step between the look-up and the request.
LEMMA AskStays ==
  ASSUME AskInv, ask' = ask, op' = op, cloud' = cloud, DOMAIN path_map \subseteq DOMAIN path_map'
  PROVE  AskInv'
  BY DEF AskInv, IsFolder

\* A new id is no older entry's.
LEMMA FitsGrows ==
  ASSUME CloudOK, NEW D, NEW E, lastId' = lastId + 1, \A i : i # lastId + 1 => (i \in D <=> i \in E),
         NEW x, x.id \in Ids, Fits(x, lastId, D)
  PROVE  Fits(x, lastId', E)
<1>1. lastId \in Nat /\ x.id \in Nat
  BY BoundAssumption DEF CloudOK, Ids
<1>2. x.id <= lastId /\ (x.dir <=> x.id \in D)
  BY DEF Fits
<1>3. x.id <= lastId' /\ x.id # lastId + 1
  BY <1>1, <1>2
<1>4. x.dir <=> x.id \in E
  BY <1>2, <1>3
<1> QED
  BY <1>3, <1>4 DEF Fits

\* The id that is given out next, as the folder's or the file's that it is.
NewFolders(D, m) == IF m.dir THEN D \cup {m.id} ELSE D

LEMMA PostAgrees ==
  ASSUME CloudOK, IndexOK, OpInv, NEW D \in SUBSET Ids, Agree(D),
         NEW m \in Entry, m.rev = 0, m.id = lastId + 1, PostEntry(m), IsFolder(m.parent),
         UNCHANGED <<index, listing>>,
         root' = root \/ root' \notin Ids \/ (root' = m.id /\ m.dir),
         op' = op \/ (op' # None => op'.kind = "add" /\ op'.meta = m)
  PROVE  NewFolders(D, m) \in SUBSET Ids /\ D \subseteq NewFolders(D, m) /\ CloudOK' /\ Agree(NewFolders(D, m))'
         /\ lastId' = lastId + 1 /\ lastId \in Nat
<1>0. PICK E : E = NewFolders(D, m)
  OBVIOUS
<1>1. /\ CloudOK' /\ lastId' = lastId + 1 /\ m.id \in Ids /\ m.id <= MaxId
      /\ cloud' = cloud \cup {[m EXCEPT !.parent = Real(m.parent)]}
  BY PostKeeps DEF Entry
<1>2. E \in SUBSET Ids /\ D \subseteq E /\ \A i : i # lastId + 1 => (i \in D <=> i \in E)
  BY <1>0, <1>1 DEF NewFolders
<1>3. Fits(m, lastId', E) /\ lastId \in Nat /\ \A i \in E : i <= lastId'
  <2>1. lastId \in Nat /\ D \subseteq Nat
    BY BoundAssumption DEF CloudOK, Ids
  <2>2. \A i \in D : i <= lastId
    BY DEF Agree
  <2>3. lastId + 1 \notin D /\ \A i \in D : i <= lastId + 1
    BY <2>1, <2>2
  <2>4. lastId + 1 <= lastId + 1
    BY <2>1
  <2> QED
    BY <1>0, <1>1, <2>1, <2>3, <2>4 DEF Fits, NewFolders
<1>4. ASSUME NEW x, x.id \in Ids, Fits(x, lastId, D) PROVE Fits(x, lastId', E)
  BY <1>1, <1>2, <1>4, FitsGrows
<1>5. \A e \in cloud' : Fits(e, lastId', E)
  <2>1. \A e \in cloud : e.id \in Ids /\ Fits(e, lastId, D)
    BY DEF CloudOK, Agree
  <2>2. LET n == [m EXCEPT !.parent = Real(m.parent)] IN n.id = m.id /\ n.dir = m.dir
    BY DEF Entry
  <2>3. LET n == [m EXCEPT !.parent = Real(m.parent)] IN Fits(n, lastId', E)
    BY <1>3, <2>2 DEF Fits
  <2> QED
    BY <1>1, <1>4, <2>1, <2>3
<1>6. \A p \in DOMAIN path_map' : Fits(path_map'[p], lastId', E)
  <2>1. path_map' = path_map
    BY DEF index
  <2>2. \A p \in DOMAIN path_map : path_map[p].id \in Ids /\ Fits(path_map[p], lastId, D)
    BY DEF IndexOK, Agree, Entry
  <2> QED
    BY <1>4, <2>1, <2>2
<1>7. \A d \in DirIds : \A c \in Kids(d)' : Fits(c, lastId', E)
  <2>1. \A d : Kids(d)' = Kids(d)
    BY DEF index, Kids
  <2>2. \A d \in DirIds : \A c \in Kids(d) : c.id \in Ids /\ Fits(c, lastId, D)
    BY DEF IndexOK, Agree, Entry
  <2>3. \A d \in DirIds : \A c \in Kids(d) : Fits(c, lastId', E)
    BY <1>4, <2>2
  <2> QED
    BY <2>1, <2>3
<1>8. \A d \in DirIds : listing'[d] # None => \A c \in listing'[d] : Fits(c, lastId', E)
  <2>1. \A d \in DirIds : listing[d] # None => \A c \in listing[d] : c.id \in Ids /\ Fits(c, lastId, D)
    BY DEF IndexOK, Agree, Entry
  <2> QED
    BY <1>4, <2>1
<1>9. op' # None /\ op'.kind = "add" => Fits(op'.meta, lastId', E)
  <2>1. op # None /\ op.kind = "add" => op.meta.id \in Ids /\ Fits(op.meta, lastId, D)
    BY DEF OpInv, Agree, Entry
  <2>2. CASE op' = op
    BY <1>4, <2>1, <2>2
  <2>3. CASE op' # None => op'.meta = m
    BY <1>3, <2>3
  <2> QED
    BY <2>2, <2>3
<1>10. root' \in Ids => root' <= lastId' /\ root' \in E
  <2>1. root' = m.id /\ m.dir => root' <= lastId' /\ root' \in E
    BY <1>3 DEF Fits
  <2>2. root' = root /\ root \in Ids => root \in D /\ \A i \in E : i <= lastId'
    BY <1>3 DEF Agree
  <2> QED
    BY <1>2, <2>1, <2>2
<1>11. Agree(E)'
  BY <1>3, <1>5, <1>6, <1>7, <1>8, <1>9, <1>10 DEF Agree
<1> QED
  BY <1>0, <1>1, <1>2, <1>3, <1>11

LEMMA NewMetaIs ==
  ASSUME CloudOK, AskInv, ask # None, ask.kind = "add", lastId + 1 <= MaxId
  PROVE  LET m == NewMeta(ask) IN
         /\ m \in Entry /\ m.rev = 0 /\ m.id = lastId + 1 /\ m.dir = ask.dir
         /\ m.parent = ask.parent /\ m.name = Last(ask.path) /\ IsFolder(m.parent)
<1>1. ask.path \in Path /\ ask.path # << >> /\ ask.dir \in BOOLEAN /\ IsFolder(ask.parent)
  BY DEF AskInv
<1>2. Last(ask.path) \in Names
  BY <1>1, FrontLast
<1>3. lastId + 1 \in Ids
  BY NewIdIsFresh
<1>4. ask.parent \in DirIds
  BY <1>1 DEF IsFolder
<1> QED
  BY <1>1, <1>2, <1>3, <1>4 DEF NewMeta, Entry

\* The look-ups change nothing but the request that they find the ids for.
LEMMA AddAsks ==
  ASSUME CloudOK, IndexOK, NEW D, Agree(D), root # None, op = None,
         NEW p \in Path, p # << >>, NEW isDir \in BOOLEAN, Add(p, isDir)
  PROVE  /\ AskInv' /\ ask'.kind = "add" /\ ask'.parent = DirAt(Front(p))
         /\ \E r : Ask(r)
<1>1. /\ Walked(Front(p))
      /\ ask' = [kind |-> "add", path |-> p, dirs |-> {Front(p)}, parent |-> DirAt(Front(p)),
                 dir |-> isDir, sure |-> Sure({Front(p)})]
      /\ UNCHANGED <<server, root, index, loading, op, loose, errors>>
      /\ \E r : Ask(r)
  BY DEF Add, Ask
<1>2. Front(p) \in Path
  BY FrontLast
<1>3. IsFolder(DirAt(Front(p))) /\ DirAt(Front(p)) \in DirIds
  BY <1>1, <1>2, WalkedIs, DirAtIs
<1>4. Sure({Front(p)}) \in BOOLEAN
  BY DEF Sure
<1>5. ask' \in Request
  BY <1>1, <1>2, <1>3, <1>4 DEF Request
<1>6. cloud' = cloud /\ op' = None
  BY <1>1 DEF server
<1>7. AskInv'
  BY <1>1, <1>2, <1>3, <1>4, <1>5, <1>6 DEF AskInv, IsFolder
<1> QED
  BY <1>1, <1>7

LEMMA DeleteAsks ==
  ASSUME IndexOK, op = None, NEW p \in DOMAIN path_map, Delete(p)
  PROVE  /\ AskInv' /\ ask'.kind = "remove" /\ ask'.id = path_map[p].id
         /\ \E r : Ask(r)
<1> DEFINE m == path_map[p]
<1>1. /\ ask' = [kind |-> "remove", path |-> p, dirs |-> {Front(p)}, id |-> m.id,
                 sure |-> Sure({Front(p)}), listed |-> (m.dir => m.id \in loaded)]
      /\ UNCHANGED <<server, root, index, loading, op, loose, errors>>
      /\ \E r : Ask(r)
  BY DEF Delete, Ask
<1>2. p \in Path /\ p # << >> /\ Front(p) \in Path /\ m \in Entry /\ m.id \in Ids
  BY FrontLast DEF IndexOK, Entry
<1>3. Sure({Front(p)}) \in BOOLEAN /\ (m.dir => m.id \in loaded) \in BOOLEAN
  BY DEF Sure
<1>4. path_map' = path_map /\ op' = None
  BY <1>1 DEF index
<1> HIDE DEF m
<1>5. ask' \in Request
  BY <1>1, <1>2, <1>3 DEF Request
<1>6. AskInv'
  BY <1>1, <1>2, <1>3, <1>4, <1>5 DEF AskInv
<1> QED
  BY <1>1, <1>6 DEF m

LEMMA RenameAsks ==
  ASSUME CloudOK, IndexOK, NEW D, Agree(D), root # None, op = None,
         NEW p \in DOMAIN path_map, NEW q \in Path, q # << >>, Rename(p, q)
  PROVE  /\ AskInv' /\ ask'.kind = "move" /\ ask'.id = path_map[p].id
         /\ ask'.parent = DirAt(Front(q)) /\ \E r : Ask(r)
<1> DEFINE m == path_map[p]
           dirs == {Front(p), Front(q)}
           sure == q \notin DOMAIN path_map /\ Sure(dirs)
<1>1. /\ Walked(Front(q))
      /\ ask' = [kind |-> "move", path |-> p, dirs |-> dirs, to |-> q, id |-> m.id,
                 parent |-> DirAt(Front(q)), sure |-> sure]
      /\ UNCHANGED <<server, root, index, loading, op, loose, errors>>
      /\ \E r : Ask(r)
  BY DEF Rename, Ask
<1>2. p \in Path /\ p # << >> /\ Front(p) \in Path /\ m \in Entry /\ m.id \in Ids
      /\ Front(q) \in Path
  BY FrontLast DEF IndexOK, Entry
<1>3. IsFolder(DirAt(Front(q))) /\ DirAt(Front(q)) \in DirIds /\ IsDir(Front(q))
  BY <1>1, <1>2, WalkedIs, DirAtIs
<1>4. sure \in BOOLEAN /\ dirs \in SUBSET Path
  BY <1>2 DEF Sure
<1>5. path_map' = path_map /\ op' = None /\ cloud' = cloud
  BY <1>1 DEF index, server
<1> HIDE DEF m, dirs, sure
<1>6. ask' \in Request
  BY <1>1, <1>2, <1>3, <1>4 DEF Request
<1>7. Front(q) \in {<< >>} \cup DOMAIN path_map
  BY <1>3 DEF IsDir
<1>8. AskInv'
  BY <1>1, <1>2, <1>3, <1>4, <1>5, <1>6, <1>7 DEF AskInv, IsFolder
<1> QED
  BY <1>1, <1>8 DEF m

LEMMA LookUpKeeps ==
  ASSUME NEW D \in SUBSET Ids, NsInv(D), root # None, NEW r, Ask(r), AskInv',
         changes' \in 0..MaxChanges
  PROVE  NsInv(D)'
<1>0. CloudOK /\ IndexOK /\ OpInv /\ AskInv /\ Down /\ Counts /\ Agree(D)
  BY DEF NsInv
<1>1. UNCHANGED <<server, root, index, loading, op, loose, errors>>
  BY DEF Ask
<1>2. /\ path_map' = path_map /\ id_map' = id_map /\ children_map' = children_map
      /\ loaded' = loaded /\ failed' = failed /\ listing' = listing
      /\ cloud' = cloud /\ lastId' = lastId /\ \A d : Kids(d)' = Kids(d)
  BY <1>1 DEF index, loading, server, Kids
<1>3. CloudOK' /\ IndexOK' /\ OpInv' /\ Down'
  BY <1>0, <1>1, <1>2 DEF CloudOK, IndexOK, OpInv, Down
<1>4. Counts' /\ Agree(D)'
  BY <1>0, <1>1, <1>2 DEF Counts, Agree
<1> QED
  BY <1>3, <1>4 DEF NsInv

\* A step that gives out no id.
LEMMA SameIds ==
  ASSUME NEW D \in SUBSET Ids, Agree(D), lastId' = lastId, root' \in {root, None},
         None \notin Ids,
         \A e \in cloud' : Fits(e, lastId, D),
         \A p \in DOMAIN path_map' : Fits(path_map'[p], lastId, D),
         \A d \in DirIds : \A c \in Kids(d)' : Fits(c, lastId, D),
         \A d \in DirIds : listing'[d] # None => \A m \in listing'[d] : Fits(m, lastId, D),
         op' # None /\ op'.kind = "add" => Fits(op'.meta, lastId, D)
  PROVE  Agree(D)'
<1>1. root' \in Ids => root' <= lastId /\ root' \in D
  BY DEF Agree
<1>2. \A i \in D : i <= lastId
  BY DEF Agree
<1> QED
  BY <1>1, <1>2 DEF Agree

LEMMA AgreeIs ==
  ASSUME NEW D, Agree(D)
  PROVE  /\ \A e \in cloud : Fits(e, lastId, D)
         /\ \A p \in DOMAIN path_map : Fits(path_map[p], lastId, D)
         /\ \A d \in DirIds : \A c \in Kids(d) : Fits(c, lastId, D)
         /\ \A d \in DirIds : listing[d] # None => \A m \in listing[d] : Fits(m, lastId, D)
         /\ op # None /\ op.kind = "add" => Fits(op.meta, lastId, D)
  BY DEF Agree

LEMMA NoneIsNoId == None \notin Ids
  BY SentinelAssumption DEF DirIds

LEMMA ServeAddKeeps ==
  ASSUME NEW D \in SUBSET Ids, NsInv(D), ServeAdd
  PROVE  \E E \in SUBSET Ids : D \subseteq E /\ NsInv(E)'
<1>0. CloudOK /\ IndexOK /\ OpInv /\ AskInv /\ Down /\ Counts /\ Agree(D)
  BY DEF NsInv
<1>1. PICK m : m = NewMeta(ask)
  OBVIOUS
<1>2. /\ ask # None /\ ask.kind = "add" /\ PostEntry(m) /\ ask' = None
      /\ op' = [kind |-> "add", path |-> ask.path, meta |-> m, dirs |-> ask.dirs]
      /\ UNCHANGED <<root, index, loading, changes, errors>>
      /\ loose' \subseteq Path
  BY <1>0, <1>1, ServedPaths DEF ServeAdd, Served
<1>3. lastId + 1 <= MaxId /\ root # None
  BY <1>0, <1>1, <1>2 DEF PostEntry, NewMeta, Down
<1>4. m \in Entry /\ m.rev = 0 /\ m.id = lastId + 1 /\ IsFolder(m.parent)
  BY <1>0, <1>1, <1>2, <1>3, NewMetaIs
<1>5. op'.kind = "add" /\ op'.meta = m /\ op'.path = ask.path /\ op'.dirs = ask.dirs
  BY <1>2
<1>6. UNCHANGED <<index, listing>> /\ root' = root
  BY <1>2 DEF loading
<1>7. NewFolders(D, m) \in SUBSET Ids /\ D \subseteq NewFolders(D, m) /\ CloudOK'
      /\ Agree(NewFolders(D, m))'
  BY <1>0, <1>2, <1>4, <1>5, <1>6, PostAgrees
<1>8. ask.path \in Path /\ ask.path # << >> /\ ask.dirs \subseteq Path
  BY <1>0, <1>2 DEF AskInv
<1>9. IndexOK'
  BY <1>0, <1>2, IndexStays
<1>10. OpInv' /\ AskInv'
  <2>1. op' \in Operation
    BY <1>2, <1>4, <1>8 DEF Operation
  <2> QED
    BY <1>2, <1>4, <1>5, <1>8, <2>1 DEF OpInv, AskInv
<1>11. Down' /\ Counts'
  BY <1>0, <1>2, <1>3 DEF Down, Counts
<1> QED
  BY <1>7, <1>9, <1>10, <1>11 DEF NsInv

LEMMA ServeRemoveKeeps ==
  ASSUME NEW D \in SUBSET Ids, NsInv(D), ServeRemove
  PROVE  NsInv(D)'
<1>0. CloudOK /\ IndexOK /\ OpInv /\ AskInv /\ Down /\ Counts /\ Agree(D)
  BY DEF NsInv
<1>1. /\ ask # None /\ ask.kind = "remove" /\ DeleteEntry(ask.id) /\ ask' = None
      /\ op' = [kind |-> "remove", path |-> ask.path, dirs |-> ask.dirs]
      /\ UNCHANGED <<root, index, loading, changes, errors>>
      /\ loose' \subseteq Path
  BY <1>0, ServedPaths DEF ServeRemove, Served
<1>2. op'.kind = "remove" /\ op'.path = ask.path /\ op'.dirs = ask.dirs /\ root' = root
      /\ path_map' = path_map /\ children_map' = children_map /\ listing' = listing
  BY <1>1 DEF index, loading
<1>3. CloudOK' /\ lastId' = lastId /\ cloud' \subseteq cloud
  BY <1>0, <1>1, DeleteKeeps
<1>4. ask.path \in Path /\ ask.path # << >> /\ ask.dirs \subseteq Path
      /\ ask.path \in DOMAIN path_map
  BY <1>0, <1>1 DEF AskInv
<1>5. IndexOK'
  BY <1>0, <1>1, IndexStays
<1>6. OpInv' /\ AskInv'
  <2>1. op' \in Operation
    BY <1>1, <1>4 DEF Operation
  <2> QED
    BY <1>1, <1>2, <1>4, <2>1 DEF OpInv, AskInv
<1>7. Down' /\ Counts'
  BY <1>0, <1>1 DEF Down, Counts
<1>8. Agree(D)'
  <2>1. \A d \in DirIds : Kids(d)' = Kids(d)
    BY <1>2 DEF Kids
  <2> QED
    BY <1>0, <1>2, <1>3, <2>1, SameIds, AgreeIs, NoneIsNoId
<1> QED
  BY <1>3, <1>5, <1>6, <1>7, <1>8 DEF NsInv

LEMMA ServeMoveKeeps ==
  ASSUME NEW D \in SUBSET Ids, NsInv(D), ServeMove
  PROVE  NsInv(D)'
<1>0. CloudOK /\ IndexOK /\ OpInv /\ AskInv /\ Down /\ Counts /\ Agree(D)
  BY DEF NsInv
<1>1. /\ ask # None /\ ask.kind = "move"
      /\ PatchEntry(ask.id, Last(ask.to), ask.parent) /\ ask' = None
      /\ op' = [kind |-> "move", path |-> ask.path, to |-> ask.to, dirs |-> ask.dirs]
      /\ UNCHANGED <<root, index, loading, changes, errors>>
      /\ loose' \subseteq Path
  BY <1>0, ServedPaths DEF ServeMove, Served
<1>2. op'.kind = "move" /\ op'.path = ask.path /\ op'.to = ask.to /\ op'.dirs = ask.dirs
      /\ root' = root /\ path_map' = path_map /\ children_map' = children_map
      /\ listing' = listing
  BY <1>1 DEF index, loading
<1>3. /\ ask.path \in Path /\ ask.path # << >> /\ ask.dirs \subseteq Path
      /\ ask.path \in DOMAIN path_map /\ ask.id \in Ids /\ IsFolder(ask.parent)
      /\ ask.to \in Path /\ ask.to # << >> /\ Front(ask.to) \in {<< >>} \cup DOMAIN path_map
  BY <1>0, <1>1 DEF AskInv
<1>4. Last(ask.to) \in Names /\ ask.parent \in DirIds
  BY <1>3, FrontLast DEF IsFolder
<1>5. CloudOK' /\ lastId' = lastId
      /\ cloud' = {Patched(e, ask.id, Last(ask.to), ask.parent) : e \in cloud}
  BY <1>0, <1>1, <1>3, <1>4, PatchKeeps
<1>6. \A e \in cloud' : Fits(e, lastId, D)
  <2>1. \A e \in cloud : Fits(Patched(e, ask.id, Last(ask.to), ask.parent), lastId, D)
    BY <1>0, <1>3, <1>4, PatchedIs, AgreeIs DEF Fits
  <2> QED
    BY <1>5, <2>1
<1>7. IndexOK'
  BY <1>0, <1>1, IndexStays
<1>8. OpInv' /\ AskInv'
  <2>1. op' \in Operation
    BY <1>1, <1>3 DEF Operation
  <2> QED
    BY <1>1, <1>2, <1>3, <2>1 DEF OpInv, AskInv
<1>9. Down' /\ Counts'
  BY <1>0, <1>1 DEF Down, Counts
<1>10. Agree(D)'
  <2>1. \A d \in DirIds : Kids(d)' = Kids(d)
    BY <1>2 DEF Kids
  <2> QED
    BY <1>0, <1>2, <1>5, <1>6, <2>1, SameIds, AgreeIs, NoneIsNoId
<1> QED
  BY <1>5, <1>7, <1>8, <1>9, <1>10 DEF NsInv

LEMMA RequestFailsKeeps ==
  ASSUME NEW D \in SUBSET Ids, NsInv(D), RequestFails
  PROVE  NsInv(D)'
<1>0. CloudOK /\ IndexOK /\ OpInv /\ AskInv /\ Down /\ Counts /\ Agree(D)
  BY DEF NsInv
<1>1. ask' = None /\ UNCHANGED <<server, root, index, loading, op, loose, changes, errors>>
  BY DEF RequestFails
<1>2. /\ path_map' = path_map /\ id_map' = id_map /\ children_map' = children_map
      /\ loaded' = loaded /\ failed' = failed /\ listing' = listing
      /\ cloud' = cloud /\ lastId' = lastId /\ \A d : Kids(d)' = Kids(d)
  BY <1>1 DEF index, loading, server, Kids
<1>3. CloudOK' /\ IndexOK' /\ OpInv' /\ AskInv' /\ Down'
  BY <1>0, <1>1, <1>2 DEF CloudOK, IndexOK, OpInv, AskInv, Down
<1>4. Counts' /\ Agree(D)'
  BY <1>0, <1>1, <1>2 DEF Counts, Agree
<1> QED
  BY <1>3, <1>4 DEF NsInv

LEMMA RemoveEntryKeeps ==
  ASSUME NEW D, Agree(D), IndexOK, NEW p \in DOMAIN path_map, RemoveEntry(p),
         UNCHANGED <<root, loading>>, loose' \subseteq Path
  PROVE  /\ IndexOK'
         /\ DOMAIN path_map' = DOMAIN path_map \ {p}
         /\ \A q \in DOMAIN path_map' : path_map'[q] = path_map[q]
         /\ \A q \in DOMAIN path_map' : Fits(path_map'[q], lastId, D)
         /\ \A d \in DirIds : \A c \in Kids(d)' : Fits(c, lastId, D)
<1> DEFINE m == path_map[p]
<1>1. /\ DOMAIN path_map' = DOMAIN path_map \ {p}
      /\ \A q \in DOMAIN path_map' : path_map'[q] = path_map[q]
      /\ DOMAIN id_map' = DOMAIN id_map \ {m.id}
      /\ \A i \in DOMAIN id_map' : id_map'[i] = id_map[i]
      /\ DOMAIN children_map' = DirIds /\ m.parent \in DirIds
      /\ children_map'[m.parent] = Dropped(children_map[m.parent], m.id)
      /\ \A d \in DirIds \ {m.parent} : children_map'[d] = children_map[d]
  BY RemoveEntryIs
<1>2. \A d \in DirIds : IsABag(children_map[d]) /\ BagToSet(children_map[d]) \subseteq Entry
  BY DEF IndexOK, Kids
<1> HIDE DEF m
<1>3. \A d \in DirIds : IsABag(children_map'[d]) /\ BagToSet(children_map'[d]) \subseteq BagToSet(children_map[d])
  <2>1. IsABag(Dropped(children_map[m.parent], m.id))
        /\ BagToSet(Dropped(children_map[m.parent], m.id)) \subseteq BagToSet(children_map[m.parent])
    BY <1>1, <1>2, BagDropped
  <2> QED
    BY <1>1, <1>2, <2>1
<1>4. \A d \in DirIds : \A c \in Kids(d)' : Fits(c, lastId, D)
  BY <1>3, AgreeIs DEF Kids
<1>5. \A q \in DOMAIN path_map' : Fits(path_map'[q], lastId, D)
  BY <1>1, AgreeIs
<1>6. IndexOK'
  <2>1. \A d \in DirIds : IsABag(children_map'[d]) /\ Kids(d)' \subseteq Entry
    BY <1>2, <1>3 DEF Kids
  <2> QED
    BY <1>1, <2>1 DEF IndexOK, loading
<1> QED
  BY <1>1, <1>4, <1>5, <1>6

LEMMA AddEntryKeeps ==
  ASSUME NEW D, Agree(D), IndexOK, NEW p \in Path, p # << >>, NEW m \in Entry, Fits(m, lastId, D),
         AddEntry(p, m), UNCHANGED <<root, loading>>, loose' \subseteq Path
  PROVE  /\ IndexOK'
         /\ \A q \in DOMAIN path_map' : Fits(path_map'[q], lastId, D)
         /\ \A d \in DirIds : \A c \in Kids(d)' : Fits(c, lastId, D)
<1>0. m.parent \in DirIds /\ m.id \in Ids
  BY DEF Entry
<1>1. /\ DOMAIN path_map' = DOMAIN path_map \cup {p} /\ path_map'[p] = m
      /\ \A q \in DOMAIN path_map : q # p => path_map'[q] = path_map[q]
      /\ DOMAIN id_map' = DOMAIN id_map \cup {m.id} /\ id_map'[m.id] = p
      /\ \A i \in DOMAIN id_map : i # m.id => id_map'[i] = id_map[i]
      /\ DOMAIN children_map' = DirIds
      /\ children_map'[m.parent] = Plus(children_map[m.parent], m)
      /\ \A d \in DirIds \ {m.parent} : children_map'[d] = children_map[d]
  BY <1>0, AddEntryIs
<1>2. \A d \in DirIds : IsABag(children_map[d]) /\ BagToSet(children_map[d]) \subseteq Entry
  BY DEF IndexOK, Kids
<1>3. \A d \in DirIds : IsABag(children_map'[d])
                        /\ BagToSet(children_map'[d]) \subseteq BagToSet(children_map[d]) \cup {m}
  <2>1. IsABag(Plus(children_map[m.parent], m))
        /\ BagToSet(Plus(children_map[m.parent], m)) \subseteq BagToSet(children_map[m.parent]) \cup {m}
    BY <1>0, <1>2, BagPlus
  <2> QED
    BY <1>1, <1>2, <2>1
<1>4. \A d \in DirIds : \A c \in Kids(d)' : Fits(c, lastId, D)
  BY <1>3, AgreeIs DEF Kids
<1>5. \A q \in DOMAIN path_map' : Fits(path_map'[q], lastId, D)
  BY <1>1, AgreeIs
<1>6. IndexOK'
  <2>1. \A d \in DirIds : IsABag(children_map'[d]) /\ Kids(d)' \subseteq Entry
    BY <1>2, <1>3 DEF Kids
  <2> QED
    BY <1>0, <1>1, <2>1 DEF IndexOK, loading
<1> QED
  BY <1>4, <1>5, <1>6

LEMMA MoveEntryKeeps ==
  ASSUME NEW D, Agree(D), IndexOK, NEW p \in DOMAIN path_map, NEW q \in Path, q # << >>,
         DirAt(Front(q)) \in DirIds,
         MoveEntry(p, q), UNCHANGED <<root, loading>>, loose' \subseteq Path
  PROVE  /\ IndexOK'
         /\ \A r \in DOMAIN path_map' : Fits(path_map'[r], lastId, D)
         /\ \A d \in DirIds : \A c \in Kids(d)' : Fits(c, lastId, D)
<1> DEFINE m == path_map[p]
           n == Moved(p, q)
           kids == [children_map EXCEPT ![m.parent] = Dropped(@, m.id)]
<1>0. m \in Entry /\ n \in Entry /\ n.id = m.id /\ n.dir = m.dir /\ m.parent \in DirIds
      /\ n.parent \in DirIds
  BY MovedIs
<1>1. /\ DOMAIN path_map' = (DOMAIN path_map \ {p}) \cup {q} /\ path_map'[q] = n
      /\ \A r \in DOMAIN path_map \ {p} : r # q => path_map'[r] = path_map[r]
      /\ DOMAIN id_map' = DOMAIN id_map \cup {m.id} /\ id_map'[m.id] = q
      /\ \A i \in DOMAIN id_map : i # m.id => id_map'[i] = id_map[i]
      /\ DOMAIN children_map' = DirIds
      /\ kids[m.parent] = Dropped(children_map[m.parent], m.id)
      /\ \A d \in DirIds \ {m.parent} : kids[d] = children_map[d]
      /\ children_map'[n.parent] = Plus(kids[n.parent], n)
      /\ \A d \in DirIds \ {n.parent} : children_map'[d] = kids[d]
  BY MoveEntryIs
<1>2. \A d \in DirIds : IsABag(children_map[d]) /\ BagToSet(children_map[d]) \subseteq Entry
  BY DEF IndexOK, Kids
<1>3. Fits(n, lastId, D) /\ n.id \in Ids
  <2>1. Fits(m, lastId, D)
    BY AgreeIs
  <2> QED
    BY <1>0, <2>1 DEF Fits, Entry
<1> HIDE DEF m, n, kids
<1>4. \A d \in DirIds : IsABag(kids[d]) /\ BagToSet(kids[d]) \subseteq BagToSet(children_map[d])
  <2>1. IsABag(Dropped(children_map[m.parent], m.id))
        /\ BagToSet(Dropped(children_map[m.parent], m.id)) \subseteq BagToSet(children_map[m.parent])
    BY <1>0, <1>2, BagDropped
  <2> QED
    BY <1>1, <1>2, <2>1
<1>5. \A d \in DirIds : IsABag(children_map'[d])
                        /\ BagToSet(children_map'[d]) \subseteq BagToSet(children_map[d]) \cup {n}
  <2>1. IsABag(Plus(kids[n.parent], n))
        /\ BagToSet(Plus(kids[n.parent], n)) \subseteq BagToSet(kids[n.parent]) \cup {n}
    BY <1>0, <1>4, BagPlus
  <2> QED
    BY <1>1, <1>4, <2>1
<1>6. \A d \in DirIds : \A c \in Kids(d)' : Fits(c, lastId, D)
  BY <1>3, <1>5, AgreeIs DEF Kids
<1>7. \A r \in DOMAIN path_map' : Fits(path_map'[r], lastId, D)
  BY <1>1, <1>3, AgreeIs
<1>8. IndexOK'
  <2>1. \A d \in DirIds : IsABag(children_map'[d]) /\ Kids(d)' \subseteq Entry
    BY <1>0, <1>2, <1>5 DEF Kids
  <2>2. \A i \in DOMAIN id_map' : i \in Ids /\ id_map'[i] \in Path /\ id_map'[i] # << >>
    BY <1>0, <1>1, <1>3 DEF IndexOK
  <2>3. \A r \in DOMAIN path_map' : r \in Path /\ r # << >> /\ path_map'[r] \in Entry
    BY <1>0, <1>1 DEF IndexOK
  <2> QED
    BY <1>1, <2>1, <2>2, <2>3 DEF IndexOK, loading
<1> QED
  BY <1>6, <1>7, <1>8

LEMMA UpdateMetaKeeps ==
  ASSUME NEW D, Agree(D), IndexOK, NEW p \in DOMAIN path_map, UpdateMeta(p),
         UNCHANGED <<root, loading>>, loose' \subseteq Path
  PROVE  /\ IndexOK'
         /\ DOMAIN path_map' = DOMAIN path_map
         /\ \A q \in DOMAIN path_map : path_map'[q].id = path_map[q].id
         /\ \A r \in DOMAIN path_map' : Fits(path_map'[r], lastId, D)
         /\ \A d \in DirIds : \A c \in Kids(d)' : Fits(c, lastId, D)
<1> DEFINE m == path_map[p]
           n == [m EXCEPT !.rev = 1]
<1>1. /\ m \in Entry /\ n \in Entry /\ m.parent \in DirIds
      /\ n.id = m.id /\ n.name = m.name /\ n.dir = m.dir /\ n.parent = m.parent
      /\ DOMAIN path_map' = DOMAIN path_map /\ path_map'[p] = n
      /\ \A q \in DOMAIN path_map : q # p => path_map'[q] = path_map[q]
      /\ id_map' = id_map
      /\ DOMAIN children_map' = DirIds
      /\ \A d \in DirIds \ {m.parent} : children_map'[d] = children_map[d]
      /\ \/ children_map' = children_map
         \/ \E c \in Kids(m.parent) : children_map'[m.parent] = Plus(Minus(children_map[m.parent], c), n)
  BY UpdateMetaIs
<1>2. \A d \in DirIds : IsABag(children_map[d]) /\ BagToSet(children_map[d]) \subseteq Entry
  BY DEF IndexOK, Kids
<1>3. Fits(n, lastId, D) /\ n.id = path_map[p].id
  <2>1. Fits(m, lastId, D)
    BY AgreeIs
  <2> QED
    BY <1>1, <2>1 DEF Fits
<1> HIDE DEF m, n
<1>4. \A d \in DirIds : IsABag(children_map'[d])
                        /\ BagToSet(children_map'[d]) \subseteq BagToSet(children_map[d]) \cup {n}
  <2>1. CASE children_map' = children_map
    BY <1>2, <2>1
  <2>2. ASSUME NEW c, children_map'[m.parent] = Plus(Minus(children_map[m.parent], c), n)
        PROVE  IsABag(children_map'[m.parent])
               /\ BagToSet(children_map'[m.parent]) \subseteq BagToSet(children_map[m.parent]) \cup {n}
    <3>1. IsABag(Minus(children_map[m.parent], c))
          /\ BagToSet(Minus(children_map[m.parent], c)) \subseteq BagToSet(children_map[m.parent])
      BY <1>1, <1>2, BagMinus
    <3> QED
      BY <2>2, <3>1, BagPlus
  <2> QED
    BY <1>1, <1>2, <2>1, <2>2
<1>5. \A d \in DirIds : \A c \in Kids(d)' : Fits(c, lastId, D)
  BY <1>3, <1>4, AgreeIs DEF Kids
<1>6. \A r \in DOMAIN path_map' : Fits(path_map'[r], lastId, D)
  BY <1>1, <1>3, AgreeIs
<1>7. IndexOK'
  <2>1. \A d \in DirIds : IsABag(children_map'[d]) /\ Kids(d)' \subseteq Entry
    BY <1>1, <1>2, <1>4 DEF Kids
  <2> QED
    BY <1>1, <2>1 DEF IndexOK, loading
<1> QED
  BY <1>1, <1>3, <1>5, <1>6, <1>7

LEMMA MergeStepKeeps ==
  ASSUME NEW D \in SUBSET Ids, NsInv(D), root # None, NEW d \in DirIds, Merge(d)
  PROVE  NsInv(D)' /\ DOMAIN path_map \subseteq DOMAIN path_map'
<1> DEFINE kept == Placed(d)
           at == PathTo(d)
<1>0. CloudOK /\ IndexOK /\ OpInv /\ AskInv /\ Down /\ Counts /\ Agree(D)
  BY DEF NsInv
<1>1. /\ kept \subseteq listing[d] /\ kept \subseteq Entry /\ (kept # {} => at \in Path)
      /\ Real(d) \in DirIds
      /\ DOMAIN path_map' = DOMAIN path_map \cup {Append(at, m.name) : m \in kept}
      /\ \A p \in DOMAIN path_map' :
           \/ \E m \in kept : p = Append(at, m.name) /\ path_map'[p] = m
           \/ /\ p \in DOMAIN path_map /\ path_map'[p] = path_map[p]
              /\ \A m \in kept : p # Append(at, m.name)
      /\ DOMAIN id_map' = DOMAIN id_map \cup {m.id : m \in kept}
      /\ \A i \in DOMAIN id_map' :
           \/ \E m \in kept : i = m.id /\ id_map'[i] = Append(at, m.name)
           \/ /\ i \in DOMAIN id_map /\ id_map'[i] = id_map[i]
              /\ \A m \in kept : i # m.id
      /\ DOMAIN children_map' = DirIds
      /\ children_map'[Real(d)] = children_map[Real(d)] (+) SetToBag(kept)
      /\ \A e \in DirIds \ {Real(d)} : children_map'[e] = children_map[e]
      /\ listing[d] # None /\ listing' = [listing EXCEPT ![d] = None]
      /\ loaded' = loaded \cup {d} /\ failed' = failed \ {d}
      /\ loose' = IF DistinctNames(kept) THEN loose ELSE loose \cup {at}
      /\ UNCHANGED <<server, root, ask, op, changes, errors>>
  BY <1>0, MergeIs
<1> HIDE DEF kept, at
<1>2. \A m \in kept : m \in Entry /\ Fits(m, lastId, D) /\ m.id \in Ids /\ m.name \in Names
  BY <1>0, <1>1, AgreeIs DEF Entry
<1>3. \A m \in kept : Append(at, m.name) \in Path /\ Append(at, m.name) # << >>
  BY <1>1, <1>2, AppendPath
<1>4. loose' \subseteq Path
  <2>1. ~DistinctNames(kept) => kept # {}
    BY DEF DistinctNames
  <2> QED
    BY <1>0, <1>1, <2>1 DEF IndexOK
<1>5. \A e \in DirIds : IsABag(children_map'[e]) /\ BagToSet(children_map'[e]) \subseteq Entry
                        /\ \A c \in BagToSet(children_map'[e]) : Fits(c, lastId, D)
  <2>1. \A e \in DirIds : IsABag(children_map[e]) /\ BagToSet(children_map[e]) \subseteq Entry
                          /\ \A c \in BagToSet(children_map[e]) : Fits(c, lastId, D)
    BY <1>0, AgreeIs DEF IndexOK, Kids
  <2>2. /\ IsABag(children_map'[Real(d)])
        /\ BagToSet(children_map'[Real(d)]) = BagToSet(children_map[Real(d)]) \cup kept
    BY <1>1, <2>1, BagWithSet
  <2> QED
    BY <1>1, <1>2, <2>1, <2>2
<1>6. IndexOK'
  <2>1. ASSUME NEW p \in DOMAIN path_map' PROVE p \in Path /\ p # << >> /\ path_map'[p] \in Entry
    <3>1. CASE \E m \in kept : p = Append(at, m.name) /\ path_map'[p] = m
      BY <1>2, <1>3, <3>1
    <3>2. CASE p \in DOMAIN path_map /\ path_map'[p] = path_map[p]
      BY <1>0, <3>2 DEF IndexOK
    <3> QED
      BY <1>1, <3>1, <3>2
  <2>2. ASSUME NEW i \in DOMAIN id_map'
        PROVE  i \in Ids /\ id_map'[i] \in Path /\ id_map'[i] # << >>
    <3>1. CASE \E m \in kept : i = m.id /\ id_map'[i] = Append(at, m.name)
      BY <1>2, <1>3, <3>1
    <3>2. CASE i \in DOMAIN id_map /\ id_map'[i] = id_map[i]
      BY <1>0, <3>2 DEF IndexOK
    <3> QED
      BY <1>1, <3>1, <3>2
  <2>3. \A e \in DirIds : IsABag(children_map'[e]) /\ Kids(e)' \subseteq Entry
    BY <1>5 DEF Kids
  <2>4. DOMAIN listing' = DirIds /\ \A e \in DirIds : listing'[e] = None \/ listing'[e] \subseteq Entry
    BY <1>0, <1>1 DEF IndexOK
  <2> QED
    BY <1>0, <1>1, <1>4, <2>1, <2>2, <2>3, <2>4 DEF IndexOK
<1>7. DOMAIN path_map \subseteq DOMAIN path_map'
  BY <1>1
<1>8. OpInv' /\ AskInv'
  <2>1. AskInv'
    BY <1>0, <1>1, <1>7, AskStays DEF server
  <2> QED
    BY <1>0, <1>1, <1>7, <2>1 DEF OpInv
<1>9. Down' /\ Counts'
  BY <1>0, <1>1 DEF Down, Counts
<1>10. CloudOK' /\ lastId' = lastId /\ cloud' = cloud
  BY <1>0, <1>1 DEF server, CloudOK
<1>11. Agree(D)'
  <2>1. \A p \in DOMAIN path_map' : Fits(path_map'[p], lastId, D)
    BY <1>0, <1>1, <1>2, AgreeIs
  <2>2. \A e \in DirIds : \A c \in Kids(e)' : Fits(c, lastId, D)
    BY <1>5 DEF Kids
  <2>3. \A e \in DirIds : listing'[e] # None => \A m \in listing'[e] : Fits(m, lastId, D)
    BY <1>0, <1>1, AgreeIs DEF IndexOK
  <2>4. op' # None /\ op'.kind = "add" => Fits(op'.meta, lastId, D)
    BY <1>0, <1>1, AgreeIs
  <2>5. \A e \in cloud' : Fits(e, lastId, D)
    BY <1>0, <1>10, AgreeIs
  <2> QED
    BY <1>0, <1>1, <1>10, <2>1, <2>2, <2>3, <2>4, <2>5, SameIds, NoneIsNoId
<1> QED
  BY <1>6, <1>7, <1>8, <1>9, <1>10, <1>11 DEF NsInv

LEMMA FetchKeeps ==
  ASSUME NEW D \in SUBSET Ids, NsInv(D), NEW d \in DirIds, Fetch(d)
  PROVE  NsInv(D)' /\ listing' = [listing EXCEPT ![d] = Contents(cloud, d)] /\ d \in Known
<1>0. CloudOK /\ IndexOK /\ OpInv /\ AskInv /\ Down /\ Counts /\ Agree(D)
  BY DEF NsInv
<1>1. /\ root # None /\ listing' = [listing EXCEPT ![d] = Contents(cloud, d)] /\ d \in Known
      /\ UNCHANGED <<server, root, index, loaded, failed, ask, op, loose, changes, errors>>
  BY DEF Fetch, ListFiles
<1>2. /\ path_map' = path_map /\ id_map' = id_map /\ children_map' = children_map
      /\ cloud' = cloud /\ lastId' = lastId
  BY <1>1 DEF index, server
<1>3. \A m \in Contents(cloud, d) : m \in cloud /\ m \in Entry
  BY <1>0 DEF Contents, CloudOK, Entry, DirIds
<1>4. \A e \in DirIds : listing'[e] = listing[e] \/ listing'[e] \subseteq cloud \cap Entry
  BY <1>0, <1>1, <1>3 DEF IndexOK
<1>5. DOMAIN listing' = DirIds
  BY <1>0, <1>1 DEF IndexOK
<1>6. \A e : Kids(e)' = Kids(e)
  BY <1>2 DEF Kids
<1>7. IndexOK'
  BY <1>0, <1>1, <1>2, <1>4, <1>5, <1>6 DEF IndexOK
<1>8. Agree(D)'
  <2>1. \A e \in DirIds : listing'[e] # None => \A m \in listing'[e] : Fits(m, lastId, D)
    BY <1>0, <1>4, AgreeIs
  <2> QED
    BY <1>0, <1>1, <1>2, <1>6, <2>1, SameIds, AgreeIs, NoneIsNoId
<1>9. CloudOK' /\ Counts' /\ Down' /\ OpInv' /\ AskInv'
  <2>1. AskInv'
    BY <1>0, <1>1, <1>2, AskStays
  <2> QED
    BY <1>0, <1>1, <1>2, <2>1 DEF CloudOK, Counts, Down, OpInv
<1> QED
  BY <1>1, <1>7, <1>8, <1>9 DEF NsInv

LEMMA FetchFailsKeeps ==
  ASSUME NEW D \in SUBSET Ids, NsInv(D), NEW d \in DirIds, FetchFails(d)
  PROVE  NsInv(D)'
<1>0. CloudOK /\ IndexOK /\ OpInv /\ AskInv /\ Down /\ Counts /\ Agree(D)
  BY DEF NsInv
<1>1. /\ listing' = [listing EXCEPT ![d] = None] /\ listing[d] # None /\ loaded' = loaded
      /\ failed' = failed \cup {d}
      /\ errors < MaxErrors /\ errors' = errors + 1
      /\ UNCHANGED <<server, root, index, ask, op, loose, changes>>
  BY DEF FetchFails, LoadedAfterFailure
<1>2. /\ path_map' = path_map /\ id_map' = id_map /\ children_map' = children_map
      /\ cloud' = cloud /\ lastId' = lastId
  BY <1>1 DEF index, server
<1>3. \A e \in DirIds : listing'[e] = listing[e] \/ listing'[e] = None
  BY <1>0, <1>1 DEF IndexOK
<1>4. DOMAIN listing' = DirIds
  BY <1>0, <1>1 DEF IndexOK
<1>5. \A e : Kids(e)' = Kids(e)
  BY <1>2 DEF Kids
<1>6. IndexOK'
  BY <1>0, <1>1, <1>2, <1>3, <1>4, <1>5 DEF IndexOK
<1>7. Agree(D)'
  <2>1. \A e \in DirIds : listing'[e] # None => \A m \in listing'[e] : Fits(m, lastId, D)
    BY <1>0, <1>3, AgreeIs
  <2> QED
    BY <1>0, <1>1, <1>2, <1>5, <2>1, SameIds, AgreeIs, NoneIsNoId
<1>8. Counts'
  BY <1>0, <1>1, BoundAssumption DEF Counts
<1>9. CloudOK' /\ Down' /\ OpInv' /\ AskInv'
  <2>1. Down' /\ AskInv'
    BY <1>0, <1>1, <1>2, <1>3, AskStays DEF Down, Kids
  <2> QED
    BY <1>0, <1>1, <1>2, <2>1 DEF CloudOK, OpInv
<1> QED
  BY <1>6, <1>7, <1>8, <1>9 DEF NsInv

LEMMA ForgetKeeps ==
  ASSUME NEW D \in SUBSET Ids, NsInv(D), root # None, ask = None, op = None, NEW p \in DOMAIN path_map,
         Forget(p), changes' \in 0..MaxChanges
  PROVE  NsInv(D)'
<1>0. CloudOK /\ IndexOK /\ OpInv /\ AskInv /\ Down /\ Counts /\ Agree(D)
  BY DEF NsInv
<1>1. /\ RemoveEntry(p) /\ loose' = loose \cup {Front(p)}
      /\ UNCHANGED <<server, root, loading, ask, op, errors>>
  BY DEF Forget
<1>2. loose' \subseteq Path /\ root' = root /\ op' = op /\ lastId' = lastId /\ cloud' = cloud
      /\ listing' = listing
  BY <1>0, <1>1, FrontLast DEF IndexOK, server, loading
<1>3. /\ IndexOK'
      /\ \A q \in DOMAIN path_map' : Fits(path_map'[q], lastId, D)
      /\ \A d \in DirIds : \A c \in Kids(d)' : Fits(c, lastId, D)
  BY <1>0, <1>1, <1>2, RemoveEntryKeeps
<1>4. Agree(D)'
  BY <1>0, <1>2, <1>3, SameIds, AgreeIs, NoneIsNoId
<1>5. CloudOK' /\ OpInv' /\ AskInv' /\ Down' /\ Counts'
  BY <1>0, <1>1, <1>2 DEF CloudOK, OpInv, AskInv, Down, Counts
<1> QED
  BY <1>3, <1>4, <1>5 DEF NsInv

LEMMA FlushKeeps ==
  ASSUME NEW D \in SUBSET Ids, NsInv(D), NEW p \in DOMAIN path_map, Flush(p)
  PROVE  /\ NsInv(D)' /\ DOMAIN path_map' = DOMAIN path_map
         /\ \A q \in DOMAIN path_map : path_map'[q].id = path_map[q].id
<1>0. CloudOK /\ IndexOK /\ OpInv /\ AskInv /\ Down /\ Counts /\ Agree(D)
  BY DEF NsInv
<1>1. /\ UpdateMeta(p) /\ changes < MaxChanges /\ changes' = changes + 1
      /\ UNCHANGED <<server, root, loading, ask, op, loose, errors>>
  BY DEF Flush
<1>2. loose' \subseteq Path /\ root' = root /\ ask' = ask /\ op' = op /\ lastId' = lastId
      /\ cloud' = cloud /\ listing' = listing
  BY <1>0, <1>1 DEF IndexOK, server, loading
<1>3. /\ IndexOK'
      /\ DOMAIN path_map' = DOMAIN path_map
      /\ \A q \in DOMAIN path_map : path_map'[q].id = path_map[q].id
      /\ \A q \in DOMAIN path_map' : Fits(path_map'[q], lastId, D)
      /\ \A d \in DirIds : \A c \in Kids(d)' : Fits(c, lastId, D)
  BY <1>0, <1>1, <1>2, UpdateMetaKeeps
<1>4. Agree(D)'
  BY <1>0, <1>2, <1>3, SameIds, AgreeIs, NoneIsNoId
<1>5. CloudOK' /\ OpInv' /\ AskInv'
  BY <1>0, <1>2, <1>3, AskStays DEF CloudOK, OpInv
<1>6. root # None
  BY <1>0 DEF Down
<1>7. Down'
  BY <1>2, <1>6 DEF Down
<1>8. Counts'
  BY <1>0, <1>1, BoundAssumption DEF Counts
<1> QED
  BY <1>3, <1>4, <1>5, <1>7, <1>8 DEF NsInv

\* Where the answer of a rename puts the entry.
LEMMA MoveTarget ==
  ASSUME IndexOK, OpInv, Down, op # None, op.kind = "move"
  PROVE  /\ op.path \in DOMAIN path_map /\ op.path \in Path
         /\ op.to \in Path /\ op.to # << >> /\ DirAt(Front(op.to)) \in DirIds
<1>1. op.to \in Path /\ op.to # << >> /\ Front(op.to) \in {<< >>} \cup DOMAIN path_map
      /\ op.path \in DOMAIN path_map /\ op.path \in Path /\ root # None
  BY DEF OpInv, Down
<1>2. CASE Front(op.to) = << >>
  BY <1>1, <1>2 DEF DirAt, IndexOK
<1>3. CASE Front(op.to) # << >>
  <2>1. path_map[Front(op.to)] \in Entry
    BY <1>1, <1>3 DEF IndexOK
  <2> QED
    BY <1>1, <1>3, <2>1 DEF DirAt, Entry, DirIds
<1> QED
  BY <1>1, <1>2, <1>3

LEMMA FinishKeeps ==
  ASSUME NEW D \in SUBSET Ids, NsInv(D), Finish
  PROVE  NsInv(D)'
<1>0. CloudOK /\ IndexOK /\ OpInv /\ AskInv /\ Down /\ Counts /\ Agree(D)
  BY DEF NsInv
<1>1. /\ op # None /\ op' = None
      /\ op.kind = "add" => AddEntry(op.path, op.meta)
      /\ op.kind = "remove" => RemoveEntry(op.path)
      /\ op.kind = "move" => MoveEntry(op.path, op.to)
      /\ loose' \in {loose, loose \cup Ends(op)}
      /\ UNCHANGED <<server, root, loading, ask, changes, errors>>
  BY DEF Finish
<1>2. /\ op.kind \in {"add", "remove", "move"} /\ op.path \in Path /\ op.path # << >>
      /\ op.kind = "add" => op.meta \in Entry
      /\ op.kind # "add" => op.path \in DOMAIN path_map
      /\ op.kind = "move" => op.to \in Path /\ op.to # << >>
      /\ root # None
  BY <1>0, <1>1 DEF OpInv, Down
<1>3. loose' \subseteq Path
  BY <1>0, <1>1, <1>2 DEF IndexOK, Ends
<1>4. UNCHANGED <<root, loading>> /\ root' = root /\ listing' = listing /\ loaded' = loaded
      /\ cloud' = cloud /\ lastId' = lastId
  BY <1>1 DEF loading, server
<1>5. /\ IndexOK'
      /\ \A q \in DOMAIN path_map' : Fits(path_map'[q], lastId, D)
      /\ \A d \in DirIds : \A c \in Kids(d)' : Fits(c, lastId, D)
  <2>1. CASE op.kind = "add"
    <3>1. Fits(op.meta, lastId, D)
      BY <1>0, <1>1, <2>1, AgreeIs
    <3> QED
      BY <1>0, <1>1, <1>2, <1>3, <1>4, <2>1, <3>1, AddEntryKeeps
  <2>2. CASE op.kind = "remove"
    BY <1>0, <1>1, <1>2, <1>3, <1>4, <2>2, RemoveEntryKeeps
  <2>3. CASE op.kind = "move"
    <3>1. DirAt(Front(op.to)) \in DirIds
      BY <1>0, <1>1, <2>3, MoveTarget
    <3> QED
      BY <1>0, <1>1, <1>2, <1>3, <1>4, <2>3, <3>1, MoveEntryKeeps
  <2> QED
    BY <1>2, <2>1, <2>2, <2>3
<1>6. Agree(D)'
  BY <1>0, <1>1, <1>4, <1>5, SameIds, AgreeIs, NoneIsNoId
<1>7. CloudOK' /\ OpInv' /\ AskInv' /\ Down' /\ Counts'
  BY <1>0, <1>1, <1>2, <1>4 DEF CloudOK, OpInv, AskInv, Down, Counts
<1> QED
  BY <1>5, <1>6, <1>7 DEF NsInv

LEMMA AnswerLostKeeps ==
  ASSUME NEW D \in SUBSET Ids, NsInv(D), AnswerLost
  PROVE  NsInv(D)'
<1>0. CloudOK /\ IndexOK /\ OpInv /\ AskInv /\ Down /\ Counts /\ Agree(D)
  BY DEF NsInv
<1>1. /\ op # None /\ op' = None /\ errors < MaxErrors /\ errors' = errors + 1
      /\ loose' = loose \cup op.dirs
      /\ UNCHANGED <<server, root, index, loading, ask, changes>>
  BY DEF AnswerLost
<1>2. op.dirs \subseteq Path /\ root # None
  BY <1>0, <1>1 DEF OpInv, Down
<1>3. IndexOK'
  <2>1. loose' \subseteq Path
    BY <1>0, <1>1, <1>2 DEF IndexOK
  <2> QED
    BY <1>0, <1>1, <2>1, IndexStays
<1>4. Agree(D)'
  <2>1. \A d \in DirIds : Kids(d)' = Kids(d)
    BY <1>1 DEF Kids, index
  <2>2. path_map' = path_map /\ listing' = listing /\ cloud' = cloud /\ lastId' = lastId
    BY <1>1 DEF index, loading, server
  <2> QED
    BY <1>0, <1>1, <2>1, <2>2, SameIds, AgreeIs, NoneIsNoId
<1>5. CloudOK' /\ OpInv' /\ AskInv' /\ Down'
  BY <1>0, <1>1, <1>2 DEF CloudOK, OpInv, AskInv, Down, server
<1>6. Counts'
  BY <1>0, <1>1, BoundAssumption DEF Counts
<1> QED
  BY <1>3, <1>4, <1>5, <1>6 DEF NsInv

\* The steps that change the tree of Drive Kit or edit the maps, by their names.
LEMMA NsSteps ==
  ASSUME NsNext, Down
  PROVE  /\ root # None
         /\ \/ \E p \in Path : \E isDir \in BOOLEAN :
                 p # << >> /\ Add(p, isDir) /\ ask = None /\ op = None
                 /\ changes < MaxChanges /\ changes' = changes + 1
            \/ \E p \in DOMAIN path_map :
                 Delete(p) /\ ask = None /\ op = None /\ (path_map[p].dir => ListDir(p) = {})
                 /\ changes < MaxChanges /\ changes' = changes + 1
            \/ \E p \in DOMAIN path_map :
                 Forget(p) /\ ask = None /\ op = None
                 /\ changes < MaxChanges /\ changes' = changes + 1
            \/ \E p \in DOMAIN path_map : \E q \in Path :
                 q # << >> /\ Rename(p, q) /\ ask = None /\ op = None
                 /\ changes < MaxChanges /\ changes' = changes + 1
            \/ ServeAdd
            \/ ServeRemove
            \/ ServeMove
            \/ RequestFails
            \/ Finish
            \/ AnswerLost
            \/ \E p \in DOMAIN path_map : Flush(p)
            \/ \E d \in DirIds : Fetch(d)
            \/ \E d \in DirIds : FetchFails(d)
            \/ \E d \in DirIds : Merge(d)
<1>1. CASE Change
  <2>1. root # None /\ ask = None /\ op = None /\ changes < MaxChanges /\ changes' = changes + 1
    BY <1>1 DEF Change
  <2>2. \/ \E p \in Paths : Create(p) \/ Mkdir(p)
        \/ \E p \in DOMAIN path_map : Unlink(p) \/ Forget(p) \/ Rmdir(p) \/ \E q \in Paths : Rename(p, q)
    BY <1>1 DEF Change
  <2>3. ASSUME NEW p \in Paths, Create(p) \/ Mkdir(p)
        PROVE  p \in Path /\ p # << >> /\ \E isDir \in BOOLEAN : Add(p, isDir)
    BY <2>3, PathsIs DEF Create, Mkdir
  <2>4. ASSUME NEW p \in DOMAIN path_map, Unlink(p) \/ Rmdir(p)
        PROVE  Delete(p) /\ (path_map[p].dir => ListDir(p) = {})
    BY <2>4 DEF Unlink, Rmdir, MayRemove
  <2>5. ASSUME NEW q \in Paths PROVE q \in Path /\ q # << >>
    BY PathsIs
  <2> QED
    BY <2>1, <2>2, <2>3, <2>4, <2>5
<1>2. CASE Answer
  <2>1. root # None
    BY <1>2 DEF Answer, ServeAdd, ServeRemove, ServeMove, RequestFails, Finish, AnswerLost, Down
  <2> QED
    BY <1>2, <2>1 DEF Answer
<1>3. CASE \E p \in DOMAIN path_map : Flush(p)
  BY <1>3 DEF Down
<1>4. CASE Load
  BY <1>4 DEF Load, Fetch, FetchFails, Merge, Down
<1> QED
  BY <1>1, <1>2, <1>3, <1>4 DEF NsNext

-----------------------------------------------------------------------------
(* The folder that is mounted.                                               *)

\* The folders that a look-up by name may find.
Named(tree) == NamedFolders(Contents(tree, Top))

StartOK ==
  /\ mode \in Modes
  /\ phase \in {"down", "discover", "lookup", "create", "mounted"}
  /\ phase = "mounted" <=> root # None
  /\ base \in {None, Top, Keyword}
  /\ phase \in {"lookup", "create"} => mode = "name" /\ base # None
  /\ page \in Nat /\ starts \in 0..MaxStarts
  /\ first \in Ids \cup {None, Top}

\* The folders that the mount may be at are folders.
Given(D) ==
  /\ first \in Ids => first \in D
  /\ mode = "id" => GivenId \in D

FirstInv ==
  /\ root # None => Real(root) = first
  /\ mode = "container" => first \in {None, Top}
  /\ mode = "id" => first \in {None, GivenId}

NamedInv ==
  mode = "name" =>
    /\ \A m, n \in Named(cloud) : m = n
    /\ first # None => \E r \in Named(cloud) : r.id = first
    /\ root # None => root = first /\ root \in Ids
    /\ \A p \in DOMAIN path_map : path_map[p].id # first
    /\ \A d \in DirIds : listing[d] # None => \A m \in listing[d] : m.id # first
    /\ op # None /\ op.kind = "add" => op.meta.id # first
    /\ ask # None /\ ask.kind # "remove" => ask.parent \in Ids
    /\ ask # None /\ ask.kind # "add" => ask.id # first
    /\ phase = "lookup" =>
         page > 0 /\ \A m \in Named(cloud) : (page - 1) * PageSize <= Rank(m)
    /\ phase = "create" => Named(cloud) = {}

MountInv == StartOK /\ FirstInv /\ NamedInv /\ \E D \in SUBSET Ids : NsInv(D) /\ Given(D)

\* A create, a delete and a rename below the mounted folder leave the entries of
\* that name where they are.
LEMMA PostElsewhere ==
  ASSUME CloudOK, NEW m \in Entry, PostEntry(m), m.parent \in Ids
  PROVE  Named(cloud') = Named(cloud)
<1> DEFINE n == [m EXCEPT !.parent = Real(m.parent)]
<1>1. n.parent = Real(m.parent) /\ cloud' = cloud \cup {n}
  BY DEF Entry, PostEntry
<1>2. Real(m.parent) = m.parent /\ m.parent # Top
  BY SentinelAssumption, BoundAssumption DEF Real, Ids, Top
<1>3. Real(Top) = Top
  BY SentinelAssumption DEF Real, Top
<1> HIDE DEF n
<1> QED
  BY <1>1, <1>2, <1>3 DEF Named, NamedFolders, Contents

LEMMA DeleteElsewhere ==
  ASSUME CloudOK, NEW r \in cloud, r.parent = Top, NEW i \in Ids, i # r.id, DeleteEntry(i),
         \A m \in Named(cloud) : m = r
  PROVE  r \in cloud' /\ \A m \in Named(cloud') : m = r
<1>1. cloud' = {e \in cloud : e.id \notin Inside(cloud, i)}
  BY DEF DeleteEntry
<1>2. ClosedUnder(cloud, Ids \ {r.id})
  <2>1. \A m \in cloud : m.id = r.id => m = r
    BY DEF CloudOK, WellFormed
  <2>2. Top \notin Ids /\ \A m \in cloud : m.id \in Ids
    BY DEF Top, Ids, CloudOK
  <2> QED
    BY <2>1, <2>2 DEF ClosedUnder
<1>3. r.id \notin Inside(cloud, i)
  BY <1>2, InsideLeast
<1> QED
  BY <1>1, <1>3 DEF Named, NamedFolders, Contents

LEMMA PatchElsewhere ==
  ASSUME CloudOK, NEW r \in cloud, NEW i \in Ids, i # r.id, NEW name \in Names, NEW d \in Ids,
         PatchEntry(i, name, d), \A m \in Named(cloud) : m = r
  PROVE  r \in cloud' /\ \A m \in Named(cloud') : m = r
<1>0. d \in DirIds /\ Real(d) = d /\ d # Top /\ Real(Top) = Top
  BY SentinelAssumption, BoundAssumption DEF DirIds, Real, Ids, Top
<1>1. cloud' = {Patched(e, i, name, d) : e \in cloud}
  BY DEF PatchEntry, Patched
<1>2. Patched(r, i, name, d) = r
  BY DEF Patched
<1>3. ASSUME NEW m \in Named(cloud') PROVE m = r
  <2>1. PICK e \in cloud : m = Patched(e, i, name, d)
    BY <1>1 DEF Named, NamedFolders, Contents
  <2>2. m.parent = Top /\ m.name = Folder /\ m.dir
    BY <1>0 DEF Named, NamedFolders, Contents
  <2>3. e.id # i /\ m = e
    BY <1>0, <2>1, <2>2, PatchedIs
  <2>4. e \in Named(cloud)
    BY <1>0, <2>2, <2>3 DEF Named, NamedFolders, Contents
  <2> QED
    BY <2>3, <2>4
<1> QED
  BY <1>1, <1>2, <1>3

\* No operation touches the mounted folder's own entry.
LEMMA NamedKeeps ==
  ASSUME NEW D \in SUBSET Ids, NsInv(D), Given(D), StartOK, FirstInv, NamedInv, mode = "name",
         NsNext, UNCHANGED <<mode, startVars>>
  PROVE  NamedInv'
<1>0. CloudOK /\ IndexOK /\ OpInv /\ AskInv /\ Down /\ Counts /\ Agree(D)
  BY DEF NsInv
<1>1. root # None /\ root = first /\ root \in Ids /\ phase = "mounted" /\ first \in Ids
      /\ mode' = mode /\ phase' = phase /\ first' = first
  BY <1>0, NsSteps DEF NamedInv, StartOK, startVars
<1>2. PICK r \in Named(cloud) : r.id = first
  BY <1>1, NoneIsNoId DEF NamedInv
<1>3. r \in cloud /\ r.parent = Top /\ \A m \in Named(cloud) : m = r
  <2>1. Real(Top) = Top
    BY SentinelAssumption DEF Real, Top
  <2> QED
    BY <1>2, <2>1 DEF Named, NamedFolders, Contents, NamedInv
<1>4. /\ \A p \in DOMAIN path_map : path_map[p].id # first /\ path_map[p].id \in Ids
      /\ \A d \in DirIds : listing[d] # None => \A m \in listing[d] : m.id # first
      /\ op # None /\ op.kind = "add" => op.meta.id # first
      /\ ask # None /\ ask.kind # "remove" => ask.parent \in Ids
      /\ ask # None /\ ask.kind # "add" => ask.id # first
  BY <1>0 DEF NamedInv, IndexOK, Entry
<1> DEFINE A == r \in Named(cloud') /\ \A m \in Named(cloud') : m = r
           B == \A p \in DOMAIN path_map' : path_map'[p].id # first
           C == \A d \in DirIds : listing'[d] # None => \A m \in listing'[d] : m.id # first
           O == op' # None /\ op'.kind = "add" => op'.meta.id # first
           R == /\ ask' # None /\ ask'.kind # "remove" => ask'.parent \in Ids
                /\ ask' # None /\ ask'.kind # "add" => ask'.id # first
<1> SUFFICES ASSUME TRUE PROVE A /\ B /\ C /\ O /\ R /\ root' = root
  <2>1. phase' # "lookup" /\ phase' # "create"
    BY <1>1
  <2> QED
    BY <1>1, <1>2, <2>1 DEF NamedInv
<1>5. ASSUME cloud' = cloud PROVE A
  BY <1>2, <1>3, <1>5
<1>6. ASSUME UNCHANGED index PROVE B
  BY <1>4, <1>6 DEF index
<1>7. ASSUME UNCHANGED loading PROVE C
  BY <1>4, <1>7 DEF loading
<1>8. ASSUME NEW p, IsDir(p) PROVE DirAt(p) \in Ids
  BY <1>0, <1>1, <1>8, DirAtIs DEF DirAt
<1>9. ASSUME NEW e \in cloud', e = r, r.id = first PROVE r \in Named(cloud')
  BY <1>2, <1>9 DEF Named, NamedFolders, Contents
<1>10. ASSUME \E x : Ask(x) PROVE op = None => A /\ B /\ C /\ O /\ root' = root
  BY <1>5, <1>6, <1>7, <1>10 DEF Ask, server
<1>11. ASSUME NEW p \in Path, NEW isDir \in BOOLEAN, p # << >>, Add(p, isDir), op = None
       PROVE  A /\ B /\ C /\ O /\ R /\ root' = root
  <2>1. ask'.kind = "add" /\ ask'.parent = DirAt(Front(p)) /\ \E x : Ask(x)
    BY <1>0, <1>1, <1>11, AddAsks
  <2>2. IsDir(Front(p))
    BY <1>11, FrontLast, WalkedIs DEF Add
  <2>3. R
    BY <1>8, <2>1, <2>2
  <2>4. A /\ B /\ C /\ O /\ root' = root
    BY <1>10, <1>11, <2>1
  <2> QED
    BY <2>3, <2>4
<1>12. ASSUME NEW p \in DOMAIN path_map, Delete(p), op = None
       PROVE  A /\ B /\ C /\ O /\ R /\ root' = root
  <2>1. ask'.kind = "remove" /\ ask'.id = path_map[p].id /\ \E x : Ask(x)
    BY <1>0, <1>12, DeleteAsks
  <2>2. A /\ B /\ C /\ O /\ root' = root
    BY <1>10, <1>12, <2>1
  <2> QED
    BY <1>4, <2>1, <2>2
<1>13. ASSUME NEW p \in DOMAIN path_map, NEW q \in Path, q # << >>, Rename(p, q), op = None
       PROVE  A /\ B /\ C /\ O /\ R /\ root' = root
  <2>1. /\ ask'.kind = "move" /\ ask'.id = path_map[p].id
        /\ ask'.parent = DirAt(Front(q)) /\ \E x : Ask(x)
    BY <1>0, <1>1, <1>13, RenameAsks
  <2>2. IsDir(Front(q))
    BY <1>13, FrontLast, WalkedIs DEF Rename
  <2>3. R
    BY <1>4, <1>8, <2>1, <2>2
  <2>4. A /\ B /\ C /\ O /\ root' = root
    BY <1>10, <1>13, <2>1
  <2> QED
    BY <2>3, <2>4
<1>14. ASSUME ServeAdd PROVE A /\ B /\ C /\ O /\ R /\ root' = root
  <2>1. PICK m : m = NewMeta(ask)
    OBVIOUS
  <2>2. /\ ask # None /\ ask.kind = "add" /\ PostEntry(m) /\ ask' = None
        /\ op' = [kind |-> "add", path |-> ask.path, meta |-> m, dirs |-> ask.dirs]
        /\ UNCHANGED <<root, index, loading>>
    BY <1>14, <2>1 DEF ServeAdd, Served
  <2>3. m.id = lastId + 1 /\ m.id <= MaxId /\ m.parent = ask.parent
    BY <2>1, <2>2 DEF NewMeta, PostEntry
  <2>4. m \in Entry
    BY <1>0, <2>1, <2>2, <2>3, NewMetaIs
  <2>5. m.parent \in Ids
    BY <1>4, <2>2, <2>3
  <2>6. Named(cloud') = Named(cloud)
    BY <1>0, <2>2, <2>4, <2>5, PostElsewhere
  <2>7. m.id # first
    <3>1. first <= lastId
      BY <1>0, <1>1 DEF Given, Agree
    <3>2. lastId \in Nat /\ first \in Nat
      BY <1>0, <1>1, BoundAssumption DEF CloudOK, Ids
    <3> QED
      BY <2>3, <3>1, <3>2
  <2>8. op'.meta = m
    BY <2>2
  <2> QED
    BY <1>2, <1>3, <1>6, <1>7, <2>2, <2>6, <2>7, <2>8
<1>15. ASSUME ServeRemove PROVE A /\ B /\ C /\ O /\ R /\ root' = root
  <2>1. /\ ask # None /\ ask.kind = "remove" /\ DeleteEntry(ask.id) /\ ask' = None
        /\ op' = [kind |-> "remove", path |-> ask.path, dirs |-> ask.dirs]
        /\ UNCHANGED <<root, index, loading>>
    BY <1>15 DEF ServeRemove, Served
  <2>2. ask.id \in Ids /\ ask.id # r.id
    BY <1>0, <1>2, <1>4, <2>1 DEF AskInv
  <2>3. r \in cloud' /\ \A m \in Named(cloud') : m = r
    BY <1>0, <1>3, <2>1, <2>2, DeleteElsewhere
  <2>4. op'.kind = "remove"
    BY <2>1
  <2> QED
    BY <1>2, <1>6, <1>7, <1>9, <2>1, <2>3, <2>4
<1>16. ASSUME ServeMove PROVE A /\ B /\ C /\ O /\ R /\ root' = root
  <2>1. /\ ask # None /\ ask.kind = "move" /\ PatchEntry(ask.id, Last(ask.to), ask.parent)
        /\ ask' = None
        /\ op' = [kind |-> "move", path |-> ask.path, to |-> ask.to, dirs |-> ask.dirs]
        /\ UNCHANGED <<root, index, loading>>
    BY <1>16 DEF ServeMove, Served
  <2>2. ask.id \in Ids /\ ask.id # r.id /\ ask.parent \in Ids /\ Last(ask.to) \in Names
    BY <1>0, <1>2, <1>4, <2>1, FrontLast DEF AskInv
  <2>3. r \in cloud' /\ \A m \in Named(cloud') : m = r
    BY <1>0, <1>3, <2>1, <2>2, PatchElsewhere
  <2>4. op'.kind = "move"
    BY <2>1
  <2> QED
    BY <1>2, <1>6, <1>7, <1>9, <2>1, <2>3, <2>4
<1>17. ASSUME RequestFails PROVE A /\ B /\ C /\ O /\ R /\ root' = root
  BY <1>4, <1>5, <1>6, <1>7, <1>17 DEF RequestFails, server
<1>18. ASSUME NEW p \in DOMAIN path_map, Forget(p) PROVE A /\ B /\ C /\ O /\ R /\ root' = root
  <2>1. RemoveEntry(p) /\ UNCHANGED <<server, root, loading, ask, op>>
    BY <1>18 DEF Forget
  <2>2. B
    BY <1>0, <1>4, <2>1, RemoveEntryIs
  <2> QED
    BY <1>4, <1>5, <1>7, <2>1, <2>2 DEF server
<1>19. ASSUME NEW p \in DOMAIN path_map, Flush(p) PROVE A /\ B /\ C /\ O /\ R /\ root' = root
  <2>1. UNCHANGED <<server, root, loading, ask, op>>
    BY <1>19 DEF Flush
  <2>2. B
    BY <1>4, <1>19, FlushKeeps
  <2> QED
    BY <1>4, <1>5, <1>7, <2>1, <2>2 DEF server
<1>20. ASSUME Finish PROVE A /\ B /\ C /\ O /\ R /\ root' = root
  <2>1. /\ op # None /\ op' = None
        /\ op.kind = "add" => AddEntry(op.path, op.meta)
        /\ op.kind = "remove" => RemoveEntry(op.path)
        /\ op.kind = "move" => MoveEntry(op.path, op.to)
        /\ UNCHANGED <<server, root, loading, ask>>
    BY <1>20 DEF Finish
  <2>2. op.kind \in {"add", "remove", "move"} /\ (op.kind = "add" => op.meta \in Entry)
        /\ (op.kind # "add" => op.path \in DOMAIN path_map)
    BY <1>0, <2>1 DEF OpInv
  <2>3. CASE op.kind = "add"
    <3>1. op.meta.parent \in DirIds
      BY <2>2, <2>3 DEF Entry
    <3>2. /\ DOMAIN path_map' = DOMAIN path_map \cup {op.path} /\ path_map'[op.path] = op.meta
          /\ \A q \in DOMAIN path_map : q # op.path => path_map'[q] = path_map[q]
      <4>1. AddEntry(op.path, op.meta)
        BY <2>1, <2>3
      <4>2. PICK p, m : p = op.path /\ m = op.meta
        OBVIOUS
      <4>3. /\ DOMAIN path_map' = DOMAIN path_map \cup {p} /\ path_map'[p] = m
            /\ \A q \in DOMAIN path_map : q # p => path_map'[q] = path_map[q]
        BY <4>1, <4>2 DEF AddEntry, With, Updated
      <4> QED
        BY <4>2, <4>3
    <3>3. B
      BY <1>4, <2>1, <2>3, <3>2
    <3> QED
      BY <1>4, <1>5, <1>7, <2>1, <3>3 DEF server
  <2>4. CASE op.kind = "remove"
    <3>1. /\ DOMAIN path_map' = DOMAIN path_map \ {op.path}
          /\ \A q \in DOMAIN path_map' : path_map'[q] = path_map[q]
      BY <1>0, <2>1, <2>2, <2>4, RemoveEntryIs
    <3> QED
      BY <1>4, <1>5, <1>7, <2>1, <3>1 DEF server
  <2>5. CASE op.kind = "move"
    <3>1. op.path \in DOMAIN path_map /\ op.to \in Path /\ op.to # << >> /\ DirAt(Front(op.to)) \in DirIds
      BY <1>0, <2>1, <2>5, MoveTarget
    <3>2. /\ DOMAIN path_map' = (DOMAIN path_map \ {op.path}) \cup {op.to}
          /\ path_map'[op.to] = Moved(op.path, op.to)
          /\ \A q \in DOMAIN path_map \ {op.path} : q # op.to => path_map'[q] = path_map[q]
      BY <1>0, <2>1, <2>5, <3>1, MoveEntryIs
    <3>3. Moved(op.path, op.to).id = path_map[op.path].id
      BY <1>0, <3>1, MovedIs
    <3>4. B
      BY <1>4, <3>1, <3>2, <3>3
    <3> QED
      BY <1>4, <1>5, <1>7, <2>1, <3>4 DEF server
  <2> QED
    BY <2>2, <2>3, <2>4, <2>5
<1>21. ASSUME AnswerLost PROVE A /\ B /\ C /\ O /\ R /\ root' = root
  BY <1>4, <1>5, <1>6, <1>7, <1>21 DEF AnswerLost, server
<1>22. ASSUME NEW d \in DirIds, Fetch(d) PROVE A /\ B /\ C /\ O /\ R /\ root' = root
  <2>1. UNCHANGED <<server, root, index, ask, op>> /\ d \in Known
        /\ listing' = [listing EXCEPT ![d] = Contents(cloud, d)]
    BY <1>22 DEF Fetch, ListFiles
  <2>2. d \in Ids
    <3>1. \A e \in DirIds : \A c \in Kids(e) : c.id \in Ids
      BY <1>0 DEF IndexOK, Entry
    <3> QED
      BY <1>1, <2>1, <3>1 DEF Known
  <2>3. \A m \in Contents(cloud, d) : m.id # first
    <3>1. Real(d) = d /\ d # Top
      BY <2>2, SentinelAssumption, BoundAssumption DEF Real, Ids, Top
    <3>2. \A m \in cloud : m.id = first => m = r
      BY <1>0, <1>2, <1>3 DEF CloudOK, WellFormed
    <3> QED
      BY <1>3, <3>1, <3>2 DEF Contents
  <2>4. C
    BY <1>0, <1>4, <2>1, <2>3 DEF IndexOK
  <2> QED
    BY <1>4, <1>5, <1>6, <2>1, <2>4 DEF server
<1>23. ASSUME NEW d \in DirIds, FetchFails(d) PROVE A /\ B /\ C /\ O /\ R /\ root' = root
  <2>1. UNCHANGED <<server, root, index, ask, op>> /\ listing' = [listing EXCEPT ![d] = None]
    BY <1>23 DEF FetchFails
  <2>2. C
    BY <1>0, <1>4, <2>1 DEF IndexOK
  <2> QED
    BY <1>4, <1>5, <1>6, <2>1, <2>2 DEF server
<1>24. ASSUME NEW d \in DirIds, Merge(d) PROVE A /\ B /\ C /\ O /\ R /\ root' = root
  <2> DEFINE kept == Placed(d)
             at == PathTo(d)
  <2>1. /\ kept \subseteq listing[d] /\ listing[d] # None /\ listing' = [listing EXCEPT ![d] = None]
        /\ UNCHANGED <<server, root, ask, op>>
    BY <1>0, <1>24, MergeIs
  <2>2. \A p \in DOMAIN path_map' :
              \/ \E m \in kept : p = Append(at, m.name) /\ path_map'[p] = m
              \/ /\ p \in DOMAIN path_map /\ path_map'[p] = path_map[p]
                 /\ \A m \in kept : p # Append(at, m.name)
    BY <1>0, <1>24, MergeIs
  <2> HIDE DEF kept, at
  <2>3. B
    BY <1>4, <1>24, <2>1, <2>2
  <2>4. C
    BY <1>0, <1>4, <2>1 DEF IndexOK
  <2> QED
    BY <1>4, <1>5, <2>1, <2>3, <2>4 DEF server
<1> QED
  BY <1>0, <1>11, <1>12, <1>13, <1>18, <1>19, <1>20, <1>21, <1>22, <1>23, <1>24, <1>14, <1>15,
     <1>16, <1>17, NsSteps

LEMMA NsRoot ==
  ASSUME NsNext, Down
  PROVE  root # None /\ root' = root
<1>1. root # None
  BY NsSteps
<1>2. \/ \E p \in Path : \E isDir \in BOOLEAN : Add(p, isDir)
      \/ \E p \in DOMAIN path_map : Delete(p)
      \/ \E p \in DOMAIN path_map : Forget(p)
      \/ \E p \in DOMAIN path_map : \E q \in Path : Rename(p, q)
      \/ ServeAdd \/ ServeRemove \/ ServeMove \/ RequestFails \/ Finish \/ AnswerLost
      \/ \E p \in DOMAIN path_map : Flush(p)
      \/ \E d \in DirIds : Fetch(d) \/ FetchFails(d) \/ Merge(d)
  BY NsSteps
<1>3. CASE \/ \E p \in Path : \E isDir \in BOOLEAN : Add(p, isDir)
           \/ \E p \in DOMAIN path_map : Delete(p)
           \/ \E p \in DOMAIN path_map : \E q \in Path : Rename(p, q)
  BY <1>1, <1>3 DEF Add, Delete, Rename, Ask
<1>4. CASE ServeAdd \/ ServeRemove \/ ServeMove \/ RequestFails \/ Finish \/ AnswerLost
  BY <1>1, <1>4 DEF ServeAdd, ServeRemove, ServeMove, Served, RequestFails, Finish, AnswerLost
<1> QED
  BY <1>1, <1>2, <1>3, <1>4 DEF Forget, Flush, Fetch, FetchFails, Merge

LEMMA NsInvKeeps ==
  ASSUME NEW D \in SUBSET Ids, NsInv(D), NsNext
  PROVE  \E E \in SUBSET Ids : D \subseteq E /\ NsInv(E)'
<1>1. CloudOK /\ IndexOK /\ Down /\ Counts /\ Agree(D) /\ root # None
  BY NsRoot DEF NsInv
<1>2. changes < MaxChanges /\ changes' = changes + 1 => changes' \in 0..MaxChanges
  BY <1>1, BoundAssumption DEF Counts
<1>3. ASSUME NEW p \in Path, NEW isDir \in BOOLEAN, p # << >>, Add(p, isDir), op = None,
             changes' \in 0..MaxChanges
      PROVE  NsInv(D)'
  BY <1>1, <1>3, AddAsks, LookUpKeeps
<1>4. ASSUME NEW p \in DOMAIN path_map, Delete(p), op = None, changes' \in 0..MaxChanges
      PROVE  NsInv(D)'
  BY <1>1, <1>4, DeleteAsks, LookUpKeeps
<1>5. ASSUME NEW p \in DOMAIN path_map, Forget(p), ask = None, op = None, changes' \in 0..MaxChanges
      PROVE  NsInv(D)'
  BY <1>1, <1>5, ForgetKeeps
<1>6. ASSUME NEW p \in DOMAIN path_map, NEW q \in Path, q # << >>, Rename(p, q), op = None,
             changes' \in 0..MaxChanges
      PROVE  NsInv(D)'
  BY <1>1, <1>6, RenameAsks, LookUpKeeps
<1>7. ASSUME NEW p \in DOMAIN path_map, Flush(p) PROVE NsInv(D)'
  BY <1>7, FlushKeeps
<1>8. ASSUME NEW d \in DirIds, Fetch(d) PROVE NsInv(D)'
  BY <1>8, FetchKeeps
<1>9. ASSUME NEW d \in DirIds, FetchFails(d) PROVE NsInv(D)'
  BY <1>9, FetchFailsKeeps
<1>10. ASSUME NEW d \in DirIds, Merge(d) PROVE NsInv(D)'
  BY <1>1, <1>10, MergeStepKeeps
<1>11. ServeRemove \/ ServeMove \/ RequestFails \/ Finish \/ AnswerLost => NsInv(D)'
  BY ServeRemoveKeeps, ServeMoveKeeps, RequestFailsKeeps, FinishKeeps, AnswerLostKeeps
<1>12. NsInv(D)' => \E E \in SUBSET Ids : D \subseteq E /\ NsInv(E)'
  OBVIOUS
<1>13. ServeAdd => \E E \in SUBSET Ids : D \subseteq E /\ NsInv(E)'
  BY ServeAddKeeps
<1> QED
  BY <1>1, <1>2, <1>3, <1>4, <1>5, <1>6, <1>7, <1>8, <1>9, <1>10, <1>11, <1>12, <1>13, NsSteps

LEMMA OperationsKeep ==
  ASSUME MountInv, NsNext, UNCHANGED <<mode, startVars>>
  PROVE  MountInv'
<1>1. PICK D \in SUBSET Ids : NsInv(D) /\ Given(D)
  BY DEF MountInv
<1>2. PICK E \in SUBSET Ids : D \subseteq E /\ NsInv(E)'
  BY <1>1, NsInvKeeps
<1>3. Given(E)'
  BY <1>1, <1>2 DEF Given, startVars
<1>4. root' = root
  BY <1>1, NsRoot DEF NsInv
<1>5. StartOK' /\ FirstInv'
  BY <1>4 DEF MountInv, StartOK, FirstInv, startVars
<1>6. NamedInv'
  <2>1. CASE mode = "name"
    BY <1>1, <2>1, NamedKeeps DEF MountInv
  <2>2. CASE mode # "name"
    BY <2>2 DEF NamedInv
  <2> QED
    BY <2>1, <2>2
<1> QED
  BY <1>2, <1>3, <1>5, <1>6 DEF MountInv

-----------------------------------------------------------------------------
(* Starting and stopping.                                                    *)

\* A tree has no more entries than there are ids.
LEMMA FiniteCloud ==
  ASSUME NEW tree, \A m \in tree : m.id \in Ids, \A m, n \in tree : m.id = n.id => m = n
  PROVE  IsFiniteSet(tree) /\ Cardinality(tree) \in 0..MaxId
<1> DEFINE f == [m \in tree |-> m.id]
<1>1. f \in Injection(tree, Ids)
  BY DEF Injection, IsInjective
<1>2. IsFiniteSet(Ids) /\ Cardinality(Ids) = MaxId
  BY FS_Interval, BoundAssumption DEF Ids
<1>3. IsFiniteSet(tree) /\ Cardinality(tree) <= Cardinality(Ids)
  BY <1>1, <1>2, FS_Injection
<1>4. Cardinality(tree) \in Nat
  BY <1>3, FS_CardinalityType
<1> QED
  BY <1>2, <1>3, <1>4, BoundAssumption

\* What the look-up by pages counts on.
LEMMA RankIs ==
  ASSUME CloudOK, NEW m \in ListFiles(Top)
  PROVE  Rank(m) \in Nat /\ Cardinality(ListFiles(Top)) \in Nat /\ Rank(m) < Cardinality(ListFiles(Top))
<1> DEFINE L == ListFiles(Top)
           B == {n \in L : n.id < m.id}
<1>1. IsFiniteSet(cloud)
  BY FiniteCloud DEF CloudOK, WellFormed
<1>2. L \subseteq cloud /\ m \in cloud /\ m.id \in Nat
  BY DEF ListFiles, Contents, CloudOK, Ids
<1>3. IsFiniteSet(L)
  BY <1>1, <1>2, FS_Subset
<1>4. B \subseteq L /\ m \notin B
  BY <1>2
<1>5. IsFiniteSet(B) /\ Cardinality(B) <= Cardinality(L) /\ (Cardinality(B) = Cardinality(L) => B = L)
  BY <1>3, <1>4, FS_Subset
<1>6. Cardinality(B) \in Nat /\ Cardinality(L) \in Nat /\ Rank(m) = Cardinality(B)
  BY <1>3, <1>5, FS_CardinalityType DEF Rank
<1> HIDE DEF L, B
<1>7. B # L
  BY <1>4 DEF L
<1> QED
  BY <1>5, <1>6, <1>7 DEF L

\* Nothing is mounted: the maps stay empty while the folder is looked for.
LEMMA DownKeeps ==
  ASSUME NEW D \in SUBSET Ids, NsInv(D), root = None, root' \in DirIds \cup {None},
         NEW E \in SUBSET Ids, CloudOK', Agree(E)',
         UNCHANGED <<index, loading, ask, op, loose, changes>>, errors' \in 0..MaxErrors
  PROVE  NsInv(E)'
<1>0. IndexOK /\ OpInv /\ Down /\ Counts
  BY DEF NsInv
<1>1. /\ path_map' = path_map /\ id_map' = id_map /\ children_map' = children_map
      /\ loaded' = loaded /\ failed' = failed /\ listing' = listing /\ op' = op /\ loose' = loose
      /\ ask' = ask /\ \A d : Kids(d)' = Kids(d)
  BY DEF index, loading, Kids
<1>2. IndexOK'
  BY <1>0, <1>1 DEF IndexOK
<1>3. Down' /\ OpInv' /\ AskInv'
  BY <1>0, <1>1 DEF Down, OpInv, AskInv
<1>4. Counts'
  BY <1>0 DEF Counts
<1> QED
  BY <1>2, <1>3, <1>4 DEF NsInv

LEMMA NsStutters ==
  ASSUME NEW D, NsInv(D), UNCHANGED nsVars
  PROVE  NsInv(D)'
<1>1. /\ path_map' = path_map /\ id_map' = id_map /\ children_map' = children_map
      /\ loaded' = loaded /\ failed' = failed /\ listing' = listing /\ op' = op /\ loose' = loose
      /\ cloud' = cloud /\ lastId' = lastId /\ root' = root /\ changes' = changes /\ errors' = errors
      /\ ask' = ask /\ \A d : Kids(d)' = Kids(d)
  BY DEF nsVars, server, index, loading, Kids
<1>2. CloudOK' /\ IndexOK' /\ OpInv' /\ AskInv' /\ Down' /\ Counts'
  <2>1. AskInv'
    BY <1>1, AskStays DEF NsInv
  <2> QED
    BY <1>1, <2>1 DEF NsInv, CloudOK, IndexOK, OpInv, Down, Counts
<1>3. Agree(D)'
  BY <1>1 DEF NsInv, Agree
<1> QED
  BY <1>2, <1>3 DEF NsInv

LEMMA StartKeeps ==
  ASSUME MountInv, Start
  PROVE  MountInv'
<1>1. PICK D \in SUBSET Ids : NsInv(D) /\ Given(D)
  BY DEF MountInv
<1>2. /\ phase = "down" /\ starts < MaxStarts /\ starts' = starts + 1 /\ phase' = "discover"
      /\ UNCHANGED <<nsVars, mode, base, page, first>>
  BY DEF Start
<1>3. NsInv(D)' /\ Given(D)'
  BY <1>1, <1>2, NsStutters DEF Given
<1>4. root' = root
  BY <1>2 DEF nsVars
<1>5. StartOK'
  BY <1>2, <1>4, PageAssumption DEF MountInv, StartOK
<1>6. FirstInv'
  BY <1>2, <1>4 DEF MountInv, FirstInv
<1>7. NamedInv'
  BY <1>2 DEF MountInv, NamedInv, nsVars, index, loading, server
<1> QED
  BY <1>1, <1>3, <1>5, <1>6, <1>7 DEF MountInv

\* Before the mount nothing is loaded, listed or under way.
LEMMA NothingYet ==
  ASSUME NEW D, NsInv(D), root = None, UNCHANGED <<index, loading, ask, op>>
  PROVE  /\ \A p \in DOMAIN path_map' : FALSE
         /\ \A d \in DirIds : listing'[d] = None
         /\ ask' = None /\ op' = None
  BY DEF NsInv, Down, index, loading

\* The folder is found without a change in Drive Kit.
LEMMA FoundKeeps ==
  ASSUME NEW D \in SUBSET Ids, NsInv(D), Given(D), root = None,
         root' \in DirIds \cup {None}, root' \in Ids => root' \in D,
         UNCHANGED <<server, index, loading, ask, op, loose, changes, errors>>
  PROVE  NsInv(D)'
<1>1. CloudOK' /\ Agree(D)'
  <2>1. /\ path_map' = path_map /\ children_map' = children_map
        /\ listing' = listing /\ op' = op /\ cloud' = cloud /\ lastId' = lastId
        /\ \A d : Kids(d)' = Kids(d)
    BY DEF server, index, loading, Kids
  <2> QED
    BY <2>1 DEF NsInv, CloudOK, Agree
<1>2. errors' \in 0..MaxErrors
  BY DEF NsInv, Counts
<1> QED
  BY <1>1, <1>2, DownKeeps

LEMMA DiscoverRootKeeps ==
  ASSUME MountInv, DiscoverRoot
  PROVE  MountInv'
<1> DEFINE found == IF ListFiles(Keyword) # {} THEN Top ELSE Keyword
<1>1. PICK D \in SUBSET Ids : NsInv(D) /\ Given(D)
  BY DEF MountInv
<1>2. /\ phase = "discover" /\ root = None
      /\ UNCHANGED <<server, index, loading, ask, op, loose, changes, errors, mode, starts>>
  BY DEF DiscoverRoot, MountInv, StartOK
<1>3. \/ mode = "container" /\ MountAt(found) /\ UNCHANGED <<base, page>>
      \/ mode = "id" /\ MountAt(GivenId) /\ UNCHANGED <<base, page>>
      \/ /\ mode = "name" /\ base' = found /\ page' = 1
         /\ phase' = IF found = Top THEN "lookup" ELSE "create"
         /\ UNCHANGED <<root, first>>
  BY DEF DiscoverRoot
<1>4. found \in {Top, Keyword} /\ Real(found) = Top /\ found \notin Ids /\ found # None
      /\ found \in DirIds
  BY SentinelAssumption, BoundAssumption DEF Real, Top, Ids, DirIds
<1>5. (found = Keyword => Named(cloud) = {}) /\ found \in {Top, Keyword} /\ Top # Keyword
  <2>1. found = Keyword => Contents(cloud, Keyword) = {}
    BY SentinelAssumption DEF ListFiles, Top
  <2>2. Contents(cloud, Keyword) = Contents(cloud, Top)
    BY DEF Contents, Real
  <2> QED
    BY <1>4, <2>1, <2>2, SentinelAssumption DEF Named, NamedFolders, Top
<1> HIDE DEF found
<1>6. CASE mode = "container"
  <2>1. root' = found /\ first' = (IF first = None THEN Top ELSE first) /\ phase' = "mounted"
        /\ UNCHANGED <<base, page>>
    BY <1>3, <1>4, <1>6 DEF MountAt
  <2>2. first \in {None, Top}
    BY <1>6 DEF MountInv, FirstInv
  <2>3. NsInv(D)' /\ Given(D)'
    <3>1. NsInv(D)'
      BY <1>1, <1>2, <1>4, <2>1, FoundKeeps
    <3>2. first' \notin Ids
      BY <2>1, <2>2, NoneIsNoId DEF Top, Ids
    <3> QED
      BY <1>1, <1>2, <3>1, <3>2 DEF Given
  <2>4. StartOK'
    BY <1>2, <1>4, <2>1, <2>2 DEF MountInv, StartOK
  <2>5. FirstInv' /\ NamedInv'
    BY <1>2, <1>4, <1>6, <2>1, <2>2 DEF FirstInv, NamedInv
  <2> QED
    BY <2>3, <2>4, <2>5 DEF MountInv
<1>7. CASE mode = "id"
  <2>0. GivenId \in D /\ GivenId \in Ids
    BY <1>1, <1>7 DEF Given
  <2>1. root' = GivenId /\ first' = (IF first = None THEN Real(GivenId) ELSE first) /\ phase' = "mounted"
        /\ UNCHANGED <<base, page>>
    BY <1>3, <1>7 DEF MountAt
  <2>2. first \in {None, GivenId} /\ Real(GivenId) = GivenId /\ GivenId # None /\ GivenId \in DirIds
    BY <1>7, <2>0, SentinelAssumption, NoneIsNoId DEF MountInv, FirstInv, Real, Ids, DirIds
  <2>3. NsInv(D)' /\ Given(D)'
    <3>1. NsInv(D)'
      BY <1>1, <1>2, <2>0, <2>1, <2>2, FoundKeeps
    <3> QED
      BY <1>1, <1>2, <2>0, <2>1, <2>2, <3>1 DEF Given
  <2>4. StartOK'
    BY <1>2, <2>0, <2>1, <2>2 DEF MountInv, StartOK
  <2>5. FirstInv' /\ NamedInv'
    BY <1>2, <1>7, <2>1, <2>2 DEF FirstInv, NamedInv
  <2> QED
    BY <2>3, <2>4, <2>5 DEF MountInv
<1>8. CASE mode = "name"
  <2>1. /\ base' = found /\ page' = 1 /\ phase' = (IF found = Top THEN "lookup" ELSE "create")
        /\ root' = root /\ first' = first
    BY <1>3, <1>8
  <2>2. NsInv(D)' /\ Given(D)'
    <3>1. NsInv(D)'
      BY <1>1, <1>2, <2>1, FoundKeeps, NoneIsNoId
    <3> QED
      BY <1>1, <1>2, <2>1, <3>1 DEF Given
  <2>3. StartOK'
    BY <1>2, <1>4, <1>8, <2>1 DEF MountInv, StartOK
  <2>4. FirstInv'
    BY <1>2, <1>8, <2>1 DEF MountInv, FirstInv
  <2>5. NamedInv'
    <3>1. cloud' = cloud
      BY <1>2 DEF server
    <3>2. phase' = "create" => Named(cloud) = {}
      BY <1>5, <2>1
    <3>3. \A m \in Named(cloud) : (1 - 1) * PageSize <= Rank(m)'
      <4>1. \A m \in Named(cloud) : m \in ListFiles(Top)
        BY DEF Named, NamedFolders, ListFiles
      <4>2. \A m \in Named(cloud) : Rank(m) \in Nat
        BY <1>1, <4>1, RankIs DEF NsInv
      <4>3. \A m \in Named(cloud) : Rank(m)' = Rank(m)
        BY <3>1 DEF Rank, ListFiles
      <4>4. (1 - 1) * PageSize = 0
        BY PageAssumption
      <4> QED
        BY <4>2, <4>3, <4>4
    <3>4. (\A p \in DOMAIN path_map' : FALSE) /\ (\A d \in DirIds : listing'[d] = None)
      /\ ask' = None /\ op' = None
      BY <1>1, <1>2, NothingYet
    <3>5. page' > 0
      BY <2>1
    <3>6. \A m \in Named(cloud) : (page' - 1) * PageSize <= Rank(m)'
      BY <2>1, <3>3
    <3>7. /\ \A m, n \in Named(cloud) : m = n
          /\ first # None => \E r \in Named(cloud) : r.id = first
      BY <1>8 DEF MountInv, NamedInv
    <3>8. root' = None
      BY <1>2, <2>1
    <3> QED
      BY <2>1, <3>1, <3>2, <3>4, <3>5, <3>6, <3>7, <3>8 DEF NamedInv
  <2> QED
    BY <2>2, <2>3, <2>4, <2>5 DEF MountInv
<1> QED
  BY <1>3, <1>6, <1>7, <1>8

LEMMA LookupPageKeeps ==
  ASSUME MountInv, LookupPage
  PROVE  MountInv'
<1>1. PICK D \in SUBSET Ids : NsInv(D) /\ Given(D)
  BY DEF MountInv
<1>2. /\ phase = "lookup" /\ root = None /\ mode = "name"
      /\ UNCHANGED <<server, index, loading, ask, op, loose, changes, errors, mode, base, starts>>
  BY DEF LookupPage, MountInv, StartOK
<1>3. /\ \A m, n \in Named(cloud) : m = n
      /\ first # None => \E r \in Named(cloud) : r.id = first
      /\ page > 0 /\ \A m \in Named(cloud) : (page - 1) * PageSize <= Rank(m)
      /\ page \in Nat
  BY <1>2 DEF MountInv, NamedInv, StartOK
<1>4. cloud' = cloud /\ \A m : Rank(m)' = Rank(m)
  BY <1>2 DEF server, Rank, ListFiles
<1>5. (\A p \in DOMAIN path_map' : FALSE) /\ (\A d \in DirIds : listing'[d] = None)
      /\ ask' = None /\ op' = None
  BY <1>1, <1>2, NothingYet
<1>6. \A m \in Named(cloud) : m \in cloud /\ m.dir /\ m.id \in Ids /\ m.id \in D /\ m \in ListFiles(Top)
  <2>1. \A m \in Named(cloud) : m \in cloud /\ m.dir /\ m \in ListFiles(Top)
    BY DEF Named, NamedFolders, Contents, ListFiles
  <2> QED
    BY <1>1, <2>1, AgreeIs DEF NsInv, CloudOK, Fits
<1>7. CASE NamedFolders(Page(page)) # {}
  <2>1. PICK m \in NamedFolders(Page(page)) : MountAt(m.id) /\ page' = page
    BY <1>7 DEF LookupPage
  <2>2. m \in Named(cloud)
    BY <2>1 DEF Named, NamedFolders, Page, ListFiles
  <2>3. m.id \in Ids /\ m.id \in D /\ Real(m.id) = m.id /\ m.id # None /\ m.id \in DirIds
    BY <1>6, <2>2, SentinelAssumption, NoneIsNoId DEF Real, Ids, DirIds
  <2>4. first' = m.id /\ root' = m.id /\ phase' = "mounted"
    BY <1>3, <2>1, <2>2, <2>3 DEF MountAt
  <2>5. NsInv(D)' /\ Given(D)'
    <3>1. NsInv(D)'
      BY <1>1, <1>2, <2>3, <2>4, FoundKeeps
    <3> QED
      BY <1>1, <1>2, <2>3, <2>4, <3>1 DEF Given
  <2>6. StartOK' /\ FirstInv'
    BY <1>2, <2>1, <2>3, <2>4 DEF MountInv, StartOK, FirstInv
  <2>7. NamedInv'
    BY <1>2, <1>3, <1>4, <1>5, <2>2, <2>3, <2>4 DEF NamedInv
  <2> QED
    BY <2>5, <2>6, <2>7 DEF MountInv
<1>8. CASE NamedFolders(Page(page)) = {}
  <2>1. /\ phase' = (IF MorePages(page) THEN "lookup" ELSE "create") /\ page' = page + 1
        /\ root' = root /\ first' = first
    BY <1>8 DEF LookupPage
  <2>2. NsInv(D)' /\ Given(D)'
    <3>1. NsInv(D)'
      BY <1>1, <1>2, <2>1, FoundKeeps, NoneIsNoId
    <3> QED
      BY <1>1, <1>2, <2>1, <3>1 DEF Given
  <2>3. StartOK' /\ FirstInv'
    BY <1>2, <1>3, <2>1 DEF MountInv, StartOK, FirstInv
  <2>4. ASSUME NEW m \in Named(cloud)
        PROVE  page * PageSize <= Rank(m) /\ Rank(m) < Cardinality(ListFiles(Top))
               /\ Rank(m) \in Nat /\ Cardinality(ListFiles(Top)) \in Nat
    <3>1. Rank(m) \in Nat /\ Cardinality(ListFiles(Top)) \in Nat
          /\ Rank(m) < Cardinality(ListFiles(Top))
      BY <1>1, <1>6, RankIs DEF NsInv
    <3>2. m \notin Page(page)
      BY <1>8 DEF Named, NamedFolders
    <3>3. (page - 1) * PageSize <= Rank(m)
      BY <1>3
    <3>4. ~(Rank(m) < page * PageSize)
      BY <1>6, <3>2, <3>3 DEF Page
    <3>5. page * PageSize \in Nat
      BY <1>3, PageAssumption
    <3> QED
      BY <3>1, <3>4, <3>5
  <2>5. phase' = "create" => Named(cloud) = {}
    <3>1. phase' = "create" => ~(page * PageSize < Cardinality(ListFiles(Top)))
      BY <2>1 DEF MorePages
    <3>2. page * PageSize \in Nat
      BY <1>3, PageAssumption
    <3>3. ASSUME NEW m \in Named(cloud), ~(page * PageSize < Cardinality(ListFiles(Top))) PROVE FALSE
      <4>1. page * PageSize <= Rank(m) /\ Rank(m) < Cardinality(ListFiles(Top))
            /\ Rank(m) \in Nat /\ Cardinality(ListFiles(Top)) \in Nat
        BY <2>4
      <4> QED
        BY <3>2, <3>3, <4>1
    <3> QED
      BY <3>1, <3>3
  <2>6. page' > 0 /\ \A m \in Named(cloud) : (page' - 1) * PageSize <= Rank(m)'
    <3>1. page' - 1 = page /\ page' > 0
      BY <1>3, <2>1
    <3> QED
      BY <1>4, <2>4, <3>1
  <2>7. NamedInv'
    BY <1>2, <1>3, <1>4, <1>5, <2>1, <2>5, <2>6 DEF NamedInv
  <2> QED
    BY <2>2, <2>3, <2>7 DEF MountInv
<1> QED
  BY <1>7, <1>8

\* The folder that create_folder is asked for, when there is none.
LEMMA CreatedIs ==
  ASSUME MountInv, NEW D \in SUBSET Ids, NsInv(D), Given(D), phase = "create",
         PostEntry(CreatedFolder), UNCHANGED <<index, loading, ask, op>>,
         root' = root \/ root' = CreatedFolder.id
  PROVE  \E E \in SUBSET Ids :
           /\ D \subseteq E /\ CreatedFolder.id \in E /\ CreatedFolder.id \in Ids
           /\ CloudOK' /\ Agree(E)' /\ first = None
           /\ \E n \in Named(cloud') : n.id = CreatedFolder.id /\ \A m \in Named(cloud') : m = n
<1>0. CloudOK /\ IndexOK /\ OpInv /\ AskInv /\ Down /\ Counts /\ Agree(D)
  BY DEF NsInv
<1>1. PICK m : m = CreatedFolder
  OBVIOUS
<1>2. mode = "name" /\ base \in {Top, Keyword} /\ Named(cloud) = {} /\ first = None /\ root = None
  BY DEF MountInv, StartOK, NamedInv
<1>3. m.id = lastId + 1 /\ m.id <= MaxId /\ m.rev = 0 /\ m.dir = TRUE /\ m.name = Folder
      /\ m.parent = base
  BY <1>1 DEF PostEntry, CreatedFolder
<1>4. m.id \in Ids
  BY <1>0, <1>3, NewIdIsFresh
<1>5. m \in Entry /\ Real(base) = Top /\ base \in DirIds
  BY <1>1, <1>2, <1>4, ModeAssumption DEF CreatedFolder, Entry, DirIds, Real
<1>6. IsFolder(m.parent)
  <2>1. base \notin Ids
    BY <1>2, SentinelAssumption DEF Top, Ids
  <2>2. \A e \in cloud : e.id \in Ids
    BY <1>0 DEF CloudOK
  <2> QED
    BY <1>3, <1>5, <2>1, <2>2 DEF IsFolder
<1>7. PostEntry(m) /\ UNCHANGED <<index, listing>> /\ op' = op /\ root' \in {root, m.id}
  BY <1>1 DEF loading
<1>8. /\ NewFolders(D, m) \in SUBSET Ids /\ D \subseteq NewFolders(D, m) /\ CloudOK'
      /\ Agree(NewFolders(D, m))'
  BY <1>0, <1>3, <1>5, <1>6, <1>7, PostAgrees
<1>9. m.id \in NewFolders(D, m)
  BY <1>3 DEF NewFolders
<1>10. \E n \in Named(cloud') : n.id = m.id /\ \A e \in Named(cloud') : e = n
  <2> DEFINE n == [m EXCEPT !.parent = Real(m.parent)]
  <2>1. n.id = m.id /\ n.name = Folder /\ n.dir /\ n.parent = Top
    BY <1>3, <1>5 DEF Entry
  <2>2. cloud' = cloud \cup {n}
    BY <1>7 DEF PostEntry
  <2> HIDE DEF n
  <2>3. Real(Top) = Top
    BY SentinelAssumption DEF Real, Top
  <2>4. n \in Named(cloud')
    BY <2>1, <2>2, <2>3 DEF Named, NamedFolders, Contents
  <2>5. \A e \in Named(cloud') : e = n
    BY <1>2, <2>2 DEF Named, NamedFolders, Contents
  <2> QED
    BY <2>1, <2>4, <2>5
<1> QED
  BY <1>1, <1>2, <1>4, <1>8, <1>9, <1>10

LEMMA CreateRootKeeps ==
  ASSUME MountInv, CreateRoot
  PROVE  MountInv'
<1>1. PICK D \in SUBSET Ids : NsInv(D) /\ Given(D)
  BY DEF MountInv
<1>2. /\ phase = "create" /\ PostEntry(CreatedFolder) /\ root' = CreatedFolder.id
      /\ first' = (IF first = None THEN Real(CreatedFolder.id) ELSE first) /\ phase' = "mounted"
      /\ UNCHANGED <<index, loading, ask, op, loose, changes, errors, mode, base, page, starts>>
  BY DEF CreateRoot, MountAt
<1>3. PICK i : i = CreatedFolder.id
  OBVIOUS
<1>4. PICK E \in SUBSET Ids :
           /\ D \subseteq E /\ i \in E /\ i \in Ids
           /\ CloudOK' /\ Agree(E)' /\ first = None
           /\ \E n \in Named(cloud') : n.id = i /\ \A m \in Named(cloud') : m = n
  BY <1>1, <1>2, <1>3, CreatedIs
<1>5. root = None /\ mode = "name"
  BY <1>2 DEF MountInv, StartOK
<1>6. Real(i) = i /\ i # None /\ i \in DirIds /\ root' = i /\ first' = i
  BY <1>2, <1>3, <1>4, SentinelAssumption, NoneIsNoId DEF Real, Ids, DirIds
<1>7. NsInv(E)'
  <2>1. errors' \in 0..MaxErrors
    BY <1>1, <1>2 DEF NsInv, Counts
  <2> QED
    BY <1>1, <1>2, <1>4, <1>5, <1>6, <2>1, DownKeeps
<1>8. Given(E)'
  BY <1>1, <1>2, <1>4, <1>6 DEF Given
<1>9. StartOK' /\ FirstInv'
  BY <1>2, <1>4, <1>5, <1>6 DEF MountInv, StartOK, FirstInv
<1>10. (\A p \in DOMAIN path_map' : FALSE) /\ (\A d \in DirIds : listing'[d] = None)
      /\ ask' = None /\ op' = None
  BY <1>1, <1>2, <1>5, NothingYet
<1>11. NamedInv'
  BY <1>2, <1>4, <1>6, <1>10 DEF NamedInv
<1> QED
  BY <1>7, <1>8, <1>9, <1>11 DEF MountInv

LEMMA StartFailsKeeps ==
  ASSUME MountInv, StartFails
  PROVE  MountInv'
<1>1. PICK D \in SUBSET Ids : NsInv(D) /\ Given(D)
  BY DEF MountInv
<1>2. /\ phase \in {"discover", "lookup", "create"} /\ errors < MaxErrors /\ errors' = errors + 1
      /\ UNCHANGED server \/ (phase = "create" /\ PostEntry(CreatedFolder))
      /\ phase' = "down" /\ base' = None /\ page' = 0
      /\ UNCHANGED <<root, index, loading, ask, op, loose, changes, mode, first, starts>>
  BY DEF StartFails
<1>3. root = None /\ root' = None
  BY <1>2 DEF MountInv, StartOK
<1>4. errors' \in 0..MaxErrors
  BY <1>1, <1>2, BoundAssumption DEF NsInv, Counts
<1>5. \E E \in SUBSET Ids : D \subseteq E /\ NsInv(E)'
  <2>1. CASE UNCHANGED server
    <3>1. /\ path_map' = path_map /\ children_map' = children_map
          /\ listing' = listing /\ op' = op /\ cloud' = cloud /\ lastId' = lastId
          /\ \A d : Kids(d)' = Kids(d)
      BY <1>2, <2>1 DEF server, index, loading, Kids
    <3>2. CloudOK' /\ Agree(D)'
      BY <1>1, <1>2, <3>1 DEF NsInv, CloudOK, Agree
    <3> QED
      BY <1>1, <1>2, <1>3, <1>4, <3>2, DownKeeps
  <2>2. CASE phase = "create" /\ PostEntry(CreatedFolder)
    <3>1. PICK E \in SUBSET Ids : D \subseteq E /\ CloudOK' /\ Agree(E)'
      BY <1>1, <1>2, <2>2, CreatedIs
    <3> QED
      BY <1>1, <1>2, <1>3, <1>4, <3>1, DownKeeps
  <2> QED
    BY <1>2, <2>1, <2>2
<1>6. PICK E \in SUBSET Ids : D \subseteq E /\ NsInv(E)'
  BY <1>5
<1>7. Given(E)'
  BY <1>1, <1>2, <1>6 DEF Given
<1>8. StartOK' /\ FirstInv'
  BY <1>2, <1>3 DEF MountInv, StartOK, FirstInv
<1>9. (\A p \in DOMAIN path_map' : FALSE) /\ (\A d \in DirIds : listing'[d] = None)
      /\ ask' = None /\ op' = None
  BY <1>1, <1>2, <1>3, NothingYet
<1>10. mode = "name" =>
         /\ \A m, n \in Named(cloud') : m = n
         /\ first # None => \E r \in Named(cloud') : r.id = first
  <2>1. CASE UNCHANGED server
    BY <2>1 DEF MountInv, NamedInv, server
  <2>2. CASE phase = "create" /\ PostEntry(CreatedFolder)
    <3>1. first = None /\ \E n \in Named(cloud') : \A m \in Named(cloud') : m = n
      BY <1>1, <1>2, <2>2, CreatedIs
    <3> QED
      BY <3>1
  <2> QED
    BY <1>2, <2>1, <2>2
<1>11. NamedInv'
  BY <1>2, <1>3, <1>9, <1>10 DEF NamedInv
<1> QED
  BY <1>6, <1>7, <1>8, <1>11 DEF MountInv

LEMMA StopKeeps ==
  ASSUME MountInv, Stop
  PROVE  MountInv'
<1>1. PICK D \in SUBSET Ids : NsInv(D) /\ Given(D)
  BY DEF MountInv
<1>2. /\ phase' = "down" /\ root' = None
      /\ path_map' = EmptyMap /\ id_map' = EmptyMap
      /\ children_map' = [d \in DirIds |-> EmptyBag]
      /\ loaded' = {} /\ failed' = {}
      /\ listing' = [d \in DirIds |-> None]
      /\ ask' = None /\ op' = None /\ loose' = {}
      /\ base' = None /\ page' = 0
      /\ UNCHANGED <<server, changes, errors, mode, first, starts>>
  BY DEF Stop
<1>3. DOMAIN path_map' = {} /\ DOMAIN id_map' = {}
  BY <1>2 DEF EmptyMap
<1>4. \A d \in DirIds : IsABag(children_map'[d]) /\ Kids(d)' = {}
  BY <1>2, BagOfNone DEF Kids
<1>5. cloud' = cloud /\ lastId' = lastId
  BY <1>2 DEF server
<1>6. NsInv(D)'
  <2>1. CloudOK /\ IndexOK /\ Counts /\ Agree(D)
    BY <1>1 DEF NsInv
  <2>2. IndexOK'
    BY <1>2, <1>3, <1>4 DEF IndexOK
  <2>3. Down' /\ OpInv' /\ AskInv'
    BY <1>2, <1>3, <1>4 DEF Down, OpInv, AskInv
  <2>4. CloudOK' /\ Counts'
    BY <1>2, <1>5, <2>1 DEF CloudOK, Counts
  <2>5. Agree(D)'
    BY <1>2, <1>3, <1>4, <1>5, <2>1, SameIds, AgreeIs, NoneIsNoId
  <2> QED
    BY <2>2, <2>3, <2>4, <2>5 DEF NsInv
<1>7. Given(D)'
  BY <1>1, <1>2 DEF Given
<1>8. StartOK' /\ FirstInv'
  BY <1>2 DEF MountInv, StartOK, FirstInv
<1>9. NamedInv'
  BY <1>2, <1>3, <1>5 DEF MountInv, NamedInv
<1> QED
  BY <1>6, <1>7, <1>8, <1>9 DEF MountInv

\* The trees that CloudAssumption and FolderAssumption allow.
LEMMA InitHolds ==
  ASSUME Init
  PROVE  MountInv
<1>1. /\ cloud \in InitialClouds /\ lastId = Cardinality(cloud)
      /\ path_map = EmptyMap /\ id_map = EmptyMap
      /\ children_map = [d \in DirIds |-> EmptyBag]
      /\ loaded = {} /\ failed = {} /\ listing = [d \in DirIds |-> None]
      /\ ask = None /\ op = None /\ loose = {} /\ changes = 0 /\ errors = 0
      /\ root = None /\ mode \in Modes /\ (mode = "id" => GivenId \in Folders(cloud))
      /\ phase = "down" /\ base = None /\ page = 0 /\ first = None /\ starts = 0
  BY DEF Init, NsInit, EmptyIndex
<1>2. /\ cloud \subseteq Entry /\ WellFormed(cloud) /\ Acyclic(cloud)
      /\ \A m \in cloud : m.id <= lastId /\ m.rev = 0
      /\ Cardinality(NamedFolders(Contents(cloud, Top))) <= 1
  BY <1>1, CloudAssumption, FolderAssumption
<1>3. \A m \in cloud : m.id \in Ids
  BY <1>2 DEF Entry
<1>4. IsFiniteSet(cloud) /\ lastId \in 0..MaxId
  BY <1>1, <1>2, <1>3, FiniteCloud DEF WellFormed
<1>5. CloudOK
  <2>1. ASSUME NEW m \in cloud
        PROVE  m \in [id : Ids, name : Names, dir : BOOLEAN, parent : Ids \cup {Top}, rev : {0}]
    <3>1. m \in Entry /\ m.rev = 0
      BY <1>2
    <3>2. m.parent \in Folders(cloud) \cup {Top}
      BY <1>2 DEF WellFormed
    <3>3. m.parent \in Ids \cup {Top}
      BY <1>3, <3>2 DEF Folders
    <3> QED
      BY <3>1, <3>3 DEF Entry
  <2> QED
    BY <1>2, <1>4, <2>1 DEF CloudOK
<1>6. \A d \in DirIds : IsABag(children_map[d]) /\ Kids(d) = {} /\ listing[d] = None
  BY <1>1, BagOfNone DEF Kids
<1>7. DOMAIN path_map = {} /\ DOMAIN id_map = {}
  BY <1>1 DEF EmptyMap
<1>8. IndexOK /\ OpInv /\ AskInv /\ Down
  BY <1>1, <1>6, <1>7 DEF IndexOK, OpInv, AskInv, Down
<1>9. Counts
  BY <1>1, BoundAssumption DEF Counts
<1>10. PICK D : D = Folders(cloud)
  OBVIOUS
<1>11. D \in SUBSET Ids /\ Agree(D)
  <2>1. D \in SUBSET Ids /\ \A i \in D : i <= lastId
    BY <1>2, <1>3, <1>10 DEF Folders
  <2>2. \A m \in cloud : Fits(m, lastId, D)
    BY <1>2, <1>10 DEF Fits, Folders, WellFormed
  <2>3. root \notin Ids
    BY <1>1, NoneIsNoId
  <2> QED
    BY <1>1, <1>6, <1>7, <2>1, <2>2, <2>3 DEF Agree
<1>12. Given(D)
  BY <1>1, <1>10, NoneIsNoId DEF Given
<1>13. StartOK /\ FirstInv
  BY <1>1, PageAssumption DEF StartOK, FirstInv
<1>14. \A m, n \in Named(cloud) : m = n
  <2>1. IsFiniteSet(Named(cloud)) /\ Cardinality(Named(cloud)) \in Nat
    <3>1. Named(cloud) \subseteq cloud
      BY DEF Named, NamedFolders, Contents
    <3> QED
      BY <1>4, <3>1, FS_Subset, FS_CardinalityType
  <2>2. SUFFICES ASSUME NEW m \in Named(cloud), NEW n \in Named(cloud), m # n PROVE FALSE
    OBVIOUS
  <2>3. IsFiniteSet(Named(cloud) \ {m})
        /\ Cardinality(Named(cloud) \ {m}) = Cardinality(Named(cloud)) - 1
    BY <2>1, FS_RemoveElement
  <2>4. IsFiniteSet((Named(cloud) \ {m}) \ {n})
        /\ Cardinality((Named(cloud) \ {m}) \ {n}) = Cardinality(Named(cloud) \ {m}) - 1
    BY <2>2, <2>3, FS_RemoveElement
  <2>5. Cardinality((Named(cloud) \ {m}) \ {n}) \in Nat
    BY <2>4, FS_CardinalityType
  <2>6. Cardinality(Named(cloud)) <= 1
    BY <1>2 DEF Named
  <2> QED
    BY <2>1, <2>3, <2>4, <2>5, <2>6
<1>15. NamedInv
  BY <1>1, <1>6, <1>7, <1>14 DEF NamedInv
<1> QED
  BY <1>5, <1>8, <1>9, <1>11, <1>12, <1>13, <1>15 DEF MountInv, NsInv

LEMMA MountStutters ==
  ASSUME MountInv, UNCHANGED vars
  PROVE  MountInv'
<1>1. PICK D \in SUBSET Ids : NsInv(D) /\ Given(D)
  BY DEF MountInv
<1>2. UNCHANGED nsVars /\ UNCHANGED <<mode, startVars>>
  BY DEF vars
<1>3. NsInv(D)' /\ Given(D)'
  BY <1>1, <1>2, NsStutters DEF Given, startVars
<1>4. StartOK' /\ FirstInv' /\ NamedInv'
  BY <1>2 DEF MountInv, StartOK, FirstInv, NamedInv, nsVars, index, loading, server, startVars, Rank, ListFiles
<1> QED
  BY <1>1, <1>3, <1>4 DEF MountInv

\* MountInv is inductive: the start of the process, its end and every operation
\* and listing in between keep it.
THEOREM MountInvariant == Spec => []MountInv
<1>1. Init => MountInv
  BY InitHolds
<1>2. MountInv /\ [Next]_vars => MountInv'
  <2> SUFFICES ASSUME MountInv, [Next]_vars PROVE MountInv'
    OBVIOUS
  <2>1. CASE Start
    BY <2>1, StartKeeps
  <2>2. CASE DiscoverRoot
    BY <2>2, DiscoverRootKeeps
  <2>3. CASE LookupPage
    BY <2>3, LookupPageKeeps
  <2>4. CASE CreateRoot
    BY <2>4, CreateRootKeeps
  <2>5. CASE StartFails
    BY <2>5, StartFailsKeeps
  <2>6. CASE Stop
    BY <2>6, StopKeeps
  <2>7. CASE NsNext /\ UNCHANGED <<mode, startVars>>
    BY <2>7, OperationsKeep
  <2>8. CASE UNCHANGED vars
    BY <2>8, MountStutters
  <2> QED
    BY <2>1, <2>2, <2>3, <2>4, <2>5, <2>6, <2>7, <2>8 DEF Next
<1> QED
  BY <1>1, <1>2, PTL DEF Spec

\* Every record in the three maps of DirTree and in a listing on its way has the
\* fields of FileMeta, every children list is a list of them, and Drive Kit's own
\* tree stays one: unique ids, and parents that exist.
THEOREM MountTypeOK == Spec => []TypeOK
<1>1. MountInv => TypeOK
  <2> SUFFICES ASSUME MountInv PROVE TypeOK
    OBVIOUS
  <2>1. PICK D \in SUBSET Ids : NsInv(D)
    BY DEF MountInv
  <2>2. CloudOK /\ IndexOK /\ OpInv /\ AskInv /\ Counts /\ StartOK
    BY <2>1 DEF MountInv, NsInv
  <2>3. ask \in Request \cup {None} /\ op \in Operation \cup {None}
    BY <2>2 DEF OpInv, AskInv
  <2>4. NsTypeOK
    BY <2>2, <2>3 DEF NsTypeOK, CloudOK, IndexOK, Counts
  <2>5. (phase = "mounted") = (root # None)
    BY <2>2 DEF StartOK
  <2> QED
    BY <2>2, <2>4, <2>5 DEF TypeOK, StartOK
<1> QED
  BY <1>1, MountInvariant, PTL

\* However often the process is started, fails to start or dies, it mounts the
\* folder it mounted first, and a folder looked for by name is created once: the
\* look-up by pages finds it again, and no operation below it removes or moves it.
THEOREM MountSameFolder == Spec => []SameFolder
<1>1. MountInv => SameFolder
  <2> SUFFICES ASSUME MountInv PROVE SameFolder
    OBVIOUS
  <2>1. root # None => Real(root) = first
    BY DEF MountInv, FirstInv
  <2>2. ASSUME mode = "name" PROVE Cardinality(Named(cloud)) <= 1
    <3>1. \A m, n \in Named(cloud) : m = n
      BY <2>2 DEF MountInv, NamedInv
    <3>2. Named(cloud) = {} \/ \E m : Named(cloud) = {m}
      BY <3>1
    <3>3. Cardinality(Named(cloud)) = 0 \/ Cardinality(Named(cloud)) = 1
      BY <3>2, FS_EmptySet, FS_Singleton
    <3> QED
      BY <3>3
  <2> QED
    BY <2>1, <2>2 DEF SameFolder, Named
<1> QED
  BY <1>1, MountInvariant, PTL
==============================================================================
