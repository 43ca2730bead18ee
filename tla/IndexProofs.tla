----------------------------- MODULE IndexProofs -----------------------------
(***************************************************************************)
(* Proofs about Mount and Namespace, continued: that the index agrees with *)
(* Drive Kit, that rmdir deletes no entry with the folder, and that no     *)
(* operation makes two entries of one name, for any names, any trees of    *)
(* Drive Kit within the assumptions, and any bounds.                       *)
(*                                                                         *)
(* The properties except what is loosened, and so does the invariant: it   *)
(* speaks of the records above which no path is loosened (CleanEntry) and  *)
(* of their folders (CleanDir).  Nested ties the three maps together.      *)
(* LoadedAgree says what a loaded folder holds in the index, now or when   *)
(* the operation on its way is answered, and ListingsAgree what the        *)
(* listing of a folder holds.  The rest keeps apart what the two must not  *)
(* mix up: what is below a folder that is not loaded is nowhere in the     *)
(* index (BelowUnseen), a deleted folder holds nothing that is still there *)
(* (DoomedGone), and the mounted folder is inside none of its entries      *)
(* (RootAbove).  AskSound says how much of what an operation has looked up *)
(* is still so when its request is served: the folders that it found       *)
(* loaded and not loosened are so still, and what it found in them is      *)
(* there; of the others a listing may have been merged since.              *)
(***************************************************************************)
EXTENDS MountProofs, NaturalsInduction, WellFoundedInduction

-----------------------------------------------------------------------------
(* The invariant of the index.                                               *)

\* A folder of the index that is not loosened, with its id.
CleanDir(p, d) == IsDir(p) /\ Clean(p) /\ DirAt(p) = d

\* A record of the index in such a folder.
CleanEntry(q, m) == q \in DOMAIN path_map /\ path_map[q] = m /\ Clean(Front(q))

InListing(i, d) == listing[d] # None /\ \E m \in listing[d] : m.id = i

\* The record of a path is in the children list of the folder above it, which
\* is loaded, and is the one its id leads to.
PathsNest ==
  \A q \in Path, m \in Entry : CleanEntry(q, m) =>
    /\ IsDir(Front(q)) /\ DirAt(Front(q)) = m.parent /\ m.parent \in loaded
    /\ m \in Kids(m.parent) /\ m.name = Last(q)
    /\ m.id \in DOMAIN id_map /\ id_map[m.id] = q
    /\ \A r \in Path : IsPrefix(r, q) /\ r # << >> => r \in DOMAIN path_map

IdsOnce ==
  \A q \in Path, m \in Entry : CleanEntry(q, m) =>
    \A r \in DOMAIN path_map : path_map[r].id = m.id => r = q

IdsLead ==
  \A i \in Ids, q \in Path : i \in DOMAIN id_map /\ id_map[i] = q /\ Clean(Front(q)) =>
    q \in DOMAIN path_map /\ path_map[q].id = i

KidsNamed ==
  \A p \in Path, d \in DirIds : CleanDir(p, d) => \A c \in Kids(d) :
    /\ children_map[d][c] = 1
    /\ Append(p, c.name) \in DOMAIN path_map /\ path_map[Append(p, c.name)] = c

Nested == PathsNest /\ IdsOnce /\ IdsLead /\ KidsNamed

\* An id of which the index knows nothing.
Unseen(y) ==
  /\ y # root /\ y \notin loaded /\ listing[y] = None /\ Kids(y) = {}
  /\ \A q \in DOMAIN path_map : path_map[q].id # y
  /\ \A e \in DirIds : \A c \in Kids(e) : c.id # y

\* Listings are of folders that are not loaded, and hold no entry of the index.
ListingsNew(D) ==
  /\ \A d \in DirIds : listing[d] # None =>
       /\ d \notin loaded /\ (d = root \/ d \in D)
       /\ \A m \in listing[d] : m.parent = Real(d)
       /\ \A m, n \in listing[d] : m.id = n.id => m = n
  /\ \A q \in Path, m \in Entry : CleanEntry(q, m) => \A e \in DirIds : ~InListing(m.id, e)
  /\ \A d \in Ids :
       /\ d \in loaded => d = root \/ d \in D
       /\ Kids(d) # {} => d <= lastId

\* What the folder holds when the operation on its way has been answered.
Leaving(p, i) ==
  op # None /\ op.kind # "add" /\ Front(op.path) = p /\ path_map[op.path].id = i

Coming(p, x) ==
  op # None /\
    \/ /\ op.kind = "add" /\ Front(op.path) = p
       /\ op.meta.id = x.id /\ op.meta.name = x.name /\ op.meta.dir = x.dir
    \/ /\ op.kind = "move" /\ Front(op.to) = p /\ path_map[op.path].id = x.id
       /\ Last(op.to) = x.name /\ path_map[op.path].dir = x.dir

Alike(c, x) == c.id = x.id /\ c.name = x.name /\ c.dir = x.dir

WillHold(p, d, x) == (~Leaving(p, x.id) /\ \E c \in Kids(d) : Alike(c, x)) \/ Coming(p, x)
Holds(d, x)       == \E e \in cloud : e.parent = Real(d) /\ Alike(e, x)

Doomed(p) == op # None /\ op.kind = "remove" /\ IsPrefix(op.path, p)

LoadedAgree ==
  \A p \in Path, d \in DirIds : CleanDir(p, d) /\ d \in loaded /\ ~Doomed(p) =>
    \A x \in Entry : /\ WillHold(p, d, x) => Holds(d, x)
                     /\ Holds(d, x) /\ x.name \notin Hidden => WillHold(p, d, x)

ListingsAgree ==
  \A p \in Path, d \in DirIds :
    CleanDir(p, d) /\ d \notin loaded /\ ~Doomed(p) /\ listing[d] # None =>
      listing[d] = Contents(cloud, d)

\* A folder that has been deleted, and what is still listed below it.
DoomedGone ==
  \A p \in Path, d \in DirIds : CleanDir(p, d) /\ Doomed(p) =>
    \A e \in cloud : e.id # d /\ ~InListing(e.id, d) /\ \A c \in Kids(d) : c.id # e.id

\* Below the mounted folder nothing is known before its listing is there.
NothingLoaded ==
  Clean(<< >>) /\ root \notin loaded =>
    /\ DOMAIN path_map = {} /\ loaded = {} /\ op = None
    /\ \A e \in DirIds : Kids(e) = {} /\ (e # root => listing[e] = None)
    /\ root = Keyword => Contents(cloud, Top) = {}

Below(d, y) == (y \in Inside(cloud, d) /\ y # d) \/ InListing(y, d)

\* Of what is in a folder that is not loaded the index knows nothing.
BelowUnseen ==
  \A p \in Path, d \in DirIds : p # << >> /\ CleanDir(p, d) /\ d \notin loaded =>
    \A y \in Ids : Below(d, y) =>
      /\ Unseen(y) /\ \A e \in DirIds \ {d} : ~InListing(y, e)
      /\ op # None /\ op.kind = "add" => y # op.meta.id /\ y # op.meta.parent

Mentioned(x) ==
  \/ \E q \in DOMAIN path_map : path_map[q].id = x
  \/ \E d \in DirIds : InListing(x, d) \/ \E c \in Kids(d) : c.id = x
  \/ op # None /\ op.kind = "add" /\ op.meta.id = x

\* The mounted folder is inside none of its entries.
RootAbove == \A x \in Ids : Mentioned(x) => root \notin Inside(cloud, x)

OpClean(o) == \A p \in o.dirs : IsDir(p) /\ Clean(p) /\ DirAt(p) \in loaded

OpSound ==
  op # None =>
    /\ op.dirs = {Front(op.path)} \cup (IF op.kind = "move" THEN {Front(op.to)} ELSE {})
    /\ OpClean(op) \/ \A p \in op.dirs : ~Clean(p)
    /\ op.kind = "add" =>
         /\ op.meta.parent \in Ids => op.meta.parent <= lastId
         /\ \A p \in Path : CleanDir(p, op.meta.parent) => p = Front(op.path)
         /\ \A q \in Path, m \in Entry : CleanEntry(q, m) => m.id # op.meta.id
         /\ OpClean(op) =>
              /\ op.path \notin DOMAIN path_map
              /\ op.meta.parent = DirAt(Front(op.path)) /\ op.meta.name = Last(op.path)
              /\ Unseen(op.meta.id) /\ \A e \in DirIds : ~InListing(op.meta.id, e)
              /\ \A e \in cloud : e.parent # op.meta.id
    /\ op.kind = "remove" /\ OpClean(op) => \A e \in cloud : e.id # path_map[op.path].id
    /\ op.kind = "move" =>
         /\ ~IsPrefix(op.path, op.to)
         /\ OpClean(op) => op.to \notin DOMAIN path_map

\* An id that the index does not yet have to learn from a listing.
Apart(y) ==
  \A x \in Path, e \in DirIds : CleanDir(x, e) /\ e \notin loaded =>
    ~Below(e, y) /\ (x = << >> => y = root)

\* A folder to which at most this path leads.
OnlyAt(d, p) ==
  d \in {root} \cup Ids /\ Apart(d) /\ \A x \in Path : CleanDir(x, d) => x = p

\* What is left of a look-up, whatever has been merged since.
AskSound ==
  ask # None =>
    /\ ask.dirs = {Front(ask.path)} \cup (IF ask.kind = "move" THEN {Front(ask.to)} ELSE {})
    /\ ask.sure => OpClean(ask)
    /\ ask.kind = "add" =>
         /\ OnlyAt(ask.parent, Front(ask.path))
         /\ ask.sure => DirAt(Front(ask.path)) = ask.parent /\ ask.path \notin DOMAIN path_map
    /\ ask.kind # "add" =>
         /\ Apart(ask.id) /\ root \notin Inside(cloud, ask.id)
         /\ \A q \in Path, m \in Entry : CleanEntry(q, m) /\ m.id = ask.id => q = ask.path
         /\ Clean(Front(ask.path)) => path_map[ask.path].id = ask.id
    /\ ask.kind = "move" =>
         /\ ~IsPrefix(ask.path, ask.to) /\ OnlyAt(ask.parent, Front(ask.to))
         /\ ask.sure => DirAt(Front(ask.to)) = ask.parent /\ ask.to \notin DOMAIN path_map
    /\ ask.kind = "remove" /\ ask.listed /\ Clean(Front(ask.path)) /\ path_map[ask.path].dir =>
         ask.id \in loaded /\ Kids(ask.id) = {}

Settled(D) ==
  root # None =>
    /\ Nested /\ ListingsNew(D) /\ LoadedAgree /\ ListingsAgree /\ DoomedGone
    /\ NothingLoaded /\ BelowUnseen /\ RootAbove /\ OpSound
-----------------------------------------------------------------------------
(* What the invariant says of one folder or one record.                      *)

\* Above a path that is not loosened none is.
LEMMA CleanAbove ==
  ASSUME IndexOK, NEW p \in Path, NEW q \in Path, IsPrefix(p, q), Clean(q)
  PROVE  Clean(p)
<1> SUFFICES ASSUME NEW r \in loose, IsPrefix(r, p) PROVE FALSE
  BY DEF Clean
<1>1. r \in Path
  BY DEF IndexOK
<1>2. IsPrefix(r, q)
  BY <1>1, PrefixTrans
<1> QED
  BY <1>2 DEF Clean

LEMMA CleanFront ==
  ASSUME IndexOK, NEW p \in Path, p # << >>, Clean(p)
  PROVE  Clean(Front(p)) /\ Front(p) \in Path
<1>1. Front(p) \in Path
  BY FrontLast
<1>2. IsPrefix(Front(p), Front(p))
  BY <1>1, PrefixSelf
<1>3. IsPrefix(Front(p), p)
  BY <1>1, <1>2, PrefixFront
<1> QED
  BY <1>1, <1>3, CleanAbove

LEMMA CleanShrinks ==
  ASSUME loose \subseteq loose', NEW p
  PROVE  Clean(p)' => Clean(p)
  BY DEF Clean

\* A folder other than the mounted one has a record.
LEMMA DirEntry ==
  ASSUME IndexOK, NEW p, NEW d, CleanDir(p, d), p # << >>
  PROVE  /\ p \in Path /\ p \in DOMAIN path_map /\ path_map[p] \in Entry
         /\ path_map[p].id = d /\ path_map[p].dir /\ d \in Ids
         /\ CleanEntry(p, path_map[p])
<1>1. p \in DOMAIN path_map /\ path_map[p].dir /\ path_map[p].id = d
  BY DEF CleanDir, IsDir, DirAt
<1>2. p \in Path /\ path_map[p] \in Entry
  BY <1>1 DEF IndexOK
<1>3. Clean(Front(p))
  BY <1>2, CleanFront DEF CleanDir
<1> QED
  BY <1>1, <1>2, <1>3 DEF CleanEntry, Entry

\* PathsNest, of one record.
LEMMA EntryNests ==
  ASSUME PathsNest, NEW q \in Path, NEW m \in Entry, CleanEntry(q, m)
  PROVE  /\ CleanDir(Front(q), m.parent) /\ m.parent \in loaded /\ m \in Kids(m.parent)
         /\ m.name = Last(q) /\ m.id \in DOMAIN id_map /\ id_map[m.id] = q
         /\ \A r \in Path : IsPrefix(r, q) /\ r # << >> => r \in DOMAIN path_map
         /\ m.id \in Ids /\ m.parent \in DirIds
<1>1. m.id \in Ids /\ m.parent \in DirIds
  BY DEF Entry
<1> QED
  BY <1>1 DEF PathsNest, CleanEntry, CleanDir

LEMMA MentionedNotRoot ==
  ASSUME RootAbove, NEW x \in Ids, Mentioned(x)
  PROVE  x # root
  BY InsideSelf DEF RootAbove

LEMMA PathIdNotRoot ==
  ASSUME IndexOK, RootAbove, NEW q \in DOMAIN path_map
  PROVE  path_map[q].id \in Ids /\ path_map[q].id # root
<1>1. path_map[q].id \in Ids /\ Mentioned(path_map[q].id)
  BY DEF IndexOK, Entry, Mentioned
<1> QED
  BY <1>1, MentionedNotRoot

\* No other path leads to the id of a folder that is not loosened.
LEMMA DirOnce ==
  ASSUME IndexOK, IdsOnce, RootAbove, NEW p, NEW d, CleanDir(p, d),
         NEW r \in {<< >>} \cup DOMAIN path_map, DirAt(r) = d
  PROVE  r = p
<1>1. CASE p = << >>
  BY <1>1, PathIdNotRoot DEF CleanDir, DirAt
<1>2. CASE p # << >>
  <2>1. p \in DOMAIN path_map /\ path_map[p].id = d /\ CleanEntry(p, path_map[p])
        /\ p \in Path /\ path_map[p] \in Entry
    BY <1>2, DirEntry
  <2>2. r # << >>
    BY <2>1, PathIdNotRoot DEF DirAt
  <2>3. path_map[r].id = path_map[p].id
    BY <2>1, <2>2 DEF DirAt
  <2> QED
    BY <2>1, <2>2, <2>3 DEF IdsOnce
<1> QED
  BY <1>1, <1>2

LEMMA RealOnce ==
  ASSUME root \in DirIds, NEW d \in {root} \cup Ids, NEW e \in {root} \cup Ids, Real(d) = Real(e)
  PROVE  d = e
<1>1. d \in DirIds /\ e \in DirIds
  BY DEF DirIds
<1>2. Top \notin Ids /\ Keyword \notin Ids
  BY SentinelAssumption DEF Top, Ids
<1> QED
  BY <1>1, <1>2, RealDir

\* An entry of a children list has its record, and the folder is loaded.
LEMMA KidEntry ==
  ASSUME IndexOK, KidsNamed, PathsNest, NEW p \in Path, NEW d \in DirIds, CleanDir(p, d),
         NEW c \in Kids(d)
  PROVE  /\ c \in Entry /\ Append(p, c.name) \in Path /\ CleanEntry(Append(p, c.name), c)
         /\ c.parent = d /\ d \in loaded /\ children_map[d][c] = 1
         /\ Front(Append(p, c.name)) = p /\ Append(p, c.name) # << >>
<1>1. c \in Entry /\ c.name \in Names
  BY DEF IndexOK, Entry
<1>2. Append(p, c.name) \in Path /\ Front(Append(p, c.name)) = p /\ Append(p, c.name) # << >>
  BY <1>1, AppendPath
<1>3. /\ children_map[d][c] = 1
      /\ Append(p, c.name) \in DOMAIN path_map /\ path_map[Append(p, c.name)] = c
  BY DEF KidsNamed
<1>4. CleanEntry(Append(p, c.name), c)
  BY <1>2, <1>3 DEF CleanEntry, CleanDir
<1>5. CleanDir(p, c.parent) /\ c.parent \in loaded
  BY <1>1, <1>2, <1>4, EntryNests
<1> QED
  BY <1>1, <1>2, <1>3, <1>4, <1>5 DEF CleanDir

LEMMA UnloadedEmpty ==
  ASSUME IndexOK, KidsNamed, PathsNest, NEW p \in Path, NEW d \in DirIds, CleanDir(p, d), d \notin loaded
  PROVE  Kids(d) = {}
  BY KidEntry

\* The id of such an entry has one path.
LEMMA KidOnce ==
  ASSUME IndexOK, KidsNamed, PathsNest, IdsOnce, NEW p \in Path, NEW d \in DirIds, CleanDir(p, d),
         NEW c \in Kids(d), NEW r \in DOMAIN path_map, path_map[r].id = c.id
  PROVE  r = Append(p, c.name) /\ path_map[r] = c /\ Front(r) = p
<1>1. c \in Entry /\ Append(p, c.name) \in Path /\ CleanEntry(Append(p, c.name), c)
      /\ Front(Append(p, c.name)) = p
  BY KidEntry
<1> QED
  BY <1>1 DEF IdsOnce, CleanEntry

LEMMA SameFolderOnce ==
  ASSUME IndexOK, KidsNamed, PathsNest, IdsOnce, NEW p \in Path, NEW d \in DirIds, CleanDir(p, d),
         NEW c \in Kids(d), NEW e \in Kids(d), c.id = e.id
  PROVE  c = e
<1>1. c \in Entry /\ CleanEntry(Append(p, c.name), c)
  BY KidEntry
<1>2. path_map[Append(p, c.name)] = e
  BY <1>1, KidOnce DEF CleanEntry
<1> QED
  BY <1>1, <1>2 DEF CleanEntry

\* Below a folder that is empty there is no record but a loosened one.
LEMMA NothingBelow ==
  ASSUME IndexOK, PathsNest, NEW p \in DOMAIN path_map,
         path_map[p].dir => Kids(path_map[p].id) = {},
         NEW q \in Path, NEW m \in Entry, CleanEntry(q, m), IsPrefix(p, q)
  PROVE  q = p
<1> SUFFICES ASSUME q # p PROVE FALSE
  OBVIOUS
<1>1. p \in Path /\ p # << >> /\ Len(p) \in Nat /\ Len(q) \in Nat /\ q \in Seq(Names)
      /\ Len(p) > 0 /\ p \in Seq(Names)
  BY DEF IndexOK, Path
<1>2. Len(p) < Len(q) /\ \A i \in 1..Len(p) : p[i] = q[i]
  <2>1. Len(p) <= Len(q) /\ \A i \in 1..Len(p) : p[i] = q[i]
    BY <1>1, PrefixMeans DEF Path
  <2>2. Len(p) = Len(q) => p = q
    BY <1>1, <2>1, SeqEqual
  <2> QED
    BY <1>1, <2>1, <2>2
<1> DEFINE r == Append(p, q[Len(p) + 1])
<1>3. q[Len(p) + 1] \in Names
  BY <1>1, <1>2
<1>4. /\ r \in Path /\ r # << >> /\ Front(r) = p
      /\ Len(r) = Len(p) + 1 /\ r[Len(p) + 1] = q[Len(p) + 1]
      /\ \A i \in 1..Len(p) : r[i] = p[i]
  BY <1>1, <1>3, AppendPath DEF Path
<1> HIDE DEF r
<1>5. IsPrefix(r, q)
  BY <1>1, <1>2, <1>4, PrefixMeans
<1>6. r \in DOMAIN path_map
  BY <1>4, <1>5, EntryNests
<1>7. IsPrefix(r, q) /\ q # << >>
  BY <1>1, <1>2, <1>5
<1>8. Clean(p)
  <2>1. IsPrefix(p, Front(q)) /\ Front(q) \in Path
    BY <1>1, <1>7, PrefixFront, FrontLast
  <2> QED
    BY <1>1, <2>1, CleanAbove DEF CleanEntry
<1>9. path_map[r] \in Entry /\ CleanEntry(r, path_map[r])
  BY <1>4, <1>6, <1>8 DEF CleanEntry, IndexOK
<1>10. CleanDir(p, path_map[r].parent) /\ path_map[r] \in Kids(path_map[r].parent)
  BY <1>4, <1>9, EntryNests
<1> QED
  BY <1>1, <1>10 DEF CleanDir, IsDir, DirAt

-----------------------------------------------------------------------------
(* What the edits of the maps do to the records.                             *)

LEMMA CleanStays ==
  ASSUME root' = root, path_map' = path_map, loose \subseteq loose', NEW p, NEW d
  PROVE  /\ CleanDir(p, d)' => CleanDir(p, d)
         /\ CleanEntry(p, d)' => CleanEntry(p, d)
         /\ DirAt(p)' = DirAt(p) /\ IsDir(p)' = IsDir(p)
  BY DEF CleanDir, CleanEntry, IsDir, DirAt, Clean

\* The maps fit together as long as they stay and what is loosened only grows.
LEMMA NestStays ==
  ASSUME Nested, UNCHANGED <<root, index>>, loaded \subseteq loaded', loose \subseteq loose'
  PROVE  Nested'
<1>1. /\ path_map' = path_map /\ id_map' = id_map /\ children_map' = children_map /\ root' = root
      /\ \A d : Kids(d)' = Kids(d)
  BY DEF index, Kids
<1>2. \A p, d : /\ CleanDir(p, d)' => CleanDir(p, d)
                /\ CleanEntry(p, d)' => CleanEntry(p, d)
                /\ DirAt(p)' = DirAt(p) /\ IsDir(p)' = IsDir(p)
                /\ Clean(p)' => Clean(p)
  BY <1>1, CleanStays, CleanShrinks
<1>3. PathsNest'
  BY <1>1, <1>2 DEF Nested, PathsNest
<1>4. IdsOnce'
  BY <1>1, <1>2 DEF Nested, IdsOnce
<1>5. IdsLead'
  BY <1>1, <1>2 DEF Nested, IdsLead
<1>6. KidsNamed'
  BY <1>1, <1>2 DEF Nested, KidsNamed
<1> QED
  BY <1>3, <1>4, <1>5, <1>6 DEF Nested

\* A record goes, and with it, at least as a promise, all that is below it.
LEMMA RemoveNests ==
  ASSUME IndexOK, Nested, NEW p \in DOMAIN path_map, RemoveEntry(p), root' = root,
         loaded' = loaded, loose \subseteq loose',
         \A q \in Path : q \in DOMAIN path_map /\ q # p /\ IsPrefix(p, q) => ~Clean(Front(q))'
  PROVE  /\ Nested'
         /\ \A q, m : CleanEntry(q, m)' =>
              CleanEntry(q, m) /\ q # p /\ (q \in Path /\ m \in Entry => m.id # path_map[p].id)
         /\ \A q, d : CleanDir(q, d)' => CleanDir(q, d) /\ q # p
         /\ \A d \in DirIds : Kids(d)' \subseteq Kids(d)
                              /\ \A c \in Kids(d) : c.id # path_map[p].id => c \in Kids(d)'
         /\ \A d \in DirIds : d = path_map[p].parent => \A c \in Kids(d)' : c.id # path_map[p].id
<1>0. PathsNest /\ IdsOnce /\ IdsLead /\ KidsNamed
  BY DEF Nested
<1>1. PICK m : m = path_map[p]
  OBVIOUS
<1>2. /\ DOMAIN path_map' = DOMAIN path_map \ {p}
      /\ \A q \in DOMAIN path_map' : path_map'[q] = path_map[q]
      /\ DOMAIN id_map' = DOMAIN id_map \ {m.id}
      /\ \A i \in DOMAIN id_map' : id_map'[i] = id_map[i]
      /\ DOMAIN children_map' = DirIds /\ m.parent \in DirIds
      /\ children_map'[m.parent] = Dropped(children_map[m.parent], m.id)
      /\ \A d \in DirIds \ {m.parent} : children_map'[d] = children_map[d]
  BY <1>1, RemoveEntryIs
<1>3. p \in Path /\ p # << >> /\ m \in Entry /\ \A d \in DirIds : IsABag(children_map[d])
  BY <1>1 DEF IndexOK
<1>4. /\ \A d \in DirIds : Kids(d)' \subseteq Kids(d)
      /\ \A d \in DirIds : \A c \in Kids(d)' : children_map'[d][c] = children_map[d][c]
      /\ \A d \in DirIds : \A c \in Kids(d) : c.id # m.id => c \in Kids(d)'
      /\ \A c \in Kids(m.parent)' : c.id # m.id
  <2>1. /\ BagToSet(children_map'[m.parent]) = {c \in BagToSet(children_map[m.parent]) : c.id # m.id}
        /\ \A c \in BagToSet(children_map'[m.parent]) :
             children_map'[m.parent][c] = children_map[m.parent][c]
    BY <1>2, <1>3, BagDropped
  <2> QED
    BY <1>2, <2>1 DEF Kids
<1>5. \A q \in DOMAIN path_map' : q \in DOMAIN path_map /\ q # p
  BY <1>2
<1>6. \A q : Clean(q)' => Clean(q)
  BY CleanShrinks
<1>7. ASSUME NEW q, NEW n, CleanEntry(q, n)'
      PROVE  CleanEntry(q, n) /\ q # p /\ (q \in Path /\ n \in Entry => n.id # m.id)
  <2>1. CleanEntry(q, n) /\ q # p
    BY <1>2, <1>6, <1>7 DEF CleanEntry
  <2>2. q \in Path /\ n \in Entry => n.id # m.id
    BY <1>0, <1>1, <2>1 DEF IdsOnce
  <2> QED
    BY <2>1, <2>2
<1>8. ASSUME NEW q, NEW d, CleanDir(q, d)' PROVE CleanDir(q, d) /\ q # p
  BY <1>2, <1>3, <1>6, <1>8 DEF CleanDir, IsDir, DirAt
<1>9. PathsNest'
  <2> SUFFICES ASSUME NEW q \in Path, NEW n \in Entry, CleanEntry(q, n)'
               PROVE  /\ IsDir(Front(q))' /\ DirAt(Front(q))' = n.parent /\ n.parent \in loaded'
                      /\ n \in Kids(n.parent)' /\ n.name = Last(q)
                      /\ n.id \in DOMAIN id_map' /\ id_map'[n.id] = q
                      /\ \A r \in Path : IsPrefix(r, q) /\ r # << >> => r \in DOMAIN path_map'
    BY DEF PathsNest
  <2>1. CleanEntry(q, n) /\ q # p /\ n.id # m.id
    BY <1>7
  <2>2. /\ CleanDir(Front(q), n.parent) /\ n.parent \in loaded /\ n \in Kids(n.parent)
        /\ n.name = Last(q) /\ n.id \in DOMAIN id_map /\ id_map[n.id] = q
        /\ \A r \in Path : IsPrefix(r, q) /\ r # << >> => r \in DOMAIN path_map
        /\ n.parent \in DirIds
    BY <1>0, <2>1, EntryNests
  <2>3. q \in DOMAIN path_map /\ q # << >> /\ Clean(Front(q))'
    BY <2>1 DEF CleanEntry, IndexOK
  <2>4. ~IsPrefix(p, q)
    BY <2>1, <2>3
  <2>5. Front(q) # p
    BY <1>3, <2>3, <2>4, PrefixFront, PrefixSelf
  <2>6. IsDir(Front(q))' /\ DirAt(Front(q))' = n.parent
    BY <1>2, <2>2, <2>5 DEF CleanDir, IsDir, DirAt
  <2>7. n \in Kids(n.parent)'
    BY <1>4, <2>1, <2>2
  <2>8. n.id \in DOMAIN id_map' /\ id_map'[n.id] = q
    BY <1>2, <2>1, <2>2
  <2>9. \A r \in Path : IsPrefix(r, q) /\ r # << >> => r \in DOMAIN path_map'
    BY <1>2, <2>2, <2>4
  <2> QED
    BY <2>2, <2>6, <2>7, <2>8, <2>9
<1>10. IdsOnce'
  BY <1>0, <1>2, <1>7 DEF IdsOnce
<1>11. IdsLead'
  <2> SUFFICES ASSUME NEW i \in Ids, NEW q \in Path, i \in DOMAIN id_map', id_map'[i] = q,
                      Clean(Front(q))'
               PROVE  q \in DOMAIN path_map' /\ path_map'[q].id = i
    BY DEF IdsLead
  <2>1. q \in DOMAIN path_map /\ path_map[q].id = i /\ i # m.id
    BY <1>0, <1>2, <1>6 DEF IdsLead
  <2> QED
    BY <1>1, <1>2, <2>1
<1>12. KidsNamed'
  <2> SUFFICES ASSUME NEW q \in Path, NEW d \in DirIds, CleanDir(q, d)', NEW c \in Kids(d)'
               PROVE  /\ children_map'[d][c] = 1
                      /\ Append(q, c.name) \in DOMAIN path_map' /\ path_map'[Append(q, c.name)] = c
    BY DEF KidsNamed
  <2>1. CleanDir(q, d) /\ c \in Kids(d) /\ children_map'[d][c] = children_map[d][c]
    BY <1>4, <1>8
  <2>2. /\ children_map[d][c] = 1 /\ CleanEntry(Append(q, c.name), c) /\ c.parent = d
    BY <1>0, <2>1, KidEntry
  <2>3. Append(q, c.name) # p
    BY <1>1, <1>4, <2>2 DEF CleanEntry
  <2> QED
    BY <1>2, <2>1, <2>2, <2>3 DEF CleanEntry
<1> QED
  BY <1>1, <1>4, <1>7, <1>8, <1>9, <1>10, <1>11, <1>12 DEF Nested

\* A new record comes in: in a folder that is kept right it is one more, in a
\* loosened one it touches no record that is kept right.
LEMMA AddNests ==
  ASSUME IndexOK, Nested, RootAbove, NEW q \in Path, q # << >>, NEW m \in Entry, AddEntry(q, m),
         root' = root, loaded' = loaded, loose' = loose,
         \A p \in Path : CleanDir(p, m.parent) => p = Front(q),
         \A r \in Path, n \in Entry : CleanEntry(r, n) => n.id # m.id,
         Clean(Front(q)) =>
           /\ q \notin DOMAIN path_map /\ m.parent = DirAt(Front(q)) /\ m.name = Last(q)
           /\ IsDir(Front(q)) /\ m.parent \in loaded /\ Unseen(m.id)
  PROVE  /\ Nested'
         /\ \A r \in Path : \A n : CleanEntry(r, n)' =>
              \/ CleanEntry(r, n) /\ r # q
              \/ r = q /\ n = m /\ Clean(Front(q))
         /\ \A p \in Path : \A d : CleanDir(p, d)' =>
              \/ CleanDir(p, d) /\ p # q
              \/ p = q /\ d = m.id /\ m.dir /\ Clean(Front(q))
         /\ \A d \in DirIds \ {m.parent} : Kids(d)' = Kids(d)
         /\ Kids(m.parent)' = Kids(m.parent) \cup {m}
<1>0. PathsNest /\ IdsOnce /\ IdsLead /\ KidsNamed
  BY DEF Nested
<1>1. m.parent \in DirIds /\ m.id \in Ids /\ m.id \in DirIds
  BY DEF Entry, DirIds
<1>2. /\ DOMAIN path_map' = DOMAIN path_map \cup {q} /\ path_map'[q] = m
      /\ \A r \in DOMAIN path_map : r # q => path_map'[r] = path_map[r]
      /\ DOMAIN id_map' = DOMAIN id_map \cup {m.id} /\ id_map'[m.id] = q
      /\ \A i \in DOMAIN id_map : i # m.id => id_map'[i] = id_map[i]
      /\ DOMAIN children_map' = DirIds
      /\ children_map'[m.parent] = Plus(children_map[m.parent], m)
      /\ \A d \in DirIds \ {m.parent} : children_map'[d] = children_map[d]
  BY <1>1, AddEntryIs
<1>3. /\ \A d \in DirIds \ {m.parent} : Kids(d)' = Kids(d)
      /\ Kids(m.parent)' = Kids(m.parent) \cup {m}
      /\ \A c \in Kids(m.parent) \ {m} : children_map'[m.parent][c] = children_map[m.parent][c]
      /\ m \notin Kids(m.parent) => children_map'[m.parent][m] = 1
  <2>1. IsABag(children_map[m.parent])
    BY <1>1 DEF IndexOK
  <2>2. /\ BagToSet(Plus(children_map[m.parent], m)) = BagToSet(children_map[m.parent]) \cup {m}
        /\ \A c \in BagToSet(children_map[m.parent]) \ {m} :
             Plus(children_map[m.parent], m)[c] = children_map[m.parent][c]
        /\ m \notin BagToSet(children_map[m.parent]) => Plus(children_map[m.parent], m)[m] = 1
    BY <2>1, BagPlus
  <2> QED
    BY <1>2, <2>2 DEF Kids
<1>4. Front(q) \in Path /\ Append(Front(q), Last(q)) = q /\ (Clean(q) => Clean(Front(q)))
      /\ Front(q) # q
  <2>1. Front(q) \in Path /\ Append(Front(q), Last(q)) = q /\ Len(q) > 0 /\ Len(q) \in Nat
        /\ Len(Front(q)) = Len(q) - 1
    BY FrontLast
  <2> QED
    BY <2>1, CleanFront
<1>5. \A r : Clean(r)' <=> Clean(r)
  BY DEF Clean
<1>6. Clean(Front(q)) => CleanDir(Front(q), m.parent)
  BY DEF CleanDir
<1>7. \A r \in Path : \A n : CleanEntry(r, n)' =>
        \/ CleanEntry(r, n) /\ r # q
        \/ r = q /\ n = m /\ Clean(Front(q))
  BY <1>2, <1>5 DEF CleanEntry
<1>8. \A p \in Path : \A d : CleanDir(p, d)' =>
        \/ CleanDir(p, d) /\ p # q
        \/ p = q /\ d = m.id /\ m.dir /\ Clean(Front(q))
  <2> SUFFICES ASSUME NEW p \in Path, NEW d, CleanDir(p, d)'
               PROVE  \/ CleanDir(p, d) /\ p # q
                      \/ p = q /\ d = m.id /\ m.dir /\ Clean(Front(q))
    OBVIOUS
  <2>1. CASE p = q
    BY <1>2, <1>4, <1>5, <2>1 DEF CleanDir, IsDir, DirAt
  <2>2. CASE p # q
    BY <1>2, <1>5, <2>2 DEF CleanDir, IsDir, DirAt
  <2> QED
    BY <2>1, <2>2
<1>9. \A p \in Path : \A d : CleanDir(p, d) => p # q
  <2> SUFFICES ASSUME NEW d, CleanDir(q, d) PROVE FALSE
    OBVIOUS
  <2>1. q \in DOMAIN path_map
    BY DirEntry
  <2> QED
    BY <1>4, <2>1 DEF CleanDir
<1>10. \A p \in Path : \A d : CleanDir(p, d) => IsDir(p)' /\ DirAt(p)' = d
  BY <1>2, <1>9 DEF CleanDir, IsDir, DirAt
<1>11. PathsNest'
  <2> SUFFICES ASSUME NEW r \in Path, NEW n \in Entry, CleanEntry(r, n)'
               PROVE  /\ IsDir(Front(r))' /\ DirAt(Front(r))' = n.parent /\ n.parent \in loaded'
                      /\ n \in Kids(n.parent)' /\ n.name = Last(r)
                      /\ n.id \in DOMAIN id_map' /\ id_map'[n.id] = r
                      /\ \A x \in Path : IsPrefix(x, r) /\ x # << >> => x \in DOMAIN path_map'
    BY DEF PathsNest
  <2>1. CASE CleanEntry(r, n)
    <3>1. /\ CleanDir(Front(r), n.parent) /\ n.parent \in loaded /\ n \in Kids(n.parent)
          /\ n.name = Last(r) /\ n.id \in DOMAIN id_map /\ id_map[n.id] = r
          /\ \A x \in Path : IsPrefix(x, r) /\ x # << >> => x \in DOMAIN path_map
          /\ n.parent \in DirIds
      BY <1>0, <2>1, EntryNests
    <3>2. n.id # m.id
      BY <2>1
    <3>3. r # << >> /\ Front(r) \in Path
      BY <2>1, FrontLast DEF CleanEntry, IndexOK
    <3>4. IsDir(Front(r))' /\ DirAt(Front(r))' = n.parent
      BY <1>10, <3>1, <3>3
    <3>5. n \in Kids(n.parent)'
      BY <1>3, <3>1
    <3> QED
      BY <1>2, <3>1, <3>2, <3>4, <3>5
  <2>2. CASE r = q /\ n = m /\ Clean(Front(q))
    <3>1. CleanDir(Front(q), m.parent) /\ m.parent \in loaded /\ m.name = Last(q)
      BY <1>6, <2>2
    <3>2. IsDir(Front(q))' /\ DirAt(Front(q))' = m.parent
      BY <1>4, <1>10, <3>1
    <3>3. ASSUME NEW x \in Path, IsPrefix(x, q), x # << >> PROVE x \in DOMAIN path_map'
      <4>1. CASE x = q
        BY <1>2, <4>1
      <4>2. CASE x # q
        <5>1. IsPrefix(x, Front(q))
          BY <3>3, <4>2, PrefixFront
        <5>2. CASE Front(q) = << >>
          <6>1. << >> \in Path /\ IsPrefix(x, << >>)
            BY <1>4, <5>1, <5>2
          <6>2. Len(x) <= Len(<< >>)
            BY <6>1, PrefixMeans
          <6>3. Len(x) \in Nat /\ Len(<< >>) = 0 /\ (Len(x) = 0 => x = << >>)
            BY EmptySeq, LenProperties DEF Path
          <6> QED
            BY <3>3, <6>2, <6>3
        <5>3. CASE Front(q) # << >>
          <6>1. CleanEntry(Front(q), path_map[Front(q)]) /\ path_map[Front(q)] \in Entry
            BY <3>1, <5>3, DirEntry
          <6> QED
            BY <1>0, <1>2, <1>4, <3>3, <5>1, <6>1, EntryNests
        <5> QED
          BY <5>2, <5>3
      <4> QED
        BY <4>1, <4>2
    <3> QED
      BY <1>2, <1>3, <2>2, <3>1, <3>2, <3>3
  <2> QED
    BY <1>7, <2>1, <2>2
<1>12. IdsOnce'
  <2> SUFFICES ASSUME NEW r \in Path, NEW n \in Entry, CleanEntry(r, n)',
                      NEW x \in DOMAIN path_map', path_map'[x].id = n.id
               PROVE  x = r
    BY DEF IdsOnce
  <2>1. CASE CleanEntry(r, n)
    BY <1>0, <1>2, <2>1 DEF IdsOnce
  <2>2. CASE r = q /\ n = m /\ Clean(Front(q))
    BY <1>2, <2>2 DEF Unseen
  <2> QED
    BY <1>7, <2>1, <2>2
<1>13. IdsLead'
  <2> SUFFICES ASSUME NEW i \in Ids, NEW r \in Path, i \in DOMAIN id_map', id_map'[i] = r,
                      Clean(Front(r))'
               PROVE  r \in DOMAIN path_map' /\ path_map'[r].id = i
    BY DEF IdsLead
  <2>1. CASE i = m.id
    BY <1>2, <2>1
  <2>2. CASE i # m.id
    <3>1. r \in DOMAIN path_map /\ path_map[r].id = i
      BY <1>0, <1>2, <1>5, <2>2 DEF IdsLead
    <3>2. r # q
      BY <1>5, <3>1
    <3> QED
      BY <1>2, <3>1, <3>2
  <2> QED
    BY <2>1, <2>2
<1>14. KidsNamed'
  <2> SUFFICES ASSUME NEW p \in Path, NEW d \in DirIds, CleanDir(p, d)', NEW c \in Kids(d)'
               PROVE  /\ children_map'[d][c] = 1
                      /\ Append(p, c.name) \in DOMAIN path_map' /\ path_map'[Append(p, c.name)] = c
    BY DEF KidsNamed
  <2>1. CASE CleanDir(p, d) /\ c \in Kids(d)
    <3>1. /\ children_map[d][c] = 1 /\ CleanEntry(Append(p, c.name), c)
          /\ Front(Append(p, c.name)) = p /\ c \in Entry /\ Append(p, c.name) \in Path
      BY <1>0, <2>1, KidEntry
    <3>2. c # m
      BY <3>1
    <3>3. Append(p, c.name) # q
      BY <2>1, <3>1 DEF CleanEntry, CleanDir
    <3>4. children_map'[d][c] = children_map[d][c]
      BY <1>2, <1>3, <2>1, <3>2
    <3> QED
      BY <1>2, <3>1, <3>3, <3>4 DEF CleanEntry
  <2>2. CASE CleanDir(p, d) /\ c \notin Kids(d)
    <3>1. d = m.parent /\ c = m /\ p = Front(q)
      BY <1>3, <2>2
    <3>2. Clean(Front(q)) /\ m.name = Last(q)
      BY <2>2, <3>1 DEF CleanDir
    <3> QED
      BY <1>2, <1>3, <1>4, <2>2, <3>1, <3>2
  <2>3. CASE p = q /\ d = m.id /\ m.dir /\ Clean(Front(q))
    <3>1. m.id # m.parent
      <4>1. m.parent = DirAt(Front(q)) /\ Unseen(m.id) /\ CleanDir(Front(q), m.parent)
        BY <1>6, <2>3
      <4> QED
        BY <4>1 DEF Unseen, DirAt, CleanDir, IsDir
    <3>2. Kids(m.id)' = {}
      BY <1>1, <1>3, <2>3, <3>1 DEF Unseen
    <3> QED
      BY <2>3, <3>2
  <2> QED
    BY <1>8, <2>1, <2>2, <2>3
<1> QED
  BY <1>3, <1>7, <1>8, <1>11, <1>12, <1>13, <1>14 DEF Nested

LEMMA PathKnown ==
  ASSUME IndexOK, PathsNest, NEW p \in Path, NEW d, CleanDir(p, d),
         NEW x \in Path, IsPrefix(x, p), x # << >>
  PROVE  x \in DOMAIN path_map
<1>1. CASE p = << >>
  <2>1. Len(x) <= Len(<< >>)
    BY <1>1, PrefixMeans
  <2>2. Len(x) \in Nat /\ Len(<< >>) = 0 /\ (Len(x) = 0 => x = << >>)
    BY EmptySeq, LenProperties DEF Path
  <2> QED
    BY <2>1, <2>2
<1>2. CASE p # << >>
  <2>1. CleanEntry(p, path_map[p]) /\ path_map[p] \in Entry
    BY <1>2, DirEntry
  <2> QED
    BY <2>1, EntryNests
<1> QED
  BY <1>1, <1>2

\* A record is renamed: nothing is left below its old path, or both ends of the
\* rename are loosened.
LEMMA MoveNests ==
  ASSUME IndexOK, Nested, RootAbove, NEW p \in DOMAIN path_map, NEW q \in Path, q # << >>,
         Front(q) \in {<< >>} \cup DOMAIN path_map, DirAt(Front(q)) \in DirIds,
         MoveEntry(p, q), root' = root, loaded' = loaded, loose \subseteq loose',
         ~IsPrefix(p, q), LeftBehind(p) # {} => p \in loose' /\ q \in loose',
         Clean(Front(p)) <=> Clean(Front(q)),
         Clean(Front(q)) =>
           q \notin DOMAIN path_map /\ IsDir(Front(q)) /\ DirAt(Front(q)) \in loaded,
         NEW m, m = path_map[p], NEW n, n = Moved(p, q)
  PROVE  /\ Nested'
         /\ m \in Entry /\ n \in Entry /\ n.id = m.id /\ n.dir = m.dir
         /\ n.name = Last(q) /\ n.parent = DirAt(Front(q))
         /\ \A r \in Path, x \in Entry : CleanEntry(r, x)' =>
              \/ CleanEntry(r, x) /\ r # p /\ r # q /\ x.id # m.id
              \/ r = q /\ x = n /\ Clean(Front(q))
         /\ \A r \in Path, d \in DirIds : CleanDir(r, d)' =>
              \/ CleanDir(r, d) /\ r # p /\ r # q
              \/ /\ r = q /\ d = m.id /\ m.dir /\ Clean(Front(q))
                 /\ CleanDir(p, d) /\ Kids(d) = {} /\ Kids(d)' = {}
         /\ \A d \in DirIds : Kids(d)' = {c \in Kids(d) : d = m.parent => c.id # m.id}
                                           \cup (IF d = n.parent THEN {n} ELSE {})
<1>0. PathsNest /\ IdsOnce /\ IdsLead /\ KidsNamed
  BY DEF Nested
<1>1. /\ m \in Entry /\ n \in Entry /\ n.id = m.id /\ n.dir = m.dir
      /\ n.name = Last(q) /\ n.parent = DirAt(Front(q))
      /\ m.parent \in DirIds /\ n.parent \in DirIds /\ p \in Path /\ p # << >> /\ m.id \in Ids
      /\ Front(p) \in Path /\ Front(q) \in Path /\ Append(Front(q), Last(q)) = q
  <2>1. p \in Path /\ p # << >>
    BY DEF IndexOK
  <2>2. m \in Entry /\ n \in Entry /\ n.id = m.id /\ n.dir = m.dir
        /\ n.name = Last(q) /\ n.parent = DirAt(Front(q)) /\ m.parent \in DirIds
    BY MovedIs
  <2> QED
    BY <2>1, <2>2, FrontLast DEF Entry
<1> DEFINE kids == [children_map EXCEPT ![path_map[p].parent] = Dropped(@, path_map[p].id)]
<1>2. /\ DOMAIN path_map' = (DOMAIN path_map \ {p}) \cup {q} /\ path_map'[q] = Moved(p, q)
      /\ \A r \in DOMAIN path_map \ {p} : r # q => path_map'[r] = path_map[r]
      /\ DOMAIN id_map' = DOMAIN id_map \cup {path_map[p].id} /\ id_map'[path_map[p].id] = q
      /\ \A i \in DOMAIN id_map : i # path_map[p].id => id_map'[i] = id_map[i]
      /\ DOMAIN children_map' = DirIds
      /\ kids[path_map[p].parent] = Dropped(children_map[path_map[p].parent], path_map[p].id)
      /\ \A d \in DirIds \ {path_map[p].parent} : kids[d] = children_map[d]
      /\ children_map'[Moved(p, q).parent] = Plus(kids[Moved(p, q).parent], Moved(p, q))
      /\ \A d \in DirIds \ {Moved(p, q).parent} : children_map'[d] = kids[d]
  BY MoveEntryIs
<1> HIDE DEF kids
<1>3. /\ DOMAIN path_map' = (DOMAIN path_map \ {p}) \cup {q} /\ path_map'[q] = n
      /\ \A r \in DOMAIN path_map \ {p} : r # q => path_map'[r] = path_map[r]
      /\ DOMAIN id_map' = DOMAIN id_map \cup {m.id} /\ id_map'[m.id] = q
      /\ \A i \in DOMAIN id_map : i # m.id => id_map'[i] = id_map[i]
      /\ DOMAIN children_map' = DirIds
      /\ kids[m.parent] = Dropped(children_map[m.parent], m.id)
      /\ \A d \in DirIds \ {m.parent} : kids[d] = children_map[d]
      /\ children_map'[n.parent] = Plus(kids[n.parent], n)
      /\ \A d \in DirIds \ {n.parent} : children_map'[d] = kids[d]
  BY <1>2
<1>4. \A d \in DirIds :
        /\ IsABag(kids[d])
        /\ BagToSet(kids[d]) = {c \in Kids(d) : d = m.parent => c.id # m.id}
        /\ \A c \in BagToSet(kids[d]) : kids[d][c] = children_map[d][c]
  <2>1. \A d \in DirIds : IsABag(children_map[d])
    BY DEF IndexOK
  <2>2. /\ IsABag(kids[m.parent])
        /\ BagToSet(kids[m.parent]) = {c \in BagToSet(children_map[m.parent]) : c.id # m.id}
        /\ \A c \in BagToSet(kids[m.parent]) : kids[m.parent][c] = children_map[m.parent][c]
    BY <1>1, <1>3, <2>1, BagDropped
  <2> SUFFICES ASSUME NEW d \in DirIds
               PROVE  /\ IsABag(kids[d])
                      /\ BagToSet(kids[d]) = {c \in Kids(d) : d = m.parent => c.id # m.id}
                      /\ \A c \in BagToSet(kids[d]) : kids[d][c] = children_map[d][c]
    OBVIOUS
  <2>3. CASE d = m.parent
    BY <2>2, <2>3 DEF Kids
  <2>4. CASE d # m.parent
    BY <1>3, <2>1, <2>4 DEF Kids
  <2> QED
    BY <2>3, <2>4
<1>5. /\ \A d \in DirIds : Kids(d)' = {c \in Kids(d) : d = m.parent => c.id # m.id}
                                        \cup (IF d = n.parent THEN {n} ELSE {})
      /\ \A d \in DirIds : \A c \in Kids(d) :
           (d = m.parent => c.id # m.id) /\ c # n => children_map'[d][c] = children_map[d][c]
      /\ \/ n \in Kids(n.parent) /\ (n.parent = m.parent => n.id # m.id)
         \/ children_map'[n.parent][n] = 1
  <2>1. /\ BagToSet(children_map'[n.parent]) = BagToSet(kids[n.parent]) \cup {n}
        /\ \A c \in BagToSet(kids[n.parent]) \ {n} : children_map'[n.parent][c] = kids[n.parent][c]
        /\ n \notin BagToSet(kids[n.parent]) => children_map'[n.parent][n] = 1
    <3>1. children_map'[n.parent] = Plus(kids[n.parent], n) /\ IsABag(kids[n.parent])
      BY <1>1, <1>3, <1>4
    <3> QED
      BY <3>1, BagPlus
  <2>2. ASSUME NEW d \in DirIds
        PROVE  Kids(d)' = {c \in Kids(d) : d = m.parent => c.id # m.id}
                            \cup (IF d = n.parent THEN {n} ELSE {})
    <3>1. Kids(d)' = BagToSet(kids[d]) \cup (IF d = n.parent THEN {n} ELSE {})
      BY <1>3, <2>1 DEF Kids
    <3> QED
      BY <1>4, <3>1
  <2>3. ASSUME NEW d \in DirIds, NEW c \in Kids(d), d = m.parent => c.id # m.id, c # n
        PROVE  children_map'[d][c] = children_map[d][c]
    <3>1. c \in BagToSet(kids[d]) /\ kids[d][c] = children_map[d][c]
      BY <1>4, <2>3
    <3> QED
      BY <1>3, <2>1, <2>3, <3>1
  <2>4. \/ n \in Kids(n.parent) /\ (n.parent = m.parent => n.id # m.id)
        \/ children_map'[n.parent][n] = 1
    BY <1>1, <1>4, <2>1
  <2> QED
    BY <2>2, <2>3, <2>4
<1>6. \A r : Clean(r)' => Clean(r)
  BY CleanShrinks
<1>7. \A r \in Path : r \in DOMAIN path_map /\ r # p /\ IsPrefix(p, r) =>
        p \in loose' /\ q \in loose' /\ ~Clean(Front(r))'
  <2> SUFFICES ASSUME NEW r \in Path, r \in DOMAIN path_map, r # p, IsPrefix(p, r)
               PROVE  p \in loose' /\ q \in loose' /\ ~Clean(Front(r))'
    OBVIOUS
  <2>1. p \in loose' /\ q \in loose'
    BY DEF LeftBehind, IsStrictPrefix
  <2>2. r # << >>
    BY DEF IndexOK
  <2>3. IsPrefix(p, Front(r))
    BY <1>1, <2>2, PrefixFront
  <2> QED
    BY <2>1, <2>3 DEF Clean
<1>8. \A r \in Path, x \in Entry : CleanEntry(r, x)' =>
        \/ CleanEntry(r, x) /\ r # p /\ r # q /\ x.id # m.id /\ ~IsPrefix(p, r)
        \/ r = q /\ x = n /\ Clean(Front(q))
  <2> SUFFICES ASSUME NEW r \in Path, NEW x \in Entry, CleanEntry(r, x)', r # q
               PROVE  CleanEntry(r, x) /\ r # p /\ x.id # m.id /\ ~IsPrefix(p, r)
    BY <1>3, <1>6 DEF CleanEntry
  <2>1. CleanEntry(r, x) /\ r # p
    BY <1>3, <1>6 DEF CleanEntry
  <2>2. x.id # m.id
    BY <1>0, <2>1 DEF IdsOnce
  <2>3. ~IsPrefix(p, r)
    BY <1>7, <2>1 DEF CleanEntry
  <2> QED
    BY <2>1, <2>2, <2>3
<1>9. ASSUME Clean(q)'
      PROVE  /\ Clean(Front(q)) /\ Clean(p)
             /\ m.dir => CleanDir(p, m.id) /\ Kids(m.id) = {} /\ Kids(m.id)' = {}
  <2>1. Clean(Front(q)) /\ Clean(Front(p))
    BY <1>6, <1>9, CleanFront
  <2>2. LeftBehind(p) = {}
    <3>1. q \notin loose'
      BY <1>9, PrefixSelf DEF Clean
    <3> QED
      BY <3>1
  <2>3. p \notin loose
    BY <1>1, <2>2, PrefixSelf DEF LeftBehind
  <2>4. Clean(p)
    <3>1. \A r \in loose : r \in Path
      BY DEF IndexOK
    <3> QED
      BY <1>1, <2>1, <2>3, <3>1, PrefixFront DEF Clean
  <2>5. ASSUME m.dir PROVE CleanDir(p, m.id) /\ Kids(m.id) = {} /\ Kids(m.id)' = {}
    <3>1. CleanDir(p, m.id) /\ m.id \in DirIds
      BY <1>1, <2>4, <2>5 DEF CleanDir, IsDir, DirAt, DirIds
    <3>2. ASSUME NEW c \in Kids(m.id) PROVE FALSE
      <4>1. /\ CleanEntry(Append(p, c.name), c) /\ Append(p, c.name) \in Path
            /\ Front(Append(p, c.name)) = p /\ Append(p, c.name) # << >>
        BY <1>0, <1>1, <3>1, KidEntry
      <4>2. IsPrefix(p, Append(p, c.name)) /\ Append(p, c.name) # p
        <5>1. IsPrefix(p, Append(p, c.name))
          BY <1>1, <4>1, PrefixFront, PrefixSelf
        <5>2. Len(Append(p, c.name)) # Len(Front(Append(p, c.name)))
          BY <4>1, FrontLast
        <5> QED
          BY <4>1, <5>1, <5>2
      <4> QED
        BY <2>2, <4>1, <4>2 DEF LeftBehind, IsStrictPrefix, CleanEntry
    <3>3. m.id # n.parent
      <4>1. n.parent = m.id => Front(q) = p
        BY <1>0, <1>1, <3>1, DirOnce
      <4> QED
        BY <1>1, <4>1, PrefixFront, PrefixSelf
    <3> QED
      BY <1>5, <3>1, <3>2, <3>3
  <2> QED
    BY <2>1, <2>4, <2>5
<1>10. \A r \in Path, d \in DirIds : CleanDir(r, d)' =>
         \/ CleanDir(r, d) /\ r # p /\ r # q
         \/ /\ r = q /\ d = m.id /\ m.dir /\ Clean(Front(q))
            /\ CleanDir(p, d) /\ Kids(d) = {} /\ Kids(d)' = {}
  <2> SUFFICES ASSUME NEW r \in Path, NEW d \in DirIds, CleanDir(r, d)'
               PROVE  \/ CleanDir(r, d) /\ r # p /\ r # q
                      \/ /\ r = q /\ d = m.id /\ m.dir /\ Clean(Front(q))
                         /\ CleanDir(p, d) /\ Kids(d) = {} /\ Kids(d)' = {}
    OBVIOUS
  <2>1. CASE r = q
    <3>1. d = m.id /\ m.dir /\ Clean(q)'
      BY <1>1, <1>3, <2>1 DEF CleanDir, IsDir, DirAt
    <3> QED
      BY <1>9, <2>1, <3>1
  <2>2. CASE r # q
    <3>1. r # p
      BY <1>1, <1>3, <2>2 DEF CleanDir, IsDir
    <3> QED
      BY <1>3, <1>6, <2>2, <3>1 DEF CleanDir, IsDir, DirAt
  <2> QED
    BY <2>1, <2>2
<1>11. ASSUME NEW r \in Path, NEW d \in DirIds, CleanDir(r, d), r # p
       PROVE  r # q /\ IsDir(r)' /\ DirAt(r)' = d
  <2>1. r # q
    <3>1. r # << >> => r \in DOMAIN path_map /\ Clean(Front(r))
      BY <1>11, DirEntry DEF CleanEntry
    <3> QED
      BY <3>1
  <2> QED
    BY <1>3, <1>11, <2>1 DEF CleanDir, IsDir, DirAt
<1>12. PathsNest'
  <2> SUFFICES ASSUME NEW r \in Path, NEW x \in Entry, CleanEntry(r, x)'
               PROVE  /\ IsDir(Front(r))' /\ DirAt(Front(r))' = x.parent /\ x.parent \in loaded'
                      /\ x \in Kids(x.parent)' /\ x.name = Last(r)
                      /\ x.id \in DOMAIN id_map' /\ id_map'[x.id] = r
                      /\ \A y \in Path : IsPrefix(y, r) /\ y # << >> => y \in DOMAIN path_map'
    BY DEF PathsNest
  <2>1. CASE CleanEntry(r, x) /\ r # p /\ r # q /\ x.id # m.id /\ ~IsPrefix(p, r)
    <3>1. /\ CleanDir(Front(r), x.parent) /\ x.parent \in loaded /\ x \in Kids(x.parent)
          /\ x.name = Last(r) /\ x.id \in DOMAIN id_map /\ id_map[x.id] = r
          /\ \A y \in Path : IsPrefix(y, r) /\ y # << >> => y \in DOMAIN path_map
          /\ x.parent \in DirIds
      BY <1>0, <2>1, EntryNests
    <3>2. r # << >> /\ Front(r) \in Path
      BY <2>1, FrontLast DEF CleanEntry, IndexOK
    <3>3. Front(r) # p
      BY <1>1, <2>1, <3>2, PrefixFront, PrefixSelf
    <3>4. IsDir(Front(r))' /\ DirAt(Front(r))' = x.parent
      BY <1>11, <3>1, <3>2, <3>3
    <3>5. x \in Kids(x.parent)'
      BY <1>5, <2>1, <3>1
    <3>6. x.id \in DOMAIN id_map' /\ id_map'[x.id] = r
      BY <1>3, <2>1, <3>1
    <3>7. \A y \in Path : IsPrefix(y, r) /\ y # << >> => y \in DOMAIN path_map'
      BY <1>3, <2>1, <3>1
    <3> QED
      BY <3>1, <3>4, <3>5, <3>6, <3>7
  <2>2. CASE r = q /\ x = n /\ Clean(Front(q))
    <3>1. CleanDir(Front(q), n.parent) /\ n.parent \in loaded
      BY <1>1, <2>2 DEF CleanDir
    <3>2. Front(q) # p
      BY <1>1, PrefixFront, PrefixSelf
    <3>3. IsDir(Front(q))' /\ DirAt(Front(q))' = n.parent
      BY <1>1, <1>11, <3>1, <3>2
    <3>4. ASSUME NEW y \in Path, IsPrefix(y, q), y # << >> PROVE y \in DOMAIN path_map'
      <4>1. CASE y = q
        BY <1>3, <4>1
      <4>2. CASE y # q
        <5>1. IsPrefix(y, Front(q))
          BY <3>4, <4>2, PrefixFront
        <5>2. y \in DOMAIN path_map
          BY <1>0, <1>1, <3>1, <3>4, <5>1, PathKnown
        <5> QED
          BY <1>3, <3>4, <5>2
      <4> QED
        BY <4>1, <4>2
    <3>5. n \in Kids(n.parent)'
      BY <1>1, <1>5
    <3> QED
      BY <1>1, <1>3, <2>2, <3>1, <3>3, <3>4, <3>5
  <2> QED
    BY <1>8, <2>1, <2>2
<1>13. IdsOnce'
  <2> SUFFICES ASSUME NEW r \in Path, NEW x \in Entry, CleanEntry(r, x)',
                      NEW y \in DOMAIN path_map', path_map'[y].id = x.id
               PROVE  y = r
    BY DEF IdsOnce
  <2>1. CASE CleanEntry(r, x) /\ r # p /\ r # q /\ x.id # m.id
    BY <1>0, <1>1, <1>3, <2>1 DEF IdsOnce
  <2>2. CASE r = q /\ x = n /\ Clean(Front(q))
    <3>1. CleanEntry(p, m)
      BY <2>2 DEF CleanEntry
    <3> QED
      BY <1>0, <1>1, <1>3, <2>2, <3>1 DEF IdsOnce
  <2> QED
    BY <1>8, <2>1, <2>2
<1>14. IdsLead'
  <2> SUFFICES ASSUME NEW i \in Ids, NEW r \in Path, i \in DOMAIN id_map', id_map'[i] = r,
                      Clean(Front(r))'
               PROVE  r \in DOMAIN path_map' /\ path_map'[r].id = i
    BY DEF IdsLead
  <2>1. CASE i = m.id
    BY <1>1, <1>3, <2>1
  <2>2. CASE i # m.id
    <3>1. r \in DOMAIN path_map /\ path_map[r].id = i
      BY <1>0, <1>3, <1>6, <2>2 DEF IdsLead
    <3>2. r # q /\ r # p
      BY <1>6, <2>2, <3>1
    <3> QED
      BY <1>3, <3>1, <3>2
  <2> QED
    BY <2>1, <2>2
<1>15. KidsNamed'
  <2> SUFFICES ASSUME NEW x \in Path, NEW d \in DirIds, CleanDir(x, d)', NEW c \in Kids(d)'
               PROVE  /\ children_map'[d][c] = 1
                      /\ Append(x, c.name) \in DOMAIN path_map' /\ path_map'[Append(x, c.name)] = c
    BY DEF KidsNamed
  <2>1. CASE CleanDir(x, d) /\ x # p /\ x # q
    <3>1. ASSUME NEW e \in Kids(d), d = m.parent => e.id # m.id PROVE e.id # m.id
      <4> SUFFICES ASSUME e.id = m.id PROVE FALSE
        OBVIOUS
      <4>1. p = Append(x, e.name) /\ m = e /\ Front(p) = x
        BY <1>0, <2>1, KidOnce
      <4>2. CleanEntry(p, m)
        BY <2>1, <4>1 DEF CleanEntry, CleanDir
      <4>3. CleanDir(x, m.parent)
        BY <1>0, <1>1, <4>1, <4>2, EntryNests
      <4> QED
        BY <2>1, <3>1, <4>3 DEF CleanDir
    <3>2. CASE c \in Kids(d) /\ (d = m.parent => c.id # m.id)
      <4>1. c.id # m.id
        BY <3>1, <3>2
      <4>2. c # n
        BY <1>1, <4>1
      <4>3. children_map'[d][c] = children_map[d][c]
        BY <1>5, <3>2, <4>2
      <4>4. /\ children_map[d][c] = 1 /\ CleanEntry(Append(x, c.name), c)
            /\ Front(Append(x, c.name)) = x /\ c \in Entry /\ Append(x, c.name) \in Path
        BY <1>0, <2>1, <3>2, KidEntry
      <4>5. Append(x, c.name) # p /\ Append(x, c.name) # q
        BY <2>1, <4>1, <4>4 DEF CleanEntry, CleanDir
      <4> QED
        BY <1>3, <4>3, <4>4, <4>5 DEF CleanEntry
    <3>3. CASE d = n.parent /\ c = n
      <4>1. x = Front(q)
        BY <1>0, <1>1, <2>1, <3>3, DirOnce
      <4>2. Append(x, c.name) = q
        BY <1>1, <3>3, <4>1
      <4>3. children_map'[d][c] = 1
        BY <1>1, <1>5, <3>1, <3>3
      <4> QED
        BY <1>3, <3>3, <4>2, <4>3
    <3> QED
      BY <1>5, <3>2, <3>3
  <2>2. CASE Kids(d)' = {}
    BY <2>2
  <2> QED
    BY <1>10, <2>1, <2>2
<1> QED
  BY <1>1, <1>5, <1>8, <1>10, <1>12, <1>13, <1>14, <1>15 DEF Nested

\* A flush replaces a record by one with another size, in the map and in the
\* children list.
LEMMA UpdateNests ==
  ASSUME IndexOK, Nested, NEW p \in DOMAIN path_map, UpdateMeta(p), root' = root,
         loaded' = loaded, loose' = loose
  PROVE  /\ Nested'
         /\ \A r \in Path, x \in Entry : CleanEntry(r, x)' =>
              \E y \in Entry : CleanEntry(r, y) /\ Alike(y, x) /\ y.parent = x.parent
         /\ \A r \in Path, d \in DirIds : CleanDir(r, d)' =>
              /\ CleanDir(r, d)
              /\ \A c \in Kids(d)' : \E e \in Kids(d) : Alike(e, c)
              /\ \A e \in Kids(d) : \E c \in Kids(d)' : Alike(c, e)
         /\ \A d \in DirIds : /\ \A c \in Kids(d)' : \E e \in Kids(d) : e.id = c.id
                              /\ Kids(d) = {} => Kids(d)' = {}
<1>0. PathsNest /\ IdsOnce /\ IdsLead /\ KidsNamed
  BY DEF Nested
<1>1. PICK m : m = path_map[p]
  OBVIOUS
<1>2. PICK n : n = [m EXCEPT !.rev = 1]
  OBVIOUS
<1>3. /\ m \in Entry /\ n \in Entry /\ m.parent \in DirIds
      /\ n.id = m.id /\ n.name = m.name /\ n.dir = m.dir /\ n.parent = m.parent
      /\ DOMAIN path_map' = DOMAIN path_map /\ path_map'[p] = n
      /\ \A q \in DOMAIN path_map : q # p => path_map'[q] = path_map[q]
      /\ id_map' = id_map
      /\ DOMAIN children_map' = DirIds
      /\ \A d \in DirIds \ {m.parent} : children_map'[d] = children_map[d]
      /\ \/ children_map' = children_map /\ \A c \in Kids(m.parent) : c.id # m.id
         \/ \E c \in Kids(m.parent) :
              c.id = m.id /\ children_map'[m.parent] = Plus(Minus(children_map[m.parent], c), n)
  <2>1. /\ path_map[p] \in Entry /\ [path_map[p] EXCEPT !.rev = 1] \in Entry
        /\ path_map[p].parent \in DirIds
        /\ DOMAIN path_map' = DOMAIN path_map /\ path_map'[p] = [path_map[p] EXCEPT !.rev = 1]
        /\ \A q \in DOMAIN path_map : q # p => path_map'[q] = path_map[q]
        /\ id_map' = id_map
        /\ DOMAIN children_map' = DirIds
        /\ \A d \in DirIds \ {path_map[p].parent} : children_map'[d] = children_map[d]
        /\ \/ children_map' = children_map /\ \A c \in Kids(path_map[p].parent) : c.id # path_map[p].id
           \/ \E c \in Kids(path_map[p].parent) :
                c.id = path_map[p].id
                /\ children_map'[path_map[p].parent] =
                     Plus(Minus(children_map[path_map[p].parent], c), [path_map[p] EXCEPT !.rev = 1])
    BY UpdateMetaIs
  <2>2. n.id = m.id /\ n.name = m.name /\ n.dir = m.dir /\ n.parent = m.parent
    BY <1>1, <1>2, <2>1 DEF Entry
  <2> QED
    BY <1>1, <1>2, <2>1, <2>2
<1>4. Alike(m, n) /\ Alike(n, m) /\ \A c : Alike(c, c)
  BY <1>3 DEF Alike
<1>5. p \in Path /\ m.id \in Ids /\ \A d \in DirIds : IsABag(children_map[d])
  BY <1>3 DEF IndexOK, Entry
<1>6. \A r : Clean(r)' <=> Clean(r)
  BY DEF Clean
<1>7. ASSUME NEW r, NEW d, CleanDir(r, d)' PROVE CleanDir(r, d)
  BY <1>1, <1>3, <1>6, <1>7 DEF CleanDir, IsDir, DirAt
<1>8. ASSUME NEW r, NEW d, CleanDir(r, d) PROVE IsDir(r)' /\ DirAt(r)' = d
  BY <1>1, <1>3, <1>8 DEF CleanDir, IsDir, DirAt
<1>9. ASSUME NEW r \in Path, NEW x \in Entry, CleanEntry(r, x)'
      PROVE  (r = p /\ x = n /\ CleanEntry(p, m)) \/ (r # p /\ CleanEntry(r, x) /\ x.id # m.id)
  <2>1. CASE r = p
    BY <1>1, <1>3, <1>6, <1>9, <2>1 DEF CleanEntry
  <2>2. CASE r # p
    <3>1. CleanEntry(r, x)
      BY <1>3, <1>6, <1>9, <2>2 DEF CleanEntry
    <3> QED
      BY <1>0, <1>1, <2>2, <3>1 DEF IdsOnce
  <2> QED
    BY <2>1, <2>2
\* In a folder that is kept right the record is the only one of its id.
<1>10. ASSUME NEW x \in Path, NEW d \in DirIds, CleanDir(x, d)
       PROVE  \/ /\ children_map'[d] = children_map[d] /\ \A c \in Kids(d) : c.id # m.id
              \/ /\ p = Append(x, n.name) /\ m \in Kids(d) /\ CleanEntry(p, m)
                 /\ Kids(d)' = (Kids(d) \ {m}) \cup {n}
                 /\ children_map'[d][n] = 1
                 /\ \A c \in Kids(d) \ {m, n} : children_map'[d][c] = children_map[d][c]
                 /\ \A c \in Kids(d) : c # m => c.id # m.id
  <2>1. CASE \A c \in Kids(d) : c.id # m.id
    BY <1>3, <2>1
  <2>2. ASSUME NEW c \in Kids(d), c.id = m.id
        PROVE  /\ p = Append(x, n.name) /\ m \in Kids(d) /\ CleanEntry(p, m)
               /\ Kids(d)' = (Kids(d) \ {m}) \cup {n}
               /\ children_map'[d][n] = 1
               /\ \A e \in Kids(d) \ {m, n} : children_map'[d][e] = children_map[d][e]
               /\ \A e \in Kids(d) : e # m => e.id # m.id
    <3>1. p = Append(x, c.name) /\ m = c /\ Front(p) = x
      BY <1>0, <1>1, <1>10, <2>2, KidOnce
    <3>2. CleanEntry(p, m) /\ p = Append(x, n.name) /\ m \in Kids(d) /\ m.parent = d
          /\ children_map[d][m] = 1
      BY <1>0, <1>1, <1>3, <1>10, <2>2, <3>1, KidEntry DEF CleanEntry, CleanDir
    <3>3. \A e \in Kids(d) : e # m => e.id # m.id
      BY <1>0, <1>10, <3>2, SameFolderOnce
    <3>4. children_map'[d] = Plus(Minus(children_map[d], m), n)
      BY <1>3, <3>2, <3>3
    <3>5. PICK b : b = Minus(children_map[d], m)
      OBVIOUS
    <3>6. /\ IsABag(b) /\ BagToSet(b) = Kids(d) \ {m}
          /\ \A e \in Kids(d) \ {m} : b[e] = children_map[d][e]
      <4>1. /\ IsABag(Minus(children_map[d], m))
            /\ BagToSet(Minus(children_map[d], m)) \subseteq BagToSet(children_map[d])
            /\ BagToSet(children_map[d]) \ {m} \subseteq BagToSet(Minus(children_map[d], m))
            /\ m \in BagToSet(children_map[d]) /\ children_map[d][m] = 1 =>
                 m \notin BagToSet(Minus(children_map[d], m))
            /\ \A e \in BagToSet(children_map[d]) \ {m} :
                 Minus(children_map[d], m)[e] = children_map[d][e]
        BY <1>5, BagMinus
      <4> QED
        BY <3>2, <3>5, <4>1 DEF Kids
    <3>7. n \notin BagToSet(b)
      BY <1>3, <3>3, <3>6
    <3>8. /\ BagToSet(Plus(b, n)) = BagToSet(b) \cup {n}
          /\ \A e \in BagToSet(b) \ {n} : Plus(b, n)[e] = b[e]
          /\ Plus(b, n)[n] = 1
      BY <3>6, <3>7, BagPlus
    <3>9. Kids(d)' = (Kids(d) \ {m}) \cup {n}
      BY <3>4, <3>5, <3>6, <3>8 DEF Kids
    <3>10. children_map'[d][n] = 1
           /\ \A e \in Kids(d) \ {m, n} : children_map'[d][e] = children_map[d][e]
      BY <3>4, <3>5, <3>6, <3>8
    <3> QED
      BY <3>2, <3>3, <3>9, <3>10
  <2> QED
    BY <2>1, <2>2
<1>11. ASSUME NEW x \in Path, NEW d \in DirIds, CleanDir(x, d)
       PROVE  /\ \A c \in Kids(d) : c = m \/ c \in Kids(d)'
              /\ \A c \in Kids(d)' : c = n \/ c \in Kids(d)
              /\ m \in Kids(d) <=> n \in Kids(d)' /\ m \in Kids(d)
              /\ n \in Kids(d)' => m \in Kids(d)
  <2>1. CASE children_map'[d] = children_map[d] /\ \A c \in Kids(d) : c.id # m.id
    <3>1. Kids(d)' = Kids(d)
      BY <2>1 DEF Kids
    <3> QED
      BY <1>3, <2>1, <3>1
  <2> QED
    BY <1>10, <1>11, <2>1
<1>12. ASSUME NEW r \in Path, NEW d \in DirIds, CleanDir(r, d)'
       PROVE  /\ CleanDir(r, d)
              /\ \A c \in Kids(d)' : \E e \in Kids(d) : Alike(e, c)
              /\ \A e \in Kids(d) : \E c \in Kids(d)' : Alike(c, e)
  BY <1>4, <1>7, <1>11, <1>12
<1>13. ASSUME NEW d \in DirIds
       PROVE  /\ \A c \in Kids(d)' : \E e \in Kids(d) : e.id = c.id
              /\ Kids(d) = {} => Kids(d)' = {}
  <2>1. CASE children_map'[d] = children_map[d]
    BY <2>1 DEF Kids
  <2>2. CASE children_map'[d] # children_map[d]
    <3>1. PICK e \in Kids(d) : e.id = m.id /\ children_map'[d] = Plus(Minus(children_map[d], e), n)
      BY <1>3, <2>2
    <3>2. BagToSet(Minus(children_map[d], e)) \subseteq BagToSet(children_map[d])
          /\ IsABag(Minus(children_map[d], e))
      BY <1>5, BagMinus
    <3>3. Kids(d)' \subseteq Kids(d) \cup {n}
      BY <3>1, <3>2, BagPlus DEF Kids
    <3> QED
      BY <1>3, <3>1, <3>3
  <2> QED
    BY <2>1, <2>2
<1>14. PathsNest'
  <2> SUFFICES ASSUME NEW r \in Path, NEW x \in Entry, CleanEntry(r, x)'
               PROVE  /\ IsDir(Front(r))' /\ DirAt(Front(r))' = x.parent /\ x.parent \in loaded'
                      /\ x \in Kids(x.parent)' /\ x.name = Last(r)
                      /\ x.id \in DOMAIN id_map' /\ id_map'[x.id] = r
                      /\ \A y \in Path : IsPrefix(y, r) /\ y # << >> => y \in DOMAIN path_map'
    BY DEF PathsNest
  <2>1. PICK z \in Entry : CleanEntry(r, z) /\ z.id = x.id /\ z.name = x.name /\ z.parent = x.parent
                           /\ ((z = m /\ x = n) \/ (z = x /\ x.id # m.id))
    BY <1>3, <1>9
  <2>2. /\ CleanDir(Front(r), z.parent) /\ z.parent \in loaded /\ z \in Kids(z.parent)
        /\ z.name = Last(r) /\ z.id \in DOMAIN id_map /\ id_map[z.id] = r
        /\ \A y \in Path : IsPrefix(y, r) /\ y # << >> => y \in DOMAIN path_map
        /\ z.parent \in DirIds
    BY <1>0, <2>1, EntryNests
  <2>3. r \in Path /\ r # << >> /\ Front(r) \in Path
    BY <2>1, FrontLast DEF CleanEntry, IndexOK
  <2>4. IsDir(Front(r))' /\ DirAt(Front(r))' = x.parent
    BY <1>8, <2>1, <2>2
  <2>5. x \in Kids(x.parent)'
    BY <1>3, <1>11, <2>1, <2>2, <2>3
  <2> QED
    BY <1>3, <2>1, <2>2, <2>4, <2>5
<1>15. IdsOnce'
  <2> SUFFICES ASSUME NEW r \in Path, NEW x \in Entry, CleanEntry(r, x)',
                      NEW y \in DOMAIN path_map', path_map'[y].id = x.id
               PROVE  y = r
    BY DEF IdsOnce
  <2>1. PICK z \in Entry : CleanEntry(r, z) /\ z.id = x.id
    BY <1>3, <1>9
  <2>2. y \in DOMAIN path_map /\ path_map[y].id = x.id
    BY <1>1, <1>3
  <2> QED
    BY <1>0, <2>1, <2>2 DEF IdsOnce
<1>16. IdsLead'
  <2> SUFFICES ASSUME NEW i \in Ids, NEW r \in Path, i \in DOMAIN id_map', id_map'[i] = r,
                      Clean(Front(r))'
               PROVE  r \in DOMAIN path_map' /\ path_map'[r].id = i
    BY DEF IdsLead
  <2>1. r \in DOMAIN path_map /\ path_map[r].id = i
    BY <1>0, <1>3, <1>6 DEF IdsLead
  <2> QED
    BY <1>1, <1>3, <2>1
<1>17. KidsNamed'
  <2> SUFFICES ASSUME NEW x \in Path, NEW d \in DirIds, CleanDir(x, d)', NEW c \in Kids(d)'
               PROVE  /\ children_map'[d][c] = 1
                      /\ Append(x, c.name) \in DOMAIN path_map' /\ path_map'[Append(x, c.name)] = c
    BY DEF KidsNamed
  <2>1. CleanDir(x, d)
    BY <1>7
  <2>2. ASSUME c \in Kids(d), c.id # m.id, children_map'[d][c] = children_map[d][c]
        PROVE  /\ children_map'[d][c] = 1
               /\ Append(x, c.name) \in DOMAIN path_map' /\ path_map'[Append(x, c.name)] = c
    <3>1. children_map[d][c] = 1 /\ CleanEntry(Append(x, c.name), c)
      BY <1>0, <2>1, <2>2, KidEntry
    <3>2. Append(x, c.name) # p
      BY <1>1, <2>2, <3>1 DEF CleanEntry
    <3> QED
      BY <1>3, <2>2, <3>1, <3>2 DEF CleanEntry
  <2>3. CASE children_map'[d] = children_map[d] /\ \A e \in Kids(d) : e.id # m.id
    <3>1. c \in Kids(d)
      BY <2>3 DEF Kids
    <3> QED
      BY <2>2, <2>3, <3>1
  <2>4. CASE /\ p = Append(x, n.name) /\ Kids(d)' = (Kids(d) \ {m}) \cup {n}
             /\ children_map'[d][n] = 1
             /\ \A e \in Kids(d) \ {m, n} : children_map'[d][e] = children_map[d][e]
             /\ \A e \in Kids(d) : e # m => e.id # m.id
    <3>1. CASE c = n
      BY <1>1, <1>3, <2>4, <3>1
    <3>2. CASE c # n
      BY <2>2, <2>4, <3>2
    <3> QED
      BY <3>1, <3>2
  <2> QED
    BY <1>10, <2>1, <2>3, <2>4
<1>18. \A r \in Path, x \in Entry : CleanEntry(r, x)' =>
         \E y \in Entry : CleanEntry(r, y) /\ Alike(y, x) /\ y.parent = x.parent
  BY <1>3, <1>4, <1>9
<1> QED
  BY <1>12, <1>13, <1>14, <1>15, <1>16, <1>17, <1>18 DEF Nested

-----------------------------------------------------------------------------
(* What the invariant says of a folder that is not loaded, and of where the  *)
(* entries of Drive Kit are.                                                 *)

\* The invariants, part by part.
LEMMA PartsOf ==
  ASSUME NEW D \in SUBSET Ids, NsInv(D), Settled(D), root # None
  PROVE  /\ CloudOK /\ IndexOK /\ OpInv /\ Agree(D) /\ root \in DirIds
         /\ Nested /\ PathsNest /\ IdsOnce /\ IdsLead /\ KidsNamed
         /\ ListingsNew(D) /\ LoadedAgree /\ ListingsAgree /\ DoomedGone
         /\ NothingLoaded /\ BelowUnseen /\ RootAbove /\ OpSound
         /\ \A m \in cloud : m.id \in Ids
  BY DEF NsInv, Settled, Nested, IndexOK, CloudOK

LEMMA FolderId ==
  ASSUME IndexOK, root # None, NEW p, NEW d, CleanDir(p, d)
  PROVE  d \in {root} \cup Ids /\ (p # << >> => d \in Ids) /\ (p = << >> => d = root) /\ d \in DirIds
<1>1. CASE p = << >>
  BY <1>1 DEF CleanDir, DirAt, IndexOK
<1>2. CASE p # << >>
  BY <1>2, DirEntry DEF DirIds
<1> QED
  BY <1>1, <1>2

\* An id that is not the mounted folder's, below a folder that is not loaded.
LEMMA UnloadedUnseen ==
  ASSUME NEW D \in SUBSET Ids, NsInv(D), Settled(D), root # None,
         NEW p \in Path, NEW d \in DirIds, CleanDir(p, d), d \notin loaded,
         NEW y \in Ids, y # root, p # << >> => Below(d, y)
  PROVE  /\ Unseen(y) /\ \A e \in DirIds \ {d} : ~InListing(y, e)
         /\ op # None /\ op.kind = "add" => y # op.meta.id /\ y # op.meta.parent
<1>0. NothingLoaded /\ BelowUnseen
  BY PartsOf
<1>1. CASE p = << >>
  <2>1. d = root /\ Clean(<< >>)
    BY <1>1 DEF CleanDir, DirAt
  <2>2. /\ DOMAIN path_map = {} /\ loaded = {} /\ op = None
        /\ \A e \in DirIds : Kids(e) = {} /\ (e # root => listing[e] = None)
    BY <1>0, <2>1 DEF NothingLoaded
  <2>3. y \in DirIds
    BY DEF DirIds
  <2> QED
    BY <2>1, <2>2, <2>3 DEF Unseen, InListing
<1>2. CASE p # << >>
  BY <1>0, <1>2 DEF BelowUnseen
<1> QED
  BY <1>1, <1>2

LEMMA ListedUnseen ==
  ASSUME NEW D \in SUBSET Ids, NsInv(D), Settled(D), root # None,
         NEW p \in Path, NEW d \in DirIds, CleanDir(p, d), d \notin loaded,
         NEW y \in Ids, InListing(y, d)
  PROVE  /\ Unseen(y) /\ \A e \in DirIds \ {d} : ~InListing(y, e)
         /\ op # None /\ op.kind = "add" => y # op.meta.id /\ y # op.meta.parent
         /\ y # d
<1>1. Mentioned(y) /\ Below(d, y)
  BY DEF Mentioned, Below
<1>2. y # root
  BY <1>1, PartsOf, MentionedNotRoot
<1>3. /\ Unseen(y) /\ \A e \in DirIds \ {d} : ~InListing(y, e)
      /\ op # None /\ op.kind = "add" => y # op.meta.id /\ y # op.meta.parent
  BY <1>1, <1>2, UnloadedUnseen
<1>4. y # d
  BY <1>3 DEF Unseen, InListing
<1> QED
  BY <1>3, <1>4

\* What is in a folder of Drive Kit is neither that folder nor above it.
LEMMA InFolder ==
  ASSUME CloudOK, IndexOK, RootAbove, root # None,
         NEW p \in Path, NEW d, CleanDir(p, d), NEW e \in cloud, e.parent = Real(d)
  PROVE  /\ e.id \in Ids /\ e.id # root /\ e.id # d
         /\ d \in Ids => e.id \in Inside(cloud, d) /\ d \notin Inside(cloud, e.id)
         /\ root \notin Inside(cloud, e.id)
<1>1. e.id \in Ids /\ \A m \in cloud : m.id \in Ids
  BY DEF CloudOK
<1>2. e.parent \notin Inside(cloud, e.id) /\ e.id \in Inside(cloud, e.id)
  BY <1>1, InsideSelf DEF CloudOK, Acyclic
<1>3. ASSUME d \in Ids
      PROVE  e.id \in Inside(cloud, d) /\ d \notin Inside(cloud, e.id) /\ e.id # d
  <2>1. Real(d) = d /\ d \in Inside(cloud, d)
    BY <1>3, SentinelAssumption, InsideSelf DEF Real, Ids
  <2>2. e.id \in Inside(cloud, d)
    BY <1>1, <2>1, InsideClosed DEF ClosedUnder
  <2> QED
    BY <1>2, <2>1, <2>2
<1>4. CASE p = << >>
  <2>1. d = root
    BY <1>4, FolderId
  <2>2. root \in Ids \/ root \notin Inside(cloud, e.id)
    BY InsideIds
  <2> QED
    BY <1>1, <1>3, <2>1, <2>2
<1>5. CASE p # << >>
  <2>1. d \in Ids /\ p \in DOMAIN path_map /\ path_map[p].id = d
    BY <1>5, DirEntry
  <2>2. root \notin Inside(cloud, d)
    BY <2>1 DEF RootAbove, Mentioned
  <2>3. Inside(cloud, e.id) \subseteq Inside(cloud, d)
    BY <1>1, <1>3, <2>1, InsideTrans
  <2> QED
    BY <1>1, <1>2, <1>3, <2>1, <2>2, <2>3
<1> QED
  BY <1>4, <1>5

LEMMA CloudOnce ==
  ASSUME CloudOK, NEW m \in cloud, NEW n \in cloud, m.id = n.id
  PROVE  m = n
  BY DEF CloudOK, WellFormed

\* An operation that changes a clean folder changes only clean folders.
LEMMA OpIsClean ==
  ASSUME OpSound, op # None, NEW p \in op.dirs, Clean(p)
  PROVE  OpClean(op)
  BY DEF OpSound

\* What Drive Kit holds of a clean record is in a clean folder that is loaded.
LEMMA EntryPlace ==
  ASSUME NEW D \in SUBSET Ids, NsInv(D), Settled(D), root # None,
         NEW q \in Path, NEW m \in Entry, CleanEntry(q, m), NEW e \in cloud, e.id = m.id
  PROVE  \E p \in Path : \E d \in DirIds : CleanDir(p, d) /\ d \in loaded /\ e.parent = Real(d)
<1>0. CloudOK /\ IndexOK /\ OpInv /\ PathsNest /\ IdsOnce /\ LoadedAgree /\ DoomedGone /\ OpSound
  BY PartsOf
<1>1. /\ CleanDir(Front(q), m.parent) /\ m.parent \in loaded /\ m \in Kids(m.parent)
      /\ m.parent \in DirIds
  BY <1>0, EntryNests
<1>2. Front(q) \in Path /\ q \in DOMAIN path_map /\ path_map[q] = m /\ Clean(Front(q))
  BY <1>0, FrontLast DEF CleanEntry, IndexOK
<1>3. ~Doomed(Front(q))
  BY <1>0, <1>1, <1>2 DEF DoomedGone
<1>4. CASE ~Leaving(Front(q), m.id)
  <2>1. WillHold(Front(q), m.parent, m)
    BY <1>1, <1>4 DEF WillHold, Alike
  <2>2. Holds(m.parent, m)
    BY <1>0, <1>1, <1>2, <1>3, <2>1 DEF LoadedAgree
  <2>3. e.parent = Real(m.parent)
    BY <1>0, <2>2, CloudOnce DEF Holds, Alike
  <2> QED
    BY <1>1, <1>2, <2>3
<1>5. CASE Leaving(Front(q), m.id)
  <2>1. /\ op # None /\ op.kind \in {"remove", "move"} /\ op.path \in DOMAIN path_map
        /\ Front(op.path) = Front(q) /\ path_map[op.path].id = m.id
    BY <1>0, <1>5 DEF Leaving, OpInv
  <2>2. op.path = q
    BY <1>0, <2>1 DEF IdsOnce
  <2>3. Front(op.path) \in op.dirs /\ OpClean(op)
    BY <1>0, <1>2, <2>1, OpIsClean DEF OpSound
  <2>4. op.kind = "move"
    BY <1>0, <2>1, <2>2, <2>3 DEF OpSound, CleanEntry
  <2>5. op.to \in Path /\ op.to # << >> /\ Front(op.to) \in op.dirs
    BY <1>0, <2>1, <2>4 DEF OpSound, OpInv
  <2>6. Front(op.to) \in Path /\ Last(op.to) \in Names
    BY <2>5, FrontLast
  <2>7. PICK d : d = DirAt(Front(op.to))
    OBVIOUS
  <2>8. CleanDir(Front(op.to), d) /\ d \in loaded /\ d \in DirIds
    BY <1>0, <2>3, <2>5, <2>7 DEF OpClean, CleanDir, IndexOK
  <2>9. PICK x : x = [m EXCEPT !.name = Last(op.to)]
    OBVIOUS
  <2>10. x \in Entry /\ x.id = m.id /\ x.name = Last(op.to) /\ x.dir = m.dir
    BY <2>6, <2>9 DEF Entry
  <2>11. Coming(Front(op.to), x) /\ ~Doomed(Front(op.to))
    BY <1>2, <2>1, <2>2, <2>4, <2>10 DEF Coming, Doomed
  <2>12. Holds(d, x)
    BY <1>0, <2>6, <2>8, <2>10, <2>11 DEF LoadedAgree, WillHold
  <2>13. e.parent = Real(d)
    BY <1>0, <2>10, <2>12, CloudOnce DEF Holds, Alike
  <2> QED
    BY <2>6, <2>8, <2>13
<1> QED
  BY <1>4, <1>5

-----------------------------------------------------------------------------
(* Listings are asked for and fail, answers are lost.                        *)

LEMMA SameIndex ==
  ASSUME UNCHANGED <<root, index>>
  PROVE  /\ path_map' = path_map /\ id_map' = id_map /\ children_map' = children_map /\ root' = root
         /\ \A d : Kids(d)' = Kids(d)
         /\ \A p : IsDir(p)' = IsDir(p) /\ DirAt(p)' = DirAt(p)
  BY DEF index, Kids, IsDir, DirAt

\* The invariant, from its parts.
LEMMA SettledParts ==
  ASSUME NEW D, Nested', ListingsNew(D)', LoadedAgree', ListingsAgree', DoomedGone',
         NothingLoaded', BelowUnseen', RootAbove', OpSound'
  PROVE  Settled(D)'
  BY DEF Settled

\* The invariant does not depend on what is asked for.
LEMMA SameSettles ==
  ASSUME NEW D, Settled(D), UNCHANGED <<server, root, index, loading, op, loose>>
  PROVE  Settled(D)'
<1>1. /\ cloud' = cloud /\ lastId' = lastId /\ root' = root
      /\ path_map' = path_map /\ id_map' = id_map /\ children_map' = children_map
      /\ loaded' = loaded /\ listing' = listing /\ op' = op /\ loose' = loose
  BY DEF server, index, loading
<1>2. Nested' <=> Nested
  BY <1>1 DEF Nested, PathsNest, IdsOnce, IdsLead, KidsNamed, CleanDir, CleanEntry, Clean, IsDir,
              DirAt, Kids
<1>3. ListingsNew(D)' <=> ListingsNew(D)
  BY <1>1 DEF ListingsNew, CleanEntry, Clean, InListing, Kids
<1>4. LoadedAgree' <=> LoadedAgree
  BY <1>1 DEF LoadedAgree, CleanDir, Clean, IsDir, DirAt, Kids, WillHold, Holds, Doomed, Leaving, Coming
<1>5. ListingsAgree' <=> ListingsAgree
  BY <1>1 DEF ListingsAgree, CleanDir, Clean, IsDir, DirAt, Doomed
<1>6. DoomedGone' <=> DoomedGone
  BY <1>1 DEF DoomedGone, CleanDir, Clean, IsDir, DirAt, Kids, Doomed, InListing
<1>7. NothingLoaded' <=> NothingLoaded
  BY <1>1 DEF NothingLoaded, Clean, Kids
<1>8. BelowUnseen' <=> BelowUnseen
  BY <1>1 DEF BelowUnseen, CleanDir, Clean, IsDir, DirAt, Kids, Below, InListing, Unseen
<1>9. RootAbove' <=> RootAbove
  BY <1>1 DEF RootAbove, Mentioned, InListing, Kids
<1>10. OpSound' <=> OpSound
  BY <1>1 DEF OpSound, OpClean, CleanDir, CleanEntry, Clean, IsDir, DirAt, Kids, InListing, Unseen
<1> QED
  BY <1>1, <1>2, <1>3, <1>4, <1>5, <1>6, <1>7, <1>8, <1>9, <1>10 DEF Settled

\* A listing of a folder that is not loaded is what the folder holds.
LEMMA FetchSettles ==
  ASSUME NEW D \in SUBSET Ids, NsInv(D), Settled(D), root # None, NEW d \in DirIds, Fetch(d)
  PROVE  Settled(D)'
<1>0. /\ CloudOK /\ IndexOK /\ OpInv /\ Agree(D) /\ root \in DirIds
      /\ Nested /\ PathsNest /\ IdsOnce /\ KidsNamed
      /\ ListingsNew(D) /\ LoadedAgree /\ ListingsAgree /\ DoomedGone
      /\ NothingLoaded /\ BelowUnseen /\ RootAbove /\ OpSound
      /\ \A m \in cloud : m.id \in Ids
  BY PartsOf
<1>1. /\ d \notin loaded /\ listing[d] = None
      /\ UNCHANGED <<server, root, index, loaded, failed, ask, op, loose, changes, errors>>
      /\ cloud' = cloud /\ lastId' = lastId /\ loaded' = loaded /\ op' = op /\ loose' = loose
  BY DEF Fetch, server
<1>2. /\ listing' = [listing EXCEPT ![d] = Contents(cloud, d)] /\ d \in Known
  BY FetchKeeps
<1>3. /\ listing'[d] = Contents(cloud, d)
      /\ \A e \in DirIds \ {d} : listing'[e] = listing[e]
      /\ d \in DirIds
  BY <1>0, <1>2 DEF IndexOK
<1>4. /\ path_map' = path_map /\ id_map' = id_map /\ children_map' = children_map /\ root' = root
      /\ \A x : Kids(x)' = Kids(x)
      /\ \A p : IsDir(p)' = IsDir(p) /\ DirAt(p)' = DirAt(p)
  BY <1>1, SameIndex
<1>5. /\ \A p, x : CleanDir(p, x)' <=> CleanDir(p, x)
      /\ \A p, x : CleanEntry(p, x)' <=> CleanEntry(p, x)
      /\ \A p : Clean(p)' <=> Clean(p)
  BY <1>1, <1>4 DEF CleanDir, CleanEntry, Clean
<1>6. \A y : \A e \in DirIds : InListing(y, e)' =>
        (e # d /\ InListing(y, e)) \/ (e = d /\ \E m \in cloud : m.id = y /\ m.parent = Real(d))
  BY <1>3 DEF InListing, Contents
<1>7. d = root \/ (d \in Ids /\ d \in D /\ Mentioned(d) /\ \A y : Unseen(y) => y # d)
  <2>1. CASE d # root
    <3>1. PICK x \in DirIds : \E c \in Kids(x) : c.dir /\ c.id = d
      BY <1>2, <2>1 DEF Known
    <3>2. PICK c \in Kids(x) : c.dir /\ c.id = d
      BY <3>1
    <3>3. Fits(c, lastId, D) /\ c \in Entry
      BY <1>0, AgreeIs DEF IndexOK
    <3> QED
      BY <3>2, <3>3 DEF Fits, Entry, Mentioned, Unseen
  <2> QED
    BY <2>1
<1>8. \A y : Unseen(y) => y # d
  BY <1>7 DEF Unseen
<1>9. \A y \in Ids : Unseen(y) => Unseen(y)'
  <2> SUFFICES ASSUME NEW y \in Ids, Unseen(y) PROVE Unseen(y)'
    OBVIOUS
  <2>1. y # d /\ y \in DirIds
    BY <1>8 DEF DirIds
  <2>2. listing'[y] = None
    BY <1>3, <2>1 DEF Unseen
  <2> QED
    BY <1>1, <1>4, <2>2 DEF Unseen
\* The folder of a listing, and no other loaded one, has what it lists.
<1>10. ASSUME NEW e \in cloud, e.parent = Real(d), NEW p \in Path, NEW x \in DirIds, CleanDir(p, x),
              e.parent = Real(x)
       PROVE  x = d
  <2>1. d \in {root} \cup Ids /\ x \in {root} \cup Ids
    BY <1>0, <1>7, <1>10, FolderId
  <2> QED
    BY <1>0, <1>10, <2>1, RealOnce
<1>11. Nested'
  BY <1>0, <1>1, NestStays
<1>12. ListingsNew(D)'
  <2>1. ASSUME NEW x \in DirIds, listing'[x] # None
        PROVE  /\ x \notin loaded' /\ (x = root' \/ x \in D)
               /\ \A m \in listing'[x] : m.parent = Real(x)
               /\ \A m, n \in listing'[x] : m.id = n.id => m = n
    <3>1. CASE x = d
      <4>1. \A m \in listing'[d] : m \in cloud /\ m.parent = Real(d)
        BY <1>3 DEF Contents
      <4> QED
        BY <1>0, <1>1, <1>4, <1>7, <3>1, <4>1, CloudOnce
    <3>2. CASE x # d
      BY <1>0, <1>1, <1>3, <1>4, <2>1, <3>2 DEF ListingsNew
    <3> QED
      BY <3>1, <3>2
  <2>2. ASSUME NEW q \in Path, NEW m \in Entry, CleanEntry(q, m)', NEW e \in DirIds
        PROVE  ~InListing(m.id, e)'
    <3> SUFFICES ASSUME InListing(m.id, e)' PROVE FALSE
      OBVIOUS
    <3>1. CleanEntry(q, m) /\ ~InListing(m.id, e)
      BY <1>0, <1>5, <2>2 DEF ListingsNew
    <3>2. PICK n \in cloud : n.id = m.id /\ n.parent = Real(d)
      BY <1>6, <3>1
    <3>3. PICK p \in Path, x \in DirIds : CleanDir(p, x) /\ x \in loaded /\ n.parent = Real(x)
      BY <3>1, <3>2, EntryPlace
    <3> QED
      BY <1>1, <1>10, <3>2, <3>3
  <2>3. \A x \in Ids : /\ x \in loaded' => x = root' \/ x \in D
                       /\ Kids(x)' # {} => x <= lastId'
    BY <1>0, <1>1, <1>4 DEF ListingsNew
  <2> QED
    BY <2>1, <2>2, <2>3 DEF ListingsNew
<1>13. /\ \A p, x, y : WillHold(p, x, y)' <=> WillHold(p, x, y)
       /\ \A x, y : Holds(x, y)' <=> Holds(x, y)
       /\ \A p : Doomed(p)' <=> Doomed(p)
       /\ OpClean(op)' <=> OpClean(op)
  BY <1>1, <1>4, <1>5 DEF WillHold, Holds, Doomed, Leaving, Coming, OpClean
<1>14. LoadedAgree'
  BY <1>0, <1>1, <1>5, <1>13 DEF LoadedAgree
<1>15. ListingsAgree'
  <2> SUFFICES ASSUME NEW p \in Path, NEW x \in DirIds, CleanDir(p, x)', x \notin loaded', ~Doomed(p)',
                      listing'[x] # None
               PROVE  listing'[x] = Contents(cloud', x)
    BY DEF ListingsAgree
  <2>1. CASE x = d
    BY <1>1, <1>3, <2>1
  <2>2. CASE x # d
    BY <1>0, <1>1, <1>3, <1>5, <1>13, <2>2 DEF ListingsAgree
  <2> QED
    BY <2>1, <2>2
<1>16. DoomedGone'
  <2> SUFFICES ASSUME NEW p \in Path, NEW x \in DirIds, CleanDir(p, x), Doomed(p), NEW e \in cloud
               PROVE  e.id # x /\ ~InListing(e.id, x)' /\ \A c \in Kids(x) : c.id # e.id
    BY <1>1, <1>4, <1>5, <1>13 DEF DoomedGone
  <2>1. \A n \in cloud : n.id # x /\ ~InListing(n.id, x) /\ \A c \in Kids(x) : c.id # n.id
    BY <1>0 DEF DoomedGone
  <2>2. ASSUME InListing(e.id, x)' PROVE FALSE
    <3>1. x = d /\ \E m \in cloud : m.parent = Real(d)
      BY <1>6, <2>1, <2>2
    <3>2. p # << >>
      <4>1. CASE p = << >>
        <5>1. op.path \in Path /\ op.path # << >> /\ IsPrefix(op.path, << >>)
          BY <1>0, <4>1 DEF Doomed, OpInv
        <5> QED
          BY <1>0, <5>1, PathKnown, PrefixMeans, EmptySeq, LenProperties DEF Path
      <4> QED
        BY <4>1
    <3>3. x \in Ids /\ Real(x) = x
      BY <1>0, <3>2, DirEntry, SentinelAssumption DEF Real, Ids
    <3>4. PICK m \in cloud : m.parent = x
      BY <3>1, <3>3
    <3>5. x \in Folders(cloud)
      BY <1>0, <3>3, <3>4 DEF CloudOK, WellFormed, Top, Ids
    <3> QED
      BY <2>1, <3>5 DEF Folders
  <2> QED
    BY <2>1, <2>2
<1>17. NothingLoaded'
  <2> SUFFICES ASSUME Clean(<< >>), root \notin loaded
               PROVE  /\ DOMAIN path_map = {} /\ loaded = {} /\ op = None
                      /\ \A e \in DirIds : Kids(e) = {} /\ (e # root => listing'[e] = None)
                      /\ root = Keyword => Contents(cloud, Top) = {}
    BY <1>1, <1>4, <1>5 DEF NothingLoaded
  <2>1. /\ DOMAIN path_map = {} /\ loaded = {} /\ op = None
        /\ \A e \in DirIds : Kids(e) = {} /\ (e # root => listing[e] = None)
        /\ root = Keyword => Contents(cloud, Top) = {}
    BY <1>0 DEF NothingLoaded
  <2>2. d = root
    BY <1>2, <2>1 DEF Known
  <2> QED
    BY <1>3, <2>1, <2>2
<1>18. BelowUnseen'
  <2> SUFFICES ASSUME NEW p \in Path, NEW x \in DirIds, p # << >>, CleanDir(p, x), x \notin loaded,
                      NEW y \in Ids, Below(x, y)'
               PROVE  /\ Unseen(y)' /\ \A e \in DirIds \ {x} : ~InListing(y, e)'
                      /\ op # None /\ op.kind = "add" => y # op.meta.id /\ y # op.meta.parent
    BY <1>1, <1>4, <1>5 DEF BelowUnseen
  <2>1. x \in Ids
    BY <1>0, DirEntry
  <2>2. Below(x, y)
    <3>1. CASE y \in Inside(cloud, x) /\ y # x
      BY <3>1 DEF Below
    <3>2. CASE InListing(y, x)'
      <4>1. CASE \E m \in cloud : m.id = y /\ m.parent = Real(x)
        BY <1>0, <2>1, <4>1, InFolder DEF Below
      <4> QED
        BY <1>6, <3>2, <4>1 DEF Below
    <3> QED
      BY <1>1, <3>1, <3>2 DEF Below
  <2>3. /\ Unseen(y) /\ \A e \in DirIds \ {x} : ~InListing(y, e)
        /\ op # None /\ op.kind = "add" => y # op.meta.id /\ y # op.meta.parent
    BY <1>0, <2>2 DEF BelowUnseen
  <2>4. ASSUME NEW e \in DirIds \ {x}, InListing(y, e)' PROVE FALSE
    <3>1. e = d /\ \E m \in cloud : m.id = y /\ m.parent = Real(d)
      BY <1>6, <2>3, <2>4
    <3>2. PICK m \in cloud : m.id = y /\ m.parent = Real(d)
      BY <3>1
    <3>3. CASE InListing(y, x)
      <4>1. ~Doomed(p)
        BY <1>0, <3>2, <3>3 DEF DoomedGone
      <4>2. listing[x] = Contents(cloud, x)
        BY <1>0, <3>3, <4>1 DEF ListingsAgree, InListing
      <4>3. m.parent = Real(x)
        BY <1>0, <3>2, <3>3, <4>2, CloudOnce DEF InListing, Contents
      <4> QED
        BY <1>10, <2>4, <3>1, <3>2, <4>3
    <3>4. CASE y \in Inside(cloud, x) /\ y # x
      <4>1. m.parent \in Inside(cloud, x)
        BY <1>0, <2>1, <3>2, <3>4, InsideParent, CloudOnce
      <4>2. d \in Ids /\ Real(d) = d
        BY <3>2, <4>1, RealDir, InsideIds, SentinelAssumption DEF Real, Top, Ids
      <4>3. Below(x, d)
        BY <2>4, <3>1, <3>2, <4>1, <4>2 DEF Below
      <4> QED
        BY <1>0, <1>8, <4>2, <4>3 DEF BelowUnseen
    <3> QED
      BY <2>2, <3>3, <3>4 DEF Below
  <2> QED
    BY <1>9, <2>3, <2>4
<1>19. RootAbove'
  <2> SUFFICES ASSUME NEW x \in Ids, Mentioned(x)' PROVE root \notin Inside(cloud, x)
    BY <1>1, <1>4 DEF RootAbove
  <2>1. CASE \E m \in cloud : m.id = x /\ m.parent = Real(d)
    <3>1. PICK m \in cloud : m.id = x /\ m.parent = Real(d)
      BY <2>1
    <3>2. CASE d = root
      <4>1. root \notin Ids \/ m.parent = root
        BY <3>1, <3>2, SentinelAssumption DEF Real, Ids
      <4>2. m.parent \notin Inside(cloud, x)
        BY <1>0, <3>1 DEF CloudOK, Acyclic
      <4> QED
        BY <4>1, <4>2, InsideIds
    <3>3. CASE d \in Ids /\ Mentioned(d)
      <4>1. Real(d) = d
        BY <3>3, SentinelAssumption DEF Real, Ids
      <4>2. x \in Inside(cloud, d)
        BY <1>0, <3>1, <3>3, <4>1, InsideSelf, InsideClosed DEF ClosedUnder
      <4>3. Inside(cloud, x) \subseteq Inside(cloud, d)
        BY <1>0, <4>2, InsideTrans
      <4> QED
        BY <1>0, <3>3, <4>3 DEF RootAbove
    <3> QED
      BY <1>7, <3>2, <3>3
  <2>2. CASE Mentioned(x)
    BY <1>0, <2>2 DEF RootAbove
  <2>3. Mentioned(x) \/ \E m \in cloud : m.id = x /\ m.parent = Real(d)
    BY <1>1, <1>4, <1>6 DEF Mentioned
  <2> QED
    BY <2>1, <2>2, <2>3
<1>20. OpSound'
  <2> SUFFICES ASSUME op # None, op.kind = "add", OpClean(op)
               PROVE  Unseen(op.meta.id)' /\ \A e \in DirIds : ~InListing(op.meta.id, e)'
    BY <1>0, <1>1, <1>4, <1>5, <1>13 DEF OpSound
  <2>1. /\ op.path \notin DOMAIN path_map
        /\ op.meta.parent = DirAt(Front(op.path)) /\ op.meta.name = Last(op.path)
        /\ Unseen(op.meta.id) /\ \A e \in DirIds : ~InListing(op.meta.id, e)
        /\ Front(op.path) \in op.dirs
    BY <1>0 DEF OpSound
  <2>2. op.meta \in Entry /\ op.meta.id \in Ids /\ op.meta.parent \in DirIds /\ Front(op.path) \in Path
    BY <1>0, FrontLast DEF OpInv, Entry
  <2>3. CleanDir(Front(op.path), op.meta.parent) /\ op.meta.parent \in loaded
    BY <2>1 DEF OpClean, CleanDir
  <2>4. Coming(Front(op.path), op.meta) /\ ~Doomed(Front(op.path))
    BY DEF Coming, Doomed
  <2>5. Holds(op.meta.parent, op.meta)
    BY <1>0, <2>2, <2>3, <2>4 DEF LoadedAgree, WillHold
  <2> PICK i : i = op.meta.id
    OBVIOUS
  <2>6. ASSUME NEW e \in DirIds, InListing(i, e)' PROVE FALSE
    <3>1. PICK m \in cloud : m.id = op.meta.id /\ m.parent = Real(d)
      BY <1>6, <2>1, <2>6
    <3>2. m.parent = Real(op.meta.parent)
      BY <1>0, <2>5, <3>1, CloudOnce DEF Holds, Alike
    <3> QED
      BY <1>1, <1>10, <2>2, <2>3, <3>1, <3>2
  <2>7. Unseen(i)' /\ \A e \in DirIds : ~InListing(i, e)'
    BY <1>9, <2>1, <2>2, <2>6
  <2>8. op'.meta.id = i
    BY <1>1
  <2> QED
    BY <2>7, <2>8
<1> QED
  BY <1>11, <1>12, <1>14, <1>15, <1>16, <1>17, <1>18, <1>19, <1>20, SettledParts

\* Without its listing a folder stays not loaded.
LEMMA FetchFailsSettles ==
  ASSUME NEW D \in SUBSET Ids, NsInv(D), Settled(D), root # None, NEW d \in DirIds, FetchFails(d)
  PROVE  Settled(D)'
<1>0. /\ CloudOK /\ IndexOK /\ OpInv /\ Agree(D) /\ root \in DirIds
      /\ Nested /\ PathsNest /\ IdsOnce /\ KidsNamed
      /\ ListingsNew(D) /\ LoadedAgree /\ ListingsAgree /\ DoomedGone
      /\ NothingLoaded /\ BelowUnseen /\ RootAbove /\ OpSound
  BY PartsOf
<1>1. /\ listing' = [listing EXCEPT ![d] = None] /\ UNCHANGED <<root, index>>
      /\ cloud' = cloud /\ lastId' = lastId /\ loaded' = loaded /\ op' = op /\ loose' = loose
  BY DEF FetchFails, server, LoadedAfterFailure
<1>2. \A e \in DirIds : listing'[e] = None \/ listing'[e] = listing[e]
  BY <1>0, <1>1 DEF IndexOK
<1>3. /\ path_map' = path_map /\ id_map' = id_map /\ children_map' = children_map /\ root' = root
      /\ \A x : Kids(x)' = Kids(x)
      /\ \A p : IsDir(p)' = IsDir(p) /\ DirAt(p)' = DirAt(p)
  BY <1>1, SameIndex
<1>4. /\ \A p, x : CleanDir(p, x)' <=> CleanDir(p, x)
      /\ \A p, x : CleanEntry(p, x)' <=> CleanEntry(p, x)
      /\ \A p : Clean(p)' <=> Clean(p)
  BY <1>1, <1>3 DEF CleanDir, CleanEntry, Clean
<1>5. /\ \A y : \A e \in DirIds : InListing(y, e)' => InListing(y, e)
      /\ \A e \in DirIds : \A y : Below(e, y)' => Below(e, y)
      /\ \A y \in DirIds : Unseen(y) => Unseen(y)'
      /\ \A y : Mentioned(y)' => Mentioned(y)
  <2>1. \A y : \A e \in DirIds : InListing(y, e)' => InListing(y, e)
    BY <1>2 DEF InListing
  <2>2. \A y \in DirIds : Unseen(y) => Unseen(y)'
    BY <1>1, <1>2, <1>3 DEF Unseen
  <2>3. \A e \in DirIds : \A y : Below(e, y)' => Below(e, y)
    BY <1>1, <2>1 DEF Below
  <2>4. \A y : Mentioned(y)' => Mentioned(y)
    BY <1>1, <1>3, <2>1 DEF Mentioned
  <2> QED
    BY <2>1, <2>2, <2>3, <2>4
<1>6. /\ \A p, x, y : WillHold(p, x, y)' <=> WillHold(p, x, y)
      /\ \A x, y : Holds(x, y)' <=> Holds(x, y)
      /\ \A p : Doomed(p)' <=> Doomed(p)
      /\ OpClean(op)' <=> OpClean(op)
  BY <1>1, <1>3, <1>4 DEF WillHold, Holds, Doomed, Leaving, Coming, OpClean
<1>7. Nested'
  BY <1>0, <1>1, NestStays
<1>8. ListingsNew(D)'
  <2>1. \A x \in DirIds : listing'[x] # None =>
          /\ x \notin loaded' /\ (x = root' \/ x \in D)
          /\ \A m \in listing'[x] : m.parent = Real(x)
          /\ \A m, n \in listing'[x] : m.id = n.id => m = n
    BY <1>0, <1>1, <1>2, <1>3 DEF ListingsNew
  <2>2. \A q \in Path, m \in Entry : CleanEntry(q, m)' => \A e \in DirIds : ~InListing(m.id, e)'
    BY <1>0, <1>4, <1>5 DEF ListingsNew
  <2>3. \A x \in Ids : /\ x \in loaded' => x = root' \/ x \in D
                       /\ Kids(x)' # {} => x <= lastId'
    BY <1>0, <1>1, <1>3 DEF ListingsNew
  <2> QED
    BY <2>1, <2>2, <2>3 DEF ListingsNew
<1>9. LoadedAgree'
  BY <1>0, <1>1, <1>4, <1>6 DEF LoadedAgree
<1>10. ListingsAgree'
  BY <1>0, <1>1, <1>2, <1>4, <1>6 DEF ListingsAgree
<1>11. DoomedGone'
  BY <1>0, <1>1, <1>3, <1>4, <1>5, <1>6 DEF DoomedGone
<1>12. NothingLoaded'
  BY <1>0, <1>1, <1>2, <1>3, <1>4 DEF NothingLoaded
<1>13. BelowUnseen'
  <2> SUFFICES ASSUME NEW p \in Path, NEW x \in DirIds, p # << >>, CleanDir(p, x), x \notin loaded,
                      NEW y \in Ids, Below(x, y)'
               PROVE  /\ Unseen(y)' /\ \A e \in DirIds \ {x} : ~InListing(y, e)'
                      /\ op # None /\ op.kind = "add" => y # op.meta.id /\ y # op.meta.parent
    BY <1>1, <1>3, <1>4 DEF BelowUnseen
  <2>1. y \in DirIds
    BY DEF DirIds
  <2>2. /\ Unseen(y) /\ \A e \in DirIds \ {x} : ~InListing(y, e)
        /\ op # None /\ op.kind = "add" => y # op.meta.id /\ y # op.meta.parent
    BY <1>0, <1>5 DEF BelowUnseen
  <2> QED
    BY <1>5, <2>1, <2>2
<1>14. RootAbove'
  BY <1>0, <1>1, <1>3, <1>5 DEF RootAbove
<1>15. OpSound'
  <2> SUFFICES ASSUME op # None, op.kind = "add", OpClean(op)
               PROVE  Unseen(op.meta.id)' /\ \A e \in DirIds : ~InListing(op.meta.id, e)'
    BY <1>0, <1>1, <1>3, <1>4, <1>6 DEF OpSound
  <2> PICK i : i = op.meta.id
    OBVIOUS
  <2>1. Unseen(i) /\ \A e \in DirIds : ~InListing(i, e)
    BY <1>0 DEF OpSound
  <2>2. i \in DirIds
    BY <1>0 DEF OpInv, Entry, DirIds
  <2>3. Unseen(i)' /\ \A e \in DirIds : ~InListing(i, e)'
    BY <1>5, <2>1, <2>2
  <2>4. op'.meta.id = i
    BY <1>1
  <2> QED
    BY <2>3, <2>4
<1> QED
  BY <1>7, <1>8, <1>9, <1>10, <1>11, <1>12, <1>13, <1>14, <1>15, SettledParts

\* The folders of an operation without an answer are loosened.
LEMMA AnswerLostSettles ==
  ASSUME NEW D \in SUBSET Ids, NsInv(D), Settled(D), root # None, AnswerLost
  PROVE  Settled(D)'
<1>0. /\ CloudOK /\ IndexOK /\ OpInv /\ Agree(D) /\ root \in DirIds
      /\ Nested /\ PathsNest /\ IdsOnce /\ KidsNamed
      /\ ListingsNew(D) /\ LoadedAgree /\ ListingsAgree /\ DoomedGone
      /\ NothingLoaded /\ BelowUnseen /\ RootAbove /\ OpSound
  BY PartsOf
<1>1. /\ op # None /\ op' = None /\ loose' = loose \cup op.dirs /\ UNCHANGED <<root, index>>
      /\ cloud' = cloud /\ lastId' = lastId /\ loaded' = loaded /\ listing' = listing
  BY DEF AnswerLost, server, loading
<1>2. /\ path_map' = path_map /\ id_map' = id_map /\ children_map' = children_map /\ root' = root
      /\ \A x : Kids(x)' = Kids(x)
      /\ \A p : IsDir(p)' = IsDir(p) /\ DirAt(p)' = DirAt(p)
  BY <1>1, SameIndex
<1>3. /\ \A p : Clean(p)' => Clean(p) /\ \A r \in op.dirs : ~IsPrefix(r, p)
      /\ \A p, x : CleanDir(p, x)' => CleanDir(p, x) /\ Clean(p)'
      /\ \A p, x : CleanEntry(p, x)' => CleanEntry(p, x)
  BY <1>1, <1>2 DEF CleanDir, CleanEntry, Clean
<1>4. ASSUME NEW p \in Path, NEW x, CleanDir(p, x)'
      PROVE  /\ CleanDir(p, x) /\ ~Doomed(p) /\ \A y : ~Leaving(p, y) /\ ~Coming(p, y)
  <2>1. Front(op.path) \in op.dirs /\ (op.kind = "move" => Front(op.to) \in op.dirs)
    BY <1>0, <1>1 DEF OpSound
  <2>2. p \notin op.dirs
    BY <1>3, <1>4, PrefixSelf
  <2>3. ~Doomed(p)
    <3> SUFFICES ASSUME Doomed(p) PROVE FALSE
      OBVIOUS
    <3>1. IsPrefix(op.path, p) /\ op.path \in Path /\ op.path # << >>
      BY <1>0 DEF Doomed, OpInv
    <3>2. Front(op.path) \in Path /\ IsPrefix(Front(op.path), Front(op.path))
      BY <3>1, FrontLast, PrefixSelf
    <3>3. IsPrefix(Front(op.path), op.path)
      BY <3>1, <3>2, PrefixFront
    <3>4. IsPrefix(Front(op.path), p)
      BY <3>1, <3>2, <3>3, PrefixTrans
    <3> QED
      BY <1>3, <1>4, <2>1, <3>4
  <2>4. \A y : ~Leaving(p, y) /\ ~Coming(p, y)
    BY <1>1, <2>1, <2>2 DEF Leaving, Coming
  <2> QED
    BY <1>3, <1>4, <2>3, <2>4
<1>5. /\ \A y, e : InListing(y, e)' <=> InListing(y, e)
      /\ \A e, y : Below(e, y)' <=> Below(e, y)
      /\ \A y : Unseen(y)' <=> Unseen(y)
      /\ \A y : Mentioned(y)' => Mentioned(y)
      /\ \A x, y : Holds(x, y)' <=> Holds(x, y)
      /\ \A p : ~Doomed(p)'
  BY <1>1, <1>2 DEF InListing, Below, Unseen, Mentioned, Holds, Doomed
<1>6. Nested'
  <2>1. loose \subseteq loose' /\ loaded \subseteq loaded'
    BY <1>1
  <2> QED
    BY <1>0, <1>1, <2>1, NestStays
<1>7. ListingsNew(D)'
  BY <1>0, <1>1, <1>2, <1>3, <1>5 DEF ListingsNew
<1>8. LoadedAgree'
  <2> SUFFICES ASSUME NEW p \in Path, NEW x \in DirIds, CleanDir(p, x)', x \in loaded, NEW y \in Entry
               PROVE  WillHold(p, x, y)' <=> WillHold(p, x, y)
    BY <1>0, <1>1, <1>4, <1>5 DEF LoadedAgree
  <2>1. \A z : ~Leaving(p, z) /\ ~Coming(p, z)
    BY <1>4
  <2>2. \A z : ~Leaving(p, z)' /\ ~Coming(p, z)'
    BY <1>1 DEF Leaving, Coming
  <2> QED
    BY <1>2, <2>1, <2>2 DEF WillHold
<1>9. ListingsAgree'
  BY <1>0, <1>1, <1>4 DEF ListingsAgree
<1>10. DoomedGone'
  BY <1>5 DEF DoomedGone
<1>11. NothingLoaded'
  BY <1>0, <1>1, <1>2, <1>3 DEF NothingLoaded
<1>12. BelowUnseen'
  BY <1>0, <1>1, <1>3, <1>5 DEF BelowUnseen
<1>13. RootAbove'
  BY <1>0, <1>1, <1>2, <1>5 DEF RootAbove
<1>14. OpSound'
  BY <1>1 DEF OpSound
<1> QED
  BY <1>6, <1>7, <1>8, <1>9, <1>10, <1>11, <1>12, <1>13, <1>14, SettledParts

-----------------------------------------------------------------------------
(* The look-ups.                                                             *)

\* What the index knows it need not learn.
LEMMA KnownApart ==
  ASSUME NEW D \in SUBSET Ids, NsInv(D), Settled(D), root # None,
         NEW r \in {<< >>} \cup DOMAIN path_map
  PROVE  Apart(DirAt(r))
<1>0. IndexOK /\ NothingLoaded /\ BelowUnseen /\ RootAbove
  BY PartsOf
<1> PICK y : y = DirAt(r)
  OBVIOUS
<1> SUFFICES ASSUME NEW x \in Path, NEW e \in DirIds, CleanDir(x, e), e \notin loaded
             PROVE  ~Below(e, y) /\ (x = << >> => y = root)
  BY DEF Apart
<1>1. InListing(y, e) => y \in Ids /\ Mentioned(y)
  BY <1>0 DEF InListing, IndexOK, Entry, Mentioned
<1>2. CASE x = << >>
  <2>1. e = root /\ DOMAIN path_map = {}
    BY <1>0, <1>2 DEF CleanDir, DirAt, NothingLoaded
  <2>2. y = root
    BY <2>1 DEF DirAt
  <2>3. ~InListing(y, e)
    BY <1>0, <1>1, <2>2, MentionedNotRoot
  <2> QED
    BY <2>1, <2>2, <2>3 DEF Below
<1>3. CASE x # << >> /\ r = << >>
  <2>1. y = root
    BY <1>3 DEF DirAt
  <2>2. x \in DOMAIN path_map /\ path_map[x].id = e /\ e \in Ids
    BY <1>0, <1>3, DirEntry
  <2>3. root \notin Inside(cloud, e)
    BY <1>0, <2>2 DEF RootAbove, Mentioned
  <2>4. ~InListing(y, e)
    BY <1>0, <1>1, <2>1, MentionedNotRoot
  <2> QED
    BY <1>3, <2>1, <2>3, <2>4 DEF Below
<1>4. CASE x # << >> /\ r # << >>
  <2>1. y = path_map[r].id /\ r \in DOMAIN path_map /\ y \in Ids
    BY <1>0, <1>4 DEF DirAt, IndexOK, Entry
  <2> QED
    BY <1>0, <1>4, <2>1 DEF BelowUnseen, Unseen
<1> QED
  BY <1>2, <1>3, <1>4

\* A folder whose path has been looked up has no other.
LEMMA KnownOnlyAt ==
  ASSUME NEW D \in SUBSET Ids, NsInv(D), Settled(D), root # None,
         NEW r \in {<< >>} \cup DOMAIN path_map
  PROVE  OnlyAt(DirAt(r), r)
<1>0. IndexOK /\ IdsOnce /\ RootAbove
  BY PartsOf
<1>1. DirAt(r) \in {root} \cup Ids
  BY <1>0, PathIdNotRoot DEF DirAt
<1>2. Apart(DirAt(r))
  BY KnownApart
<1>3. ASSUME NEW x \in Path, CleanDir(x, DirAt(r)) PROVE x = r
  BY <1>0, <1>3, DirOnce
<1> QED
  BY <1>1, <1>2, <1>3 DEF OnlyAt

\* Of a record that has been looked up there is no other.
LEMMA KnownRecord ==
  ASSUME NEW D \in SUBSET Ids, NsInv(D), Settled(D), root # None, NEW p \in DOMAIN path_map,
         NEW i, i = path_map[p].id
  PROVE  /\ Apart(i) /\ root \notin Inside(cloud, i)
         /\ \A q \in Path, m \in Entry : CleanEntry(q, m) /\ m.id = i => q = p
<1>0. IndexOK /\ IdsOnce /\ RootAbove
  BY PartsOf
<1>1. DirAt(p) = i
  BY <1>0 DEF DirAt, IndexOK
<1>2. Apart(i)
  BY <1>1, KnownApart
<1>3. root \notin Inside(cloud, i)
  BY <1>0 DEF RootAbove, Mentioned, IndexOK, Entry
<1>4. \A q \in Path, m \in Entry : CleanEntry(q, m) /\ m.id = i => q = p
  BY <1>0 DEF IdsOnce
<1> QED
  BY <1>2, <1>3, <1>4

\* A look-up leaves everything as it is.
LEMMA AskSame ==
  ASSUME NEW r, Ask(r)
  PROVE  /\ ask' = r /\ root' = root /\ path_map' = path_map /\ loaded' = loaded /\ cloud' = cloud
         /\ \A p : (IsDir(p)' <=> IsDir(p)) /\ DirAt(p)' = DirAt(p) /\ (Clean(p)' <=> Clean(p))
         /\ \A d : Kids(d)' = Kids(d) /\ (Apart(d)' <=> Apart(d))
         /\ \A d, p : OnlyAt(d, p)' <=> OnlyAt(d, p)
         /\ \A q, m : CleanEntry(q, m)' <=> CleanEntry(q, m)
<1>1. /\ ask' = r /\ root' = root /\ path_map' = path_map /\ children_map' = children_map
      /\ loaded' = loaded /\ listing' = listing /\ loose' = loose /\ cloud' = cloud
  BY DEF Ask, server, index, loading
<1>2. \A p : (IsDir(p)' <=> IsDir(p)) /\ DirAt(p)' = DirAt(p) /\ (Clean(p)' <=> Clean(p))
  BY <1>1 DEF IsDir, DirAt, Clean
<1>3. /\ \A d, p : CleanDir(p, d)' <=> CleanDir(p, d)
      /\ \A q, m : CleanEntry(q, m)' <=> CleanEntry(q, m)
      /\ \A d, y : Below(d, y)' <=> Below(d, y)
  BY <1>1, <1>2 DEF CleanDir, CleanEntry, Below, InListing
<1>4. \A d : Kids(d)' = Kids(d) /\ (Apart(d)' <=> Apart(d))
  BY <1>1, <1>3 DEF Kids, Apart
<1>5. \A d, p : OnlyAt(d, p)' <=> OnlyAt(d, p)
  BY <1>1, <1>3, <1>4 DEF OnlyAt
<1> QED
  BY <1>1, <1>2, <1>3, <1>4, <1>5

LEMMA AskSettles ==
  ASSUME NEW D, Settled(D), NEW r, Ask(r)
  PROVE  Settled(D)'
  BY SameSettles DEF Ask

\* create and mkdir: whatever they do not find may be there all the same.
LEMMA AddLooks ==
  ASSUME NEW D \in SUBSET Ids, NsInv(D), Settled(D), root # None,
         NEW p \in Path, p # << >>, NEW isDir \in BOOLEAN, Add(p, isDir)
  PROVE  Settled(D)' /\ AskSound'
<1> PICK f : f = Front(p)
  OBVIOUS
<1> PICK t : t = DirAt(f)
  OBVIOUS
<1> PICK u : u = Sure({f})
  OBVIOUS
<1> PICK a : a = [kind |-> "add", path |-> p, dirs |-> {f}, parent |-> t, dir |-> isDir, sure |-> u]
  OBVIOUS
<1>1. Walked(f) /\ p \notin DOMAIN path_map /\ Ask(a)
  BY DEF Add
<1>2. /\ a.kind = "add" /\ a.path = p /\ a.dirs = {f} /\ a.parent = t /\ a.sure = u
      /\ ask' = a
  BY <1>1 DEF Ask
<1>3. f \in Path /\ IsDir(f)
  BY <1>1, FrontLast, WalkedIs
<1>4. OnlyAt(t, f)
  <2>1. f \in {<< >>} \cup DOMAIN path_map
    BY <1>3 DEF IsDir
  <2> QED
    BY <2>1, KnownOnlyAt
<1>5. Settled(D)'
  BY <1>1, AskSettles
<1>6. u => OpClean(a)
  BY <1>2, <1>3 DEF OpClean, Sure
<1>7. ask'.sure => OpClean(ask)'
  BY <1>1, <1>2, <1>6, AskSame DEF OpClean
<1>8. OnlyAt(t, f)' /\ DirAt(f)' = t /\ p \notin DOMAIN path_map'
  BY <1>1, <1>4, AskSame
<1> QED
  BY <1>2, <1>5, <1>7, <1>8 DEF AskSound

\* unlink and rmdir: what is loaded of a folder to be removed is empty.
LEMMA DeleteLooks ==
  ASSUME NEW D \in SUBSET Ids, NsInv(D), Settled(D), root # None,
         NEW p \in DOMAIN path_map, Delete(p), path_map[p].dir => ListDir(p) = {}
  PROVE  Settled(D)' /\ AskSound'
<1>0. IndexOK
  BY PartsOf
<1> PICK f : f = Front(p)
  OBVIOUS
<1> PICK m : m = path_map[p]
  OBVIOUS
<1> PICK i : i = m.id
  OBVIOUS
<1> PICK u : u = Sure({f})
  OBVIOUS
<1> PICK l : l = (m.dir => i \in loaded)
  OBVIOUS
<1> PICK a : a = [kind |-> "remove", path |-> p, dirs |-> {f}, id |-> i, sure |-> u, listed |-> l]
  OBVIOUS
<1>1. Walked(f) /\ Ask(a)
  BY DEF Delete
<1>2. /\ a.kind = "remove" /\ a.path = p /\ a.dirs = {f} /\ a.id = i /\ a.sure = u /\ a.listed = l
      /\ ask' = a
  BY <1>1 DEF Ask
<1>3. f \in Path /\ IsDir(f) /\ p # << >>
  BY <1>0, <1>1, FrontLast, WalkedIs DEF IndexOK
<1>4. /\ Apart(i) /\ root \notin Inside(cloud, i)
      /\ \A q \in Path, e \in Entry : CleanEntry(q, e) /\ e.id = i => q = p
  BY KnownRecord
<1>5. Settled(D)'
  BY <1>1, AskSettles
<1>6. u => OpClean(a)
  BY <1>2, <1>3 DEF OpClean, Sure
<1>7. ask'.sure => OpClean(ask)'
  BY <1>1, <1>2, <1>6, AskSame DEF OpClean
<1>8. /\ Apart(i)' /\ root' \notin Inside(cloud', i) /\ path_map'[p].id = i
      /\ \A q \in Path, e \in Entry : CleanEntry(q, e)' /\ e.id = i => q = p
  BY <1>1, <1>4, AskSame
<1>9. l /\ path_map'[p].dir => i \in loaded' /\ Kids(i)' = {}
  <2>1. path_map[p].dir => Kids(i) = {}
    BY <1>3 DEF ListDir, IsDir, DirAt
  <2> QED
    BY <1>1, <2>1, AskSame
<1> QED
  BY <1>2, <1>5, <1>7, <1>8, <1>9 DEF AskSound

\* rename: the name that it is to have may be there all the same.
LEMMA RenameLooks ==
  ASSUME NEW D \in SUBSET Ids, NsInv(D), Settled(D), root # None,
         NEW p \in DOMAIN path_map, NEW q \in Path, q # << >>, Rename(p, q)
  PROVE  Settled(D)' /\ AskSound'
<1>0. IndexOK
  BY PartsOf
<1> PICK fp : fp = Front(p)
  OBVIOUS
<1> PICK fq : fq = Front(q)
  OBVIOUS
<1> PICK t : t = DirAt(fq)
  OBVIOUS
<1> PICK i : i = path_map[p].id
  OBVIOUS
<1> PICK u : u = (q \notin DOMAIN path_map /\ Sure({fp, fq}))
  OBVIOUS
<1> PICK a : a = [kind |-> "move", path |-> p, dirs |-> {fp, fq}, to |-> q, id |-> i,
                  parent |-> t, sure |-> u]
  OBVIOUS
<1>1. ~IsPrefix(p, q) /\ Walked(fp) /\ Walked(fq) /\ Ask(a)
  BY DEF Rename
<1>2. /\ a.kind = "move" /\ a.path = p /\ a.to = q /\ a.dirs = {fp, fq} /\ a.id = i
      /\ a.parent = t /\ a.sure = u /\ ask' = a
  BY <1>1 DEF Ask
<1>3. fp \in Path /\ fq \in Path /\ IsDir(fp) /\ IsDir(fq) /\ p # << >>
  BY <1>0, <1>1, FrontLast, WalkedIs DEF IndexOK
<1>4. /\ Apart(i) /\ root \notin Inside(cloud, i)
      /\ \A r \in Path, e \in Entry : CleanEntry(r, e) /\ e.id = i => r = p
  BY KnownRecord
<1>5. OnlyAt(t, fq)
  <2>1. fq \in {<< >>} \cup DOMAIN path_map
    BY <1>3 DEF IsDir
  <2> QED
    BY <2>1, KnownOnlyAt
<1>6. Settled(D)'
  BY <1>1, AskSettles
<1>7. u => OpClean(a)
  BY <1>2, <1>3 DEF OpClean, Sure
<1>8. ask'.sure => OpClean(ask)'
  BY <1>1, <1>2, <1>7, AskSame DEF OpClean
<1>9. /\ Apart(i)' /\ root' \notin Inside(cloud', i) /\ path_map'[p].id = i
      /\ \A r \in Path, e \in Entry : CleanEntry(r, e)' /\ e.id = i => r = p
  BY <1>1, <1>4, AskSame
<1>10. OnlyAt(t, fq)' /\ DirAt(fq)' = t /\ (u => q \notin DOMAIN path_map')
  BY <1>1, <1>5, AskSame
<1> QED
  BY <1>1, <1>2, <1>6, <1>8, <1>9, <1>10 DEF AskSound

-----------------------------------------------------------------------------
(* The requests.                                                             *)

\* The folders of an operation are all loosened by its request, or they have
\* been loaded, and not loosened, since the look-up.
LEMMA ServedIs ==
  ASSUME IndexOK, AskInv, AskSound, ask # None, Served
  PROVE  /\ loose \subseteq loose' /\ UNCHANGED <<root, index>> /\ loaded' = loaded
         /\ listing' = listing
         /\ ask.sure => loose' = loose /\ OpClean(ask)
         /\ \A r \in ask.dirs : Clean(r)' => ask.sure
<1>1. loose \subseteq loose' /\ UNCHANGED <<root, index>> /\ loaded' = loaded /\ listing' = listing
  BY DEF Served, loading
<1>2. ask.sure => loose' = loose /\ OpClean(ask)
  BY DEF Served, AskSound
<1>3. ASSUME NEW r \in ask.dirs, ~ask.sure PROVE ~Clean(r)'
  <2>1. r \in Path /\ r \in loose'
    BY <1>3 DEF AskInv, Served
  <2> QED
    BY <2>1, PrefixSelf DEF Clean
<1> QED
  BY <1>1, <1>2, <1>3

\* Of two ids of folders with one real id, one the mounted folder's or an entry's.
LEMMA OnlyOnce ==
  ASSUME IndexOK, root # None, NEW t, NEW f, OnlyAt(t, f),
         NEW x \in Path, NEW d, CleanDir(x, d), Real(t) = Real(d)
  PROVE  x = f /\ d = t
<1>1. t \in {root} \cup Ids /\ root \in DirIds /\ d \in {root} \cup Ids
  BY FolderId DEF OnlyAt, IndexOK
<1>2. d = t
  BY <1>1, RealOnce
<1> QED
  BY <1>2 DEF OnlyAt

\* create and mkdir: the new id is nowhere yet, the new name free.
LEMMA ServeAddSettles ==
  ASSUME NEW D \in SUBSET Ids, NsInv(D), Settled(D), AskSound, root # None, ServeAdd
  PROVE  Settled(D)'
<1>0. /\ CloudOK /\ IndexOK /\ OpInv /\ Agree(D) /\ root \in DirIds
      /\ Nested /\ PathsNest /\ IdsOnce /\ KidsNamed
      /\ ListingsNew(D) /\ LoadedAgree /\ ListingsAgree /\ DoomedGone
      /\ NothingLoaded /\ BelowUnseen /\ RootAbove /\ OpSound
      /\ \A e \in cloud : e.id \in Ids
  BY PartsOf
<1> PICK p : p = ask.path
  OBVIOUS
<1> PICK f : f = Front(p)
  OBVIOUS
<1> PICK m : m = NewMeta(ask)
  OBVIOUS
<1>1. AskInv /\ ask # None /\ ask.kind = "add" /\ op = None
      /\ p \in Path /\ p # << >> /\ f \in Path
  BY FrontLast DEF NsInv, AskInv, ServeAdd
<1>2. /\ ask.dirs = {f} /\ OnlyAt(ask.parent, f)
      /\ ask.sure => DirAt(f) = ask.parent /\ p \notin DOMAIN path_map
  BY <1>1 DEF AskSound
<1>3. /\ PostEntry(m) /\ Served
      /\ op' = [kind |-> "add", path |-> p, meta |-> m, dirs |-> {f}]
      /\ UNCHANGED <<root, index>> /\ loaded' = loaded /\ listing' = listing
  BY <1>2 DEF ServeAdd, Served, loading
<1>4. /\ m \in Entry /\ m.rev = 0 /\ m.id = lastId + 1 /\ m.id \in Ids
      /\ m.parent = ask.parent /\ m.name = Last(p) /\ IsFolder(m.parent) /\ m.parent \in DirIds
  <2>1. lastId + 1 <= MaxId
    BY <1>3 DEF PostEntry, NewMeta
  <2> QED
    BY <1>0, <1>1, <2>1, NewMetaIs DEF IsFolder, Entry
<1>5. OnlyAt(m.parent, f) /\ Apart(m.parent)
  BY <1>2, <1>4 DEF OnlyAt
<1> PICK n : n = [m EXCEPT !.parent = Real(m.parent)]
  OBVIOUS
<1>6. /\ cloud' = cloud \cup {n} /\ lastId' = lastId + 1 /\ lastId \in Nat
      /\ n.id = m.id /\ n.name = m.name /\ n.dir = m.dir /\ n.parent = Real(m.parent)
  BY <1>0, <1>3, <1>4 DEF PostEntry, Entry, CloudOK
<1>7. /\ op' # None /\ op'.kind = "add" /\ op'.path = p /\ op'.meta = m /\ op'.dirs = {f}
  <2>1. op'.kind = "add" /\ op'.path = p /\ op'.meta = m /\ op'.dirs = {f}
    BY <1>3
  <2>2. [kind |-> "add", path |-> p, meta |-> m, dirs |-> {f}] \in Operation
    BY <1>1, <1>4 DEF Operation
  <2> QED
    BY <1>3, <2>1, <2>2, OperationAssumption
<1>8. /\ path_map' = path_map /\ id_map' = id_map /\ children_map' = children_map /\ root' = root
      /\ \A x : Kids(x)' = Kids(x)
      /\ \A r : IsDir(r)' = IsDir(r) /\ DirAt(r)' = DirAt(r)
  BY <1>3, SameIndex
<1>9. /\ loose \subseteq loose'
      /\ Clean(f)' => /\ IsDir(f) /\ Clean(f) /\ DirAt(f) \in loaded
                      /\ DirAt(f) = m.parent /\ p \notin DOMAIN path_map
  <2>1. /\ loose \subseteq loose'
        /\ ask.sure => OpClean(ask)
        /\ \A r \in ask.dirs : Clean(r)' => ask.sure
    BY <1>0, <1>1, <1>3, ServedIs
  <2> QED
    BY <1>2, <1>4, <2>1 DEF OpClean
<1>10. /\ \A r, x : CleanDir(r, x)' => CleanDir(r, x) /\ Clean(r)'
       /\ \A r, x : CleanEntry(r, x)' => CleanEntry(r, x)
       /\ \A r : Clean(r)' => Clean(r)
  BY <1>8, <1>9, CleanShrinks DEF CleanDir, CleanEntry
\* Nothing that is known has the new id.
<1>11. /\ \A y \in Ids : y <= lastId => y # m.id
       /\ \A e \in cloud : e.id # m.id /\ e.parent # m.id
  <2>1. m.id <= MaxId
    BY <1>3 DEF PostEntry
  <2> QED
    BY <1>0, <1>4, <2>1, NewIdIsFresh
<1>12. /\ \A y : Mentioned(y) => y # m.id
       /\ Unseen(m.id) /\ \A e \in DirIds : ~InListing(m.id, e)
       /\ root # m.id
  <2>1. \A y : (\E x : x.id = y /\ x \in Entry /\ Fits(x, lastId, D)) => y # m.id
    BY <1>11 DEF Fits, Entry
  <2>2. /\ \A q \in DOMAIN path_map : path_map[q].id # m.id
        /\ \A e \in DirIds : \A c \in Kids(e) : c.id # m.id
        /\ \A e \in DirIds : ~InListing(m.id, e)
    BY <1>0, <2>1, AgreeIs DEF IndexOK, InListing
  <2>3. \A y : Mentioned(y) => y # m.id
    BY <1>1, <2>2 DEF Mentioned
  <2>4. root # m.id /\ \A i \in D : i # m.id
    <3>1. (root \in Ids => root <= lastId) /\ \A i \in D : i <= lastId
      BY <1>0 DEF Agree
    <3> QED
      BY <1>4, <1>11, <3>1
  <2>5. m.id \notin loaded /\ Kids(m.id) = {} /\ listing[m.id] = None
    <3>1. m.id \in DirIds /\ ~(m.id <= lastId)
      BY <1>4, <1>6 DEF DirIds
    <3> QED
      BY <1>0, <1>4, <2>4, <3>1 DEF ListingsNew
  <2> QED
    BY <2>2, <2>3, <2>4, <2>5 DEF Unseen
<1>13. /\ \A y, e : InListing(y, e)' <=> InListing(y, e)
       /\ \A y : Unseen(y)' <=> Unseen(y)
       /\ \A r : ~Doomed(r)' /\ ~Doomed(r)
  BY <1>1, <1>3, <1>7, <1>8 DEF InListing, Unseen, Doomed
\* Of the clean folders only the new entry's has changed.
<1>14. ASSUME NEW x \in Path, NEW d \in DirIds, CleanDir(x, d), Real(m.parent) = Real(d)
       PROVE  x = f /\ d = m.parent
  BY <1>0, <1>5, <1>14, OnlyOnce
<1>15. Nested'
  BY <1>0, <1>3, <1>9, NestStays
<1>16. ListingsNew(D)'
  <2>1. \A x \in Ids : Kids(x)' # {} => x <= lastId'
    BY <1>0, <1>6, <1>8 DEF ListingsNew, Ids
  <2> QED
    BY <1>0, <1>3, <1>8, <1>10, <1>13, <2>1 DEF ListingsNew
<1>17. LoadedAgree'
  <2> SUFFICES ASSUME NEW x \in Path, NEW d \in DirIds, CleanDir(x, d)', d \in loaded, NEW y \in Entry
               PROVE  /\ WillHold(x, d, y)' => Holds(d, y)'
                      /\ Holds(d, y)' /\ y.name \notin Hidden => WillHold(x, d, y)'
    BY <1>3 DEF LoadedAgree
  <2>1. CleanDir(x, d)
    BY <1>10
  <2>2. /\ WillHold(x, d, y) => Holds(d, y)
        /\ Holds(d, y) /\ y.name \notin Hidden => WillHold(x, d, y)
    BY <1>0, <1>13, <2>1 DEF LoadedAgree
  <2>3. WillHold(x, d, y)' <=> WillHold(x, d, y) \/ (f = x /\ Alike(m, y))
    BY <1>1, <1>7, <1>8 DEF WillHold, Leaving, Coming, Alike
  <2>4. Holds(d, y)' <=> Holds(d, y) \/ (Real(m.parent) = Real(d) /\ Alike(m, y))
    BY <1>6 DEF Holds, Alike
  <2>5. f = x => d = m.parent
    BY <1>9, <1>10, <2>1 DEF CleanDir
  <2> QED
    BY <1>14, <2>1, <2>2, <2>3, <2>4, <2>5
<1>18. ListingsAgree'
  <2> SUFFICES ASSUME NEW x \in Path, NEW d \in DirIds, CleanDir(x, d)', d \notin loaded,
                      listing[d] # None
               PROVE  listing[d] = Contents(cloud', d)
    BY <1>3 DEF ListingsAgree
  <2>1. listing[d] = Contents(cloud, d) /\ CleanDir(x, d) /\ Clean(x)'
    BY <1>0, <1>10, <1>13 DEF ListingsAgree
  <2>2. Real(m.parent) # Real(d)
    BY <1>9, <1>14, <2>1
  <2> QED
    BY <1>6, <2>1, <2>2 DEF Contents
<1>19. DoomedGone'
  BY <1>13 DEF DoomedGone
<1>20. NothingLoaded'
  <2> SUFFICES ASSUME Clean(<< >>)', root \notin loaded PROVE FALSE
    BY <1>3, <1>8 DEF NothingLoaded
  <2>1. << >> \in Path /\ CleanDir(<< >>, root)
    BY <1>10 DEF Path, CleanDir, IsDir, DirAt
  <2>2. m.parent = root
    BY <1>0, <1>5, <2>1 DEF Apart
  <2>3. f = << >>
    BY <1>5, <2>1, <2>2 DEF OnlyAt
  <2> QED
    BY <1>9, <2>2, <2>3
<1>21. BelowUnseen'
  <2> SUFFICES ASSUME NEW x \in Path, NEW d \in DirIds, x # << >>, CleanDir(x, d)', d \notin loaded,
                      NEW y \in Ids, Below(d, y)'
               PROVE  /\ Unseen(y) /\ \A e \in DirIds \ {d} : ~InListing(y, e)
                      /\ y # m.id /\ y # m.parent
    BY <1>3, <1>7, <1>13 DEF BelowUnseen
  <2>1. CleanDir(x, d) /\ Clean(x)' /\ d \in Ids
    BY <1>0, <1>10, DirEntry
  <2>2. \A z \in Ids : Below(d, z) => Unseen(z) /\ \A e \in DirIds \ {d} : ~InListing(z, e)
    BY <1>0, <2>1 DEF BelowUnseen
  <2>3. ~Below(d, m.parent)
    BY <1>5, <2>1 DEF Apart
  <2>4. n.parent \notin Inside(cloud, d)
    <3> SUFFICES ASSUME n.parent \in Inside(cloud, d) PROVE FALSE
      OBVIOUS
    <3>1. n.parent \in Ids
      BY InsideIds
    <3>2. n.parent = m.parent
      BY <1>4, <1>6, <3>1, RealDir DEF Top, Ids
    <3>3. m.parent = d
      BY <2>3, <3>1, <3>2 DEF Below
    <3> QED
      BY <1>9, <1>14, <2>1, <3>3
  <2>5. Inside(cloud', d) \subseteq Inside(cloud, d)
    <3>1. ClosedUnder(cloud', Inside(cloud, d))
      BY <1>0, <1>6, <2>4, InsideClosed DEF ClosedUnder
    <3>2. Inside(cloud, d) \in SUBSET Ids /\ d \in Inside(cloud, d)
      BY <2>1, InsideIds, InsideSelf
    <3> QED
      BY <3>1, <3>2, InsideLeast
  <2>6. Below(d, y)
    BY <1>13, <2>5 DEF Below
  <2>7. y # m.id
    <3>1. CASE InListing(y, d)
      BY <1>12, <3>1
    <3>2. CASE y \in Inside(cloud, d) /\ y # d
      <4>1. \E e \in cloud : e.id = y
        BY <1>0, <2>1, <3>2, InsideParent
      <4> QED
        BY <1>11, <4>1
    <3> QED
      BY <2>6, <3>1, <3>2 DEF Below
  <2> QED
    BY <2>2, <2>3, <2>6, <2>7
<1>22. RootAbove'
  <2> SUFFICES ASSUME NEW x \in Ids, Mentioned(x)' PROVE root \notin Inside(cloud', x)
    BY <1>8 DEF RootAbove
  <2>1. Mentioned(x) \/ x = m.id
    BY <1>7, <1>8, <1>13 DEF Mentioned
  <2>2. CASE x = m.id
    <3>1. ClosedUnder(cloud', {m.id})
      <4>1. n.parent # m.id
        <5>1. Real(m.parent) = Top \/ \E e \in cloud : e.id = m.parent
          BY <1>3 DEF PostEntry, Exists
        <5>2. Real(m.parent) = Top \/ m.parent # m.id
          BY <1>11, <5>1
        <5> QED
          BY <1>4, <1>6, <5>2, RealDir DEF Top, Ids
      <4> QED
        BY <1>6, <1>11, <4>1 DEF ClosedUnder
    <3>2. Inside(cloud', x) \subseteq {m.id}
      BY <1>4, <2>2, <3>1, InsideLeast
    <3> QED
      BY <1>12, <3>2
  <2>3. CASE Mentioned(x)
    <3>1. ClosedUnder(cloud', Inside(cloud, x) \cup {m.id})
      BY <1>0, <1>6, <1>11, InsideClosed DEF ClosedUnder
    <3>2. x \in Inside(cloud, x) \cup {m.id} /\ Inside(cloud, x) \cup {m.id} \in SUBSET Ids
      BY <1>4, InsideSelf, InsideIds
    <3>3. Inside(cloud', x) \subseteq Inside(cloud, x) \cup {m.id}
      BY <3>1, <3>2, InsideLeast
    <3>4. root \notin Inside(cloud, x)
      BY <1>0, <2>3 DEF RootAbove
    <3> QED
      BY <1>12, <3>3, <3>4
  <2> QED
    BY <2>1, <2>2, <2>3
<1>23. OpSound'
  <2>1. (m.parent \in Ids => m.parent <= lastId') /\ \A e \in cloud' : e.parent # m.id
    <3>1. m.parent \in Ids => m.parent <= lastId /\ m.parent \in Nat
      <4>1. m.parent \in Ids => Real(m.parent) # Top
        BY SentinelAssumption DEF Real, Top, Ids
      <4>2. Real(m.parent) = Top \/ \E e \in cloud : e.id = m.parent
        BY <1>3 DEF PostEntry, Exists
      <4>3. \A e \in cloud : e.id <= lastId
        BY <1>0, AgreeIs DEF Fits
      <4> QED
        BY <4>1, <4>2, <4>3 DEF Ids
    <3>2. m.parent \in Ids => m.parent # m.id
      BY <1>11, <3>1
    <3>3. n.parent # m.id
      BY <1>4, <1>6, <3>2, RealDir DEF Top, Ids
    <3>4. \A e \in cloud' : e.parent # m.id
      BY <1>6, <1>11, <3>3
    <3>5. m.parent \in Ids => m.parent <= lastId'
      BY <1>6, <3>1
    <3> QED
      BY <3>4, <3>5
  <2>2. \A x \in Path : CleanDir(x, m.parent)' => x = f
    BY <1>4, <1>10, <1>14
  <2>3. \A q \in Path, e \in Entry : CleanEntry(q, e)' => e.id # m.id
    BY <1>10, <1>12 DEF CleanEntry, Mentioned
  <2>4. OpClean(op)' \/ ~Clean(f)'
    BY <1>3, <1>7, <1>8, <1>9 DEF OpClean
  <2>5. OpClean(op)' => m.parent = DirAt(f) /\ p \notin DOMAIN path_map
    BY <1>7, <1>9 DEF OpClean
  <2> QED
    BY <1>4, <1>7, <1>8, <1>12, <1>13, <2>1, <2>2, <2>3, <2>4, <2>5 DEF OpSound
<1> QED
  BY <1>15, <1>16, <1>17, <1>18, <1>19, <1>20, <1>21, <1>22, <1>23, SettledParts


\* Of the natural numbers in a set one is the least.
LEMMA LeastNat ==
  ASSUME NEW S \in SUBSET Nat, S # {}
  PROVE  \E n \in S : \A m \in S : n <= m
<1> DEFINE R == {ss \in Nat \X Nat : ss[1] < ss[2]}
<1>1. IsWellFoundedOn(R, Nat)
  BY NatLessThanWellFounded, Zenon DEF OpToRel
<1>2. PICK n \in S : \A m \in S : ~(<<m, n>> \in R)
  BY <1>1, WFMin, Zenon
<1>3. \A m \in S : <<m, n>> \in Nat \X Nat => ~(m < n)
  BY <1>2
<1>4. ASSUME NEW m \in S PROVE n <= m
  <2>1. m \in Nat /\ n \in Nat
    OBVIOUS
  <2>2. ~(m < n)
    BY <1>3, <2>1
  <2> QED
    BY <2>1, <2>2
<1> QED
  BY <1>4

\* What is inside an entry has its path below the entry's, or is not kept right.
LEMMA InsideIsBelow ==
  ASSUME NEW D \in SUBSET Ids, NsInv(D), Settled(D), AskSound, root # None,
         ask # None, ask.kind # "add",
         NEW x \in Path, NEW d \in DirIds, CleanDir(x, d), ~IsPrefix(ask.path, x)
  PROVE  d \notin Inside(cloud, ask.id)
<1>0. /\ CloudOK /\ IndexOK /\ root \in DirIds /\ PathsNest /\ IdsOnce /\ LoadedAgree /\ RootAbove
      /\ \A e \in cloud : e.id \in Ids
  BY PartsOf
<1> PICK i : i = ask.id
  OBVIOUS
<1> PICK p : p = ask.path
  OBVIOUS
<1>1. /\ i \in Ids /\ p \in Path /\ p # << >> /\ op = None /\ root \notin Inside(cloud, i)
      /\ \A q \in Path, m \in Entry : CleanEntry(q, m) /\ m.id = i => q = p
  BY DEF NsInv, AskInv, AskSound
<1> DEFINE Kept == {e \in DirIds : \E r \in Path : CleanDir(r, e) /\ ~IsPrefix(p, r)}
           S == Inside(cloud, i) \ Kept
<1>2. i \in S /\ S \in SUBSET Ids
  <2>1. ASSUME NEW r \in Path, CleanDir(r, i) PROVE IsPrefix(p, r)
    <3>1. r # << >>
      BY <1>1, <2>1, InsideSelf DEF CleanDir, DirAt
    <3>2. path_map[r] \in Entry /\ path_map[r].id = i /\ CleanEntry(r, path_map[r])
      BY <1>0, <2>1, <3>1, DirEntry
    <3>3. r = p
      BY <1>1, <3>2
    <3> QED
      BY <1>1, <3>3, PrefixSelf
  <2> QED
    BY <1>1, <2>1, InsideSelf, InsideIds
<1>3. ClosedUnder(cloud, S)
  <2> SUFFICES ASSUME NEW e \in cloud, e.parent \in S, e.id \in Kept PROVE FALSE
    BY <1>0, InsideClosed DEF ClosedUnder
  <2>1. PICK r \in Path : CleanDir(r, e.id) /\ ~IsPrefix(p, r)
    OBVIOUS
  <2>2. e.id \in Inside(cloud, i) /\ e.parent \in Ids
    BY <1>0, InsideClosed, InsideIds DEF ClosedUnder
  <2>3. r # << >>
    BY <1>1, <2>1, <2>2 DEF CleanDir, DirAt
  <2>4. /\ path_map[r] \in Entry /\ path_map[r].id = e.id /\ CleanEntry(r, path_map[r])
        /\ r \in DOMAIN path_map
    BY <1>0, <2>1, <2>3, DirEntry
  <2> PICK c : c = path_map[r]
    OBVIOUS
  <2>5. c \in Entry /\ c.id = e.id /\ CleanEntry(r, c)
    BY <2>4
  <2>6. CleanDir(Front(r), c.parent) /\ c.parent \in loaded /\ c \in Kids(c.parent)
        /\ c.parent \in DirIds
    BY <1>0, <2>5, EntryNests
  <2>7. Front(r) \in Path /\ IsPrefix(Front(r), r)
    <3>1. Front(r) \in Path
      BY <2>3, FrontLast
    <3> QED
      BY <2>3, <3>1, PrefixFront, PrefixSelf
  <2>8. ~IsPrefix(p, Front(r))
    BY <1>1, <2>1, <2>7, PrefixTrans
  <2>9. WillHold(Front(r), c.parent, c) /\ ~Doomed(Front(r))
    BY <1>1, <2>6 DEF WillHold, Leaving, Doomed, Alike
  <2>10. Holds(c.parent, c)
    BY <1>0, <2>5, <2>6, <2>7, <2>9 DEF LoadedAgree
  <2>11. e.parent = Real(c.parent)
    BY <1>0, <2>5, <2>10, CloudOnce DEF Holds, Alike
  <2>12. c.parent = e.parent
    BY <2>2, <2>6, <2>11, RealDir DEF Top, Ids
  <2>13. e.parent \in Kept
    BY <2>6, <2>7, <2>8, <2>12
  <2> QED
    BY <2>13
<1> HIDE DEF S
<1>4. Inside(cloud, i) \subseteq S
  BY <1>2, <1>3, InsideLeast
<1>5. d \in Kept
  OBVIOUS
<1> QED
  BY <1>4, <1>5 DEF S

\* What has its path below the entry's is inside the entry.
LEMMA BelowIsInside ==
  ASSUME NEW D \in SUBSET Ids, NsInv(D), Settled(D), AskSound, root # None,
         ask # None, ask.kind # "add",
         NEW x \in Path, NEW d \in DirIds, CleanDir(x, d), IsPrefix(ask.path, x)
  PROVE  d \in Inside(cloud, ask.id)
<1>0. /\ CloudOK /\ IndexOK /\ PathsNest /\ LoadedAgree
      /\ \A e \in cloud : e.id \in Ids
  BY PartsOf
<1> PICK i : i = ask.id
  OBVIOUS
<1> PICK p : p = ask.path
  OBVIOUS
<1>1. /\ i \in Ids /\ p \in Path /\ p # << >> /\ op = None
      /\ Clean(Front(p)) => path_map[p].id = i
  BY DEF NsInv, AskInv, AskSound
<1> DEFINE Astray(r, e) == CleanDir(r, e) /\ IsPrefix(p, r) /\ e \notin Inside(cloud, i)
           S == {n \in Nat : \E r \in Path : \E e \in DirIds : Len(r) = n /\ Astray(r, e)}
<1> SUFFICES ASSUME d \notin Inside(cloud, i) PROVE FALSE
  OBVIOUS
<1>2. S # {}
  <2>1. Len(x) \in Nat
    BY LenProperties DEF Path
  <2> QED
    BY <2>1
<1>3. PICK n \in S : \A m \in S : n <= m
  BY <1>2, LeastNat
<1>4. PICK r \in Path : \E e \in DirIds : Len(r) = n /\ Astray(r, e)
  OBVIOUS
<1>5. PICK e \in DirIds : Len(r) = n /\ CleanDir(r, e) /\ IsPrefix(p, r) /\ e \notin Inside(cloud, i)
  BY <1>4
<1>6. r # << >>
  <2>1. Len(p) <= Len(r) /\ Len(p) > 0 /\ Len(p) \in Nat
    BY <1>1, <1>5, PrefixMeans, FrontLast
  <2>2. Len(<< >>) = 0
    BY EmptySeq, LenProperties
  <2> QED
    BY <2>1, <2>2
<1>7. /\ path_map[r] \in Entry /\ path_map[r].id = e /\ CleanEntry(r, path_map[r])
      /\ r \in DOMAIN path_map
  BY <1>0, <1>5, <1>6, DirEntry
<1> PICK c : c = path_map[r]
  OBVIOUS
<1>8. /\ CleanDir(Front(r), c.parent) /\ c.parent \in loaded /\ c \in Kids(c.parent)
      /\ c.parent \in DirIds /\ Front(r) \in Path /\ Len(Front(r)) = Len(r) - 1 /\ Len(r) \in Nat
      /\ Len(r) > 0
  BY <1>0, <1>6, <1>7, EntryNests, FrontLast
<1>9. IsPrefix(p, Front(r))
  <2>1. CASE r = p
    <3>1. e = i
      BY <1>1, <1>7, <2>1 DEF CleanEntry
    <3> QED
      BY <1>1, <1>5, <3>1, InsideSelf
  <2>2. CASE r # p
    BY <1>1, <1>5, <1>6, <2>2, PrefixFront
  <2> QED
    BY <2>1, <2>2
<1>10. c.parent \in Inside(cloud, i)
  <2> SUFFICES ASSUME c.parent \notin Inside(cloud, i) PROVE FALSE
    OBVIOUS
  <2>1. Len(r) - 1 \in Nat
    BY <1>8
  <2>2. Len(r) - 1 \in S
    BY <1>8, <1>9, <2>1
  <2> HIDE DEF S
  <2>3. n <= Len(r) - 1
    BY <1>3, <2>2
  <2> QED
    BY <1>5, <1>8, <2>3
<1>11. WillHold(Front(r), c.parent, c) /\ ~Doomed(Front(r))
  BY <1>1, <1>8 DEF WillHold, Leaving, Doomed, Alike
<1>12. Holds(c.parent, c)
  BY <1>0, <1>7, <1>8, <1>11 DEF LoadedAgree
<1>13. PICK k \in cloud : k.parent = Real(c.parent) /\ k.id = e
  BY <1>7, <1>12 DEF Holds, Alike
<1>14. Real(c.parent) = c.parent
  BY <1>10, InsideIds, SentinelAssumption DEF Real, Ids
<1>15. e \in Inside(cloud, i)
  BY <1>0, <1>10, <1>13, <1>14, InsideClosed DEF ClosedUnder
<1> QED
  BY <1>5, <1>15

\* No entry of a folder that is not loaded is the one that is asked for.
LEMMA AskNotBelow ==
  ASSUME NEW D \in SUBSET Ids, NsInv(D), Settled(D), AskSound, root # None,
         ask # None, ask.kind # "add",
         NEW x \in Path, NEW d \in DirIds, CleanDir(x, d), d \notin loaded,
         NEW e \in cloud, e.parent = Real(d)
  PROVE  e.id # ask.id
<1>0. CloudOK /\ IndexOK /\ RootAbove
  BY PartsOf
<1>1. ~Below(d, ask.id) /\ (x = << >> => ask.id = root) /\ root \notin Inside(cloud, ask.id)
      /\ ask.id \in Ids
  BY DEF NsInv, AskInv, AskSound, Apart
<1>2. x # << >>
  BY <1>1, InsideSelf
<1>3. e.id # d /\ (d \in Ids => e.id \in Inside(cloud, d)) /\ d \in Ids
  BY <1>0, <1>2, InFolder, FolderId
<1> QED
  BY <1>1, <1>3 DEF Below

\* unlink and rmdir: all that is inside the entry goes, and what of it has been
\* listed is below the entry's path.
LEMMA ServeRemoveSettles ==
  ASSUME NEW D \in SUBSET Ids, NsInv(D), Settled(D), AskSound, root # None, ServeRemove
  PROVE  Settled(D)'
<1>0. /\ CloudOK /\ IndexOK /\ OpInv /\ Agree(D) /\ root \in DirIds
      /\ Nested /\ PathsNest /\ IdsOnce /\ KidsNamed
      /\ ListingsNew(D) /\ LoadedAgree /\ ListingsAgree /\ DoomedGone
      /\ NothingLoaded /\ BelowUnseen /\ RootAbove /\ OpSound
      /\ \A e \in cloud : e.id \in Ids
  BY PartsOf
<1> PICK p : p = ask.path
  OBVIOUS
<1> PICK i : i = ask.id
  OBVIOUS
<1> PICK f : f = Front(p)
  OBVIOUS
<1> PICK j : j = path_map[p].id
  OBVIOUS
<1>1. AskInv /\ ask # None /\ ask.kind = "remove" /\ op = None
  BY DEF NsInv, AskInv, ServeRemove
<1>2. p \in DOMAIN path_map /\ p \in Path /\ p # << >> /\ i \in Ids /\ f \in Path
  BY <1>1, FrontLast DEF AskInv
<1>3. /\ ask.dirs = {f} /\ root \notin Inside(cloud, i)
      /\ \A q \in Path, m \in Entry : CleanEntry(q, m) /\ m.id = i => q = p
      /\ Clean(f) => j = i
  BY <1>1 DEF AskSound
<1>4. /\ DeleteEntry(i) /\ Served
      /\ op' = [kind |-> "remove", path |-> p, dirs |-> {f}]
      /\ UNCHANGED <<root, index>> /\ loaded' = loaded /\ listing' = listing
  BY <1>3 DEF ServeRemove, Served, loading
<1>5. /\ op' # None /\ op'.kind = "remove" /\ op'.path = p /\ op'.dirs = {f}
  <2>1. op'.kind = "remove" /\ op'.path = p /\ op'.dirs = {f}
    BY <1>4
  <2>2. [kind |-> "remove", path |-> p, dirs |-> {f}] \in Operation
    BY <1>2 DEF Operation
  <2> QED
    BY <1>4, <2>1, <2>2, OperationAssumption
<1>6. /\ path_map' = path_map /\ id_map' = id_map /\ children_map' = children_map /\ root' = root
      /\ \A x : Kids(x)' = Kids(x)
      /\ \A r : IsDir(r)' = IsDir(r) /\ DirAt(r)' = DirAt(r)
  BY <1>4, SameIndex
<1>7. /\ loose \subseteq loose'
      /\ Clean(f)' => IsDir(f) /\ Clean(f) /\ DirAt(f) \in loaded
  <2>1. /\ loose \subseteq loose'
        /\ ask.sure => OpClean(ask)
        /\ \A r \in ask.dirs : Clean(r)' => ask.sure
    BY <1>0, <1>1, <1>4, ServedIs
  <2> QED
    BY <1>3, <2>1 DEF OpClean
<1>8. /\ \A r, x : CleanDir(r, x)' => CleanDir(r, x)
      /\ \A r, x : CleanEntry(r, x)' => CleanEntry(r, x)
      /\ \A r : Clean(r)' => Clean(r)
  BY <1>6, <1>7, CleanShrinks DEF CleanDir, CleanEntry
<1> PICK In : In = Inside(cloud, i)
  OBVIOUS
<1>9. /\ cloud' = {e \in cloud : e.id \notin In} /\ lastId' = lastId
      /\ i \in In /\ In \subseteq Ids /\ \A e \in cloud : e.parent \in In => e.id \in In
      /\ \A x \in In : x # i => \E e \in cloud : e.id = x /\ e.parent \in In
  <2>1. cloud' = {e \in cloud : e.id \notin In} /\ lastId' = lastId
    BY <1>0, <1>4, DeleteKeeps
  <2>2. \A x \in Inside(cloud, i) : x # i => \E e \in cloud : e.id = x /\ e.parent \in Inside(cloud, i)
    BY <1>0, <1>2, InsideParent
  <2> QED
    BY <1>0, <1>2, <2>1, <2>2, InsideSelf, InsideIds, InsideClosed DEF ClosedUnder
<1>10. /\ \A y, e : InListing(y, e)' <=> InListing(y, e)
       /\ \A y : Unseen(y)' <=> Unseen(y)
       /\ \A r : Doomed(r)' <=> IsPrefix(p, r)
       /\ \A r : ~Doomed(r)
  BY <1>1, <1>4, <1>5, <1>6 DEF InListing, Unseen, Doomed
<1>11. ASSUME NEW x \in Path, NEW d \in DirIds, CleanDir(x, d), ~IsPrefix(p, x)
       PROVE  d \notin In /\ Real(d) \notin In
  <2>1. d \notin In
    BY <1>1, <1>11, InsideIsBelow
  <2>2. Real(d) = d \/ Real(d) \notin Ids
    BY RealDir DEF Top, Ids
  <2> QED
    BY <1>9, <2>1, <2>2
<1>12. ASSUME NEW x \in Path, NEW d \in DirIds, CleanDir(x, d), IsPrefix(p, x)
       PROVE  d \in In /\ Real(d) = d
  <2>1. d \in In
    BY <1>1, <1>12, BelowIsInside
  <2> QED
    BY <1>9, <2>1, SentinelAssumption DEF Real, Ids
<1>13. Nested'
  BY <1>0, <1>4, <1>7, NestStays
<1>14. ListingsNew(D)'
  BY <1>0, <1>4, <1>6, <1>8, <1>9, <1>10 DEF ListingsNew
<1>15. LoadedAgree'
  <2> SUFFICES ASSUME NEW x \in Path, NEW d \in DirIds, CleanDir(x, d)', d \in loaded, NEW y \in Entry,
                      ~IsPrefix(p, x)
               PROVE  /\ WillHold(x, d, y)' => Holds(d, y)'
                      /\ Holds(d, y)' /\ y.name \notin Hidden => WillHold(x, d, y)'
    BY <1>4, <1>10 DEF LoadedAgree
  <2>1. CleanDir(x, d) /\ (f = x => j = i)
    BY <1>3, <1>8 DEF CleanDir
  <2>2. /\ WillHold(x, d, y) => Holds(d, y)
        /\ Holds(d, y) /\ y.name \notin Hidden => WillHold(x, d, y)
    BY <1>0, <1>10, <2>1 DEF LoadedAgree
  <2>3. WillHold(x, d, y) <=> \E c \in Kids(d) : Alike(c, y)
    BY <1>1 DEF WillHold, Leaving, Coming
  <2>4. WillHold(x, d, y)' <=> ~(f = x /\ j = y.id) /\ \E c \in Kids(d) : Alike(c, y)
    BY <1>5, <1>6 DEF WillHold, Leaving, Coming, Alike
  <2>5. Holds(d, y)' <=> \E e \in cloud : e.id \notin In /\ e.parent = Real(d) /\ Alike(e, y)
    BY <1>9 DEF Holds, Alike
  <2>6. ASSUME WillHold(x, d, y)' PROVE Holds(d, y)'
    <3>1. PICK e \in cloud : e.parent = Real(d) /\ Alike(e, y)
      BY <2>2, <2>3, <2>4, <2>6 DEF Holds
    <3>2. ASSUME e.id \in In PROVE FALSE
      <4>1. e.id # i => Real(d) \in In
        BY <1>0, <1>9, <3>1, <3>2, CloudOnce
      <4>2. y.id = i
        BY <1>11, <2>1, <3>1, <4>1 DEF Alike
      <4>3. PICK c \in Kids(d) : c.id = i
        BY <2>4, <2>6, <4>2 DEF Alike
      <4>4. /\ c \in Entry /\ Append(x, c.name) \in Path /\ CleanEntry(Append(x, c.name), c)
            /\ Front(Append(x, c.name)) = x
        BY <1>0, <2>1, <4>3, KidEntry
      <4>5. f = x
        BY <1>3, <4>3, <4>4
      <4> QED
        BY <2>1, <2>4, <2>6, <4>2, <4>5
    <3> QED
      BY <2>5, <3>1, <3>2
  <2>7. ASSUME Holds(d, y)', y.name \notin Hidden PROVE WillHold(x, d, y)'
    <3>1. PICK e \in cloud : e.id \notin In /\ e.parent = Real(d) /\ Alike(e, y)
      BY <2>5, <2>7
    <3>2. y.id # i /\ Holds(d, y)
      BY <1>9, <3>1 DEF Alike, Holds
    <3> QED
      BY <2>1, <2>2, <2>3, <2>4, <2>7, <3>2
  <2> QED
    BY <2>6, <2>7
<1>16. ListingsAgree'
  <2> SUFFICES ASSUME NEW x \in Path, NEW d \in DirIds, CleanDir(x, d)', d \notin loaded,
                      listing[d] # None, ~IsPrefix(p, x)
               PROVE  listing[d] = Contents(cloud', d)
    BY <1>4, <1>10 DEF ListingsAgree
  <2>1. listing[d] = Contents(cloud, d) /\ CleanDir(x, d)
    BY <1>0, <1>8, <1>10 DEF ListingsAgree
  <2>2. ASSUME NEW e \in cloud, e.parent = Real(d), e.id \in In PROVE FALSE
    <3>1. e.id = i
      BY <1>0, <1>9, <1>11, <2>1, <2>2, CloudOnce
    <3> QED
      BY <1>1, <2>1, <2>2, <3>1, AskNotBelow
  <2> QED
    BY <1>9, <2>1, <2>2 DEF Contents
<1>17. DoomedGone'
  <2> SUFFICES ASSUME NEW x \in Path, NEW d \in DirIds, CleanDir(x, d)', IsPrefix(p, x), NEW e \in cloud'
               PROVE  e.id # d /\ ~InListing(e.id, d) /\ \A c \in Kids(d) : c.id # e.id
    BY <1>6, <1>10 DEF DoomedGone
  <2>1. CleanDir(x, d) /\ d \in In /\ Real(d) = d
    BY <1>8, <1>12
  <2>2. e \in cloud /\ e.id \notin In
    BY <1>9
  <2>3. ASSUME InListing(e.id, d) PROVE FALSE
    <3>1. d \notin loaded
      BY <1>0, <2>3 DEF ListingsNew, InListing
    <3>2. listing[d] = Contents(cloud, d)
      BY <1>0, <1>10, <2>1, <2>3, <3>1 DEF ListingsAgree, InListing
    <3>3. e.parent = d
      BY <1>0, <2>1, <2>2, <2>3, <3>2, CloudOnce DEF InListing, Contents
    <3> QED
      BY <1>9, <2>1, <2>2, <3>3
  <2>4. ASSUME NEW c \in Kids(d), c.id = e.id PROVE FALSE
    <3>1. c \in Entry /\ d \in loaded
      BY <1>0, <2>1, KidEntry
    <3>2. WillHold(x, d, c)
      BY <1>1 DEF WillHold, Leaving, Alike
    <3>3. Holds(d, c)
      BY <1>0, <1>10, <2>1, <3>1, <3>2 DEF LoadedAgree
    <3>4. e.parent = d
      BY <1>0, <2>1, <2>2, <2>4, <3>3, CloudOnce DEF Holds, Alike
    <3> QED
      BY <1>9, <2>1, <2>2, <3>4
  <2> QED
    BY <2>1, <2>2, <2>3, <2>4
<1>18. NothingLoaded'
  BY <1>0, <1>2, <1>4, <1>6, <1>8 DEF NothingLoaded
<1>19. \A x \in Ids : Inside(cloud', x) \subseteq Inside(cloud, x)
  BY <1>0, <1>9, InsideMono
<1>20. BelowUnseen'
  <2> SUFFICES ASSUME NEW x \in Path, NEW d \in DirIds, x # << >>, CleanDir(x, d)', d \notin loaded,
                      NEW y \in Ids, Below(d, y)'
               PROVE  Unseen(y) /\ \A e \in DirIds \ {d} : ~InListing(y, e)
    BY <1>4, <1>5, <1>10 DEF BelowUnseen
  <2>1. CleanDir(x, d) /\ d \in Ids
    BY <1>0, <1>8, DirEntry
  <2>2. Below(d, y)
    BY <1>10, <1>19, <2>1 DEF Below
  <2> QED
    BY <1>0, <2>1, <2>2 DEF BelowUnseen
<1>21. RootAbove'
  <2> SUFFICES ASSUME NEW x \in Ids, Mentioned(x)' PROVE root \notin Inside(cloud', x)
    BY <1>6 DEF RootAbove
  <2>1. Mentioned(x)
    BY <1>5, <1>6, <1>10 DEF Mentioned
  <2> QED
    BY <1>0, <1>19, <2>1 DEF RootAbove
<1>22. OpSound'
  <2>1. OpClean(op)' \/ ~Clean(f)'
    BY <1>4, <1>5, <1>6, <1>7 DEF OpClean
  <2>2. OpClean(op)' => \A e \in cloud' : e.id # j
    <3>1. OpClean(op)' => j = i
      BY <1>3, <1>5, <1>7 DEF OpClean
    <3> QED
      BY <1>9, <3>1
  <2> QED
    BY <1>5, <1>6, <2>1, <2>2 DEF OpSound
<1> QED
  BY <1>13, <1>14, <1>15, <1>16, <1>17, <1>18, <1>20, <1>21, <1>22, SettledParts

\* rename: the entry leaves one folder and comes into another, once answered.
LEMMA ServeMoveSettles ==
  ASSUME NEW D \in SUBSET Ids, NsInv(D), Settled(D), AskSound, root # None, ServeMove
  PROVE  Settled(D)'
<1>0. /\ CloudOK /\ IndexOK /\ OpInv /\ Agree(D) /\ root \in DirIds
      /\ Nested /\ PathsNest /\ IdsOnce /\ KidsNamed
      /\ ListingsNew(D) /\ LoadedAgree /\ ListingsAgree /\ DoomedGone
      /\ NothingLoaded /\ BelowUnseen /\ RootAbove /\ OpSound
      /\ \A e \in cloud : e.id \in Ids
  BY PartsOf
<1> PICK p : p = ask.path
  OBVIOUS
<1> PICK q : q = ask.to
  OBVIOUS
<1> PICK i : i = ask.id
  OBVIOUS
<1> PICK t : t = ask.parent
  OBVIOUS
<1> PICK fp : fp = Front(p)
  OBVIOUS
<1> PICK fq : fq = Front(q)
  OBVIOUS
<1> PICK m : m = path_map[p]
  OBVIOUS
<1>1. AskInv /\ ask # None /\ ask.kind = "move" /\ op = None
  BY DEF NsInv, AskInv, ServeMove
<1>2. /\ p \in DOMAIN path_map /\ p \in Path /\ p # << >> /\ i \in Ids
      /\ q \in Path /\ q # << >> /\ IsFolder(t) /\ t \in DirIds
  BY <1>1 DEF AskInv, IsFolder
<1>3. fp \in Path /\ fq \in Path /\ Last(q) \in Names /\ m \in Entry
  BY <1>0, <1>2, FrontLast DEF IndexOK
<1>4. /\ ask.dirs = {fp, fq} /\ ~IsPrefix(p, q) /\ root \notin Inside(cloud, i)
      /\ OnlyAt(t, fq) /\ Apart(t)
      /\ \A r \in Path, e \in Entry : CleanEntry(r, e) /\ e.id = i => r = p
      /\ Clean(fp) => m.id = i
      /\ ask.sure => OpClean(ask) /\ DirAt(fq) = t /\ q \notin DOMAIN path_map
  BY <1>1 DEF AskSound, OnlyAt
<1>5. /\ PatchEntry(i, Last(q), t) /\ Served
      /\ op' = [kind |-> "move", path |-> p, to |-> q, dirs |-> {fp, fq}]
      /\ UNCHANGED <<root, index>> /\ loaded' = loaded /\ listing' = listing
  BY <1>4 DEF ServeMove, Served, loading
<1>6. /\ op' # None /\ op'.kind = "move" /\ op'.path = p /\ op'.to = q /\ op'.dirs = {fp, fq}
  <2>1. op'.kind = "move" /\ op'.path = p /\ op'.to = q /\ op'.dirs = {fp, fq}
    BY <1>5
  <2>2. [kind |-> "move", path |-> p, to |-> q, dirs |-> {fp, fq}] \in Operation
    BY <1>2, <1>3 DEF Operation
  <2> QED
    BY <1>5, <2>1, <2>2, OperationAssumption
<1>7. /\ path_map' = path_map /\ id_map' = id_map /\ children_map' = children_map /\ root' = root
      /\ \A x : Kids(x)' = Kids(x)
      /\ \A r : IsDir(r)' = IsDir(r) /\ DirAt(r)' = DirAt(r)
  BY <1>5, SameIndex
<1>8. /\ loose \subseteq loose' /\ (ask.sure => loose' = loose)
      /\ Clean(fp)' \/ Clean(fq)' => ask.sure
      /\ ask.sure => /\ IsDir(fp) /\ Clean(fp) /\ DirAt(fp) \in loaded /\ m.id = i
                     /\ IsDir(fq) /\ Clean(fq) /\ t \in loaded
  <2>1. /\ loose \subseteq loose'
        /\ ask.sure => loose' = loose /\ OpClean(ask)
        /\ \A r \in ask.dirs : Clean(r)' => ask.sure
    BY <1>0, <1>1, <1>5, ServedIs
  <2> QED
    BY <1>4, <2>1 DEF OpClean
<1>9. /\ \A r, x : CleanDir(r, x)' => CleanDir(r, x) /\ Clean(r)'
      /\ \A r, x : CleanEntry(r, x)' => CleanEntry(r, x)
      /\ \A r : Clean(r)' => Clean(r)
  BY <1>7, <1>8, CleanShrinks DEF CleanDir, CleanEntry
<1>10. /\ \A y, e : InListing(y, e)' <=> InListing(y, e)
       /\ \A y : Unseen(y)' <=> Unseen(y)
       /\ \A r : ~Doomed(r)' /\ ~Doomed(r)
       /\ \A y : Mentioned(y)' => Mentioned(y)
  BY <1>1, <1>5, <1>6, <1>7 DEF InListing, Unseen, Doomed, Mentioned
<1>11. /\ cloud' = {Patched(e, i, Last(q), t) : e \in cloud} /\ lastId' = lastId
       /\ \E e \in cloud : e.id = i
  <2>1. cloud' = {Patched(e, i, Last(q), t) : e \in cloud} /\ lastId' = lastId
    BY <1>0, <1>2, <1>3, <1>5, PatchKeeps
  <2>2. Real(i) # Top
    BY <1>2, SentinelAssumption DEF Real, Top, Ids
  <2>3. Exists(i)
    BY <1>5, Zenon DEF PatchEntry
  <2>4. \E e \in cloud : e.id = i
    BY <2>2, <2>3 DEF Exists
  <2> QED
    BY <2>1, <2>4
\* The entry that has moved, and all the others.
<1> PICK k \in cloud : k.id = i
  BY <1>11
<1> PICK n : n = Patched(k, i, Last(q), t)
  OBVIOUS
<1>12. /\ n \in cloud' /\ n.id = i /\ n.name = Last(q) /\ n.parent = Real(t) /\ n.dir = k.dir
       /\ \A e \in cloud : e.id # i => e \in cloud'
       /\ \A e \in cloud' : e = n \/ (e \in cloud /\ e.id # i)
  <2>1. \A e \in cloud : e.id = i => e = k
    BY <1>0, CloudOnce
  <2>2. \A e \in cloud : e.id # i => Patched(e, i, Last(q), t) = e
    BY DEF Patched
  <2>3. n.id = i /\ n.name = Last(q) /\ n.parent = Real(t) /\ n.dir = k.dir
    BY <1>0, <1>2, <1>3, PatchedIs
  <2> QED
    BY <1>11, <2>1, <2>2, <2>3
<1>13. m.id = i => m.dir = k.dir
  <2>1. (k.dir <=> k.id \in D) /\ (m.dir <=> m.id \in D) /\ k.dir \in BOOLEAN /\ m.dir \in BOOLEAN
    BY <1>0, <1>2, <1>3, AgreeIs DEF Fits, CloudOK, Entry
  <2> QED
    BY <2>1
<1>14. ASSUME NEW x \in Path, NEW d \in DirIds, CleanDir(x, d), Real(t) = Real(d)
       PROVE  x = fq /\ d = t
  BY <1>0, <1>4, <1>14, OnlyOnce
<1>15. Nested'
  BY <1>0, <1>5, <1>8, NestStays
<1>16. ListingsNew(D)'
  BY <1>0, <1>5, <1>7, <1>9, <1>10, <1>11 DEF ListingsNew
<1>17. LoadedAgree'
  <2> SUFFICES ASSUME NEW x \in Path, NEW d \in DirIds, CleanDir(x, d)', d \in loaded, NEW y \in Entry
               PROVE  /\ WillHold(x, d, y)' => Holds(d, y)'
                      /\ Holds(d, y)' /\ y.name \notin Hidden => WillHold(x, d, y)'
    BY <1>5 DEF LoadedAgree
  <2>1. CleanDir(x, d) /\ Clean(x)'
    BY <1>9
  <2>2. /\ WillHold(x, d, y) => Holds(d, y)
        /\ Holds(d, y) /\ y.name \notin Hidden => WillHold(x, d, y)
    BY <1>0, <1>10, <2>1 DEF LoadedAgree
  <2>3. WillHold(x, d, y) <=> \E c \in Kids(d) : Alike(c, y)
    BY <1>1 DEF WillHold, Leaving, Coming
  <2>4. WillHold(x, d, y)' <=> \/ ~(fp = x /\ m.id = y.id) /\ \E c \in Kids(d) : Alike(c, y)
                               \/ fq = x /\ m.id = y.id /\ Last(q) = y.name /\ m.dir = y.dir
    BY <1>6, <1>7 DEF WillHold, Leaving, Coming, Alike
  <2>5. Holds(d, y)' <=> \/ Real(t) = Real(d) /\ i = y.id /\ Last(q) = y.name /\ k.dir = y.dir
                         \/ \E e \in cloud : e.id # i /\ e.parent = Real(d) /\ Alike(e, y)
    BY <1>12 DEF Holds, Alike
  <2>6. /\ fq = x <=> Real(t) = Real(d)
        /\ fp = x \/ fq = x => m.id = i /\ m.dir = k.dir
    <3>1. fp = x \/ fq = x => ask.sure
      BY <1>8, <2>1
    <3>2. fq = x => d = t
      BY <1>4, <2>1, <3>1 DEF CleanDir
    <3> QED
      BY <1>8, <1>13, <1>14, <2>1, <3>1, <3>2
  <2>7. ASSUME ~(fp = x /\ i = y.id), NEW c \in Kids(d), Alike(c, y)
        PROVE  \E e \in cloud : e.id # i /\ e.parent = Real(d) /\ Alike(e, y)
    <3>1. PICK e \in cloud : e.parent = Real(d) /\ Alike(e, y)
      BY <2>2, <2>3, <2>7 DEF Holds
    <3>2. ASSUME e.id = i PROVE FALSE
      <4>1. c.id = i /\ i = y.id
        BY <2>7, <3>1, <3>2 DEF Alike
      <4>2. /\ c \in Entry /\ Append(x, c.name) \in Path /\ CleanEntry(Append(x, c.name), c)
            /\ Front(Append(x, c.name)) = x
        BY <1>0, <2>1, KidEntry
      <4>3. fp = x
        BY <1>4, <4>1, <4>2
      <4> QED
        BY <2>7, <4>1, <4>3
    <3> QED
      BY <3>1, <3>2
  <2>8. ASSUME NEW e \in cloud, e.id # i, e.parent = Real(d), Alike(e, y), y.name \notin Hidden
        PROVE  y.id # i /\ \E c \in Kids(d) : Alike(c, y)
    <3>1. Holds(d, y) /\ y.id # i
      BY <2>8 DEF Holds, Alike
    <3> QED
      BY <2>2, <2>3, <2>8, <3>1
  <2>9. WillHold(x, d, y)' => Holds(d, y)'
    BY <2>4, <2>5, <2>6, <2>7
  <2>10. Holds(d, y)' /\ y.name \notin Hidden => WillHold(x, d, y)'
    BY <2>4, <2>5, <2>6, <2>8
  <2> QED
    BY <2>9, <2>10
<1>18. ListingsAgree'
  <2> SUFFICES ASSUME NEW x \in Path, NEW d \in DirIds, CleanDir(x, d)', d \notin loaded,
                      listing[d] # None
               PROVE  listing[d] = Contents(cloud', d)
    BY <1>5 DEF ListingsAgree
  <2>1. listing[d] = Contents(cloud, d) /\ CleanDir(x, d) /\ Clean(x)'
    BY <1>0, <1>9, <1>10 DEF ListingsAgree
  <2>2. \A e \in cloud : e.parent = Real(d) => e.id # i
    BY <1>1, <2>1, AskNotBelow
  <2>3. Real(t) # Real(d)
    BY <1>8, <1>14, <2>1
  <2> QED
    BY <1>12, <2>1, <2>2, <2>3 DEF Contents
<1>19. DoomedGone'
  BY <1>10 DEF DoomedGone
<1>20. NothingLoaded'
  BY <1>0, <1>2, <1>5, <1>7, <1>9 DEF NothingLoaded
<1>21. BelowUnseen'
  <2> SUFFICES ASSUME NEW x \in Path, NEW d \in DirIds, x # << >>, CleanDir(x, d)', d \notin loaded,
                      NEW y \in Ids, Below(d, y)'
               PROVE  Unseen(y) /\ \A e \in DirIds \ {d} : ~InListing(y, e)
    BY <1>5, <1>6, <1>10 DEF BelowUnseen
  <2>1. CleanDir(x, d) /\ d \in Ids /\ Clean(x)'
    BY <1>0, <1>9, DirEntry
  <2>2. \A z \in Ids : Below(d, z) => Unseen(z) /\ \A e \in DirIds \ {d} : ~InListing(z, e)
    BY <1>0, <2>1 DEF BelowUnseen
  <2>3. Real(t) \notin Inside(cloud, d)
    <3> SUFFICES ASSUME Real(t) \in Inside(cloud, d) PROVE FALSE
      OBVIOUS
    <3>1. Real(t) = t
      BY <1>2, InsideIds, RealDir DEF Top, Ids
    <3>2. ~Below(d, t)
      BY <1>4, <2>1 DEF Apart
    <3>3. t = d
      BY <3>1, <3>2 DEF Below
    <3> QED
      BY <1>8, <1>14, <2>1, <3>3
  <2>4. Inside(cloud', d) \subseteq Inside(cloud, d)
    <3>1. \A e \in cloud : e.parent \in Inside(cloud, d) => e.id \in Inside(cloud, d)
      BY <1>0, InsideClosed DEF ClosedUnder
    <3>2. ClosedUnder(cloud', Inside(cloud, d))
      BY <1>12, <2>3, <3>1 DEF ClosedUnder
    <3>3. Inside(cloud, d) \in SUBSET Ids /\ d \in Inside(cloud, d)
      BY <2>1, InsideIds, InsideSelf
    <3> QED
      BY <3>2, <3>3, InsideLeast
  <2>5. Below(d, y)
    BY <1>10, <2>4 DEF Below
  <2> QED
    BY <2>2, <2>5
<1>22. RootAbove'
  <2> SUFFICES ASSUME NEW x \in Ids, Mentioned(x)' PROVE root \notin Inside(cloud', x)
    BY <1>7 DEF RootAbove
  <2>1. Mentioned(x)
    BY <1>10
  <2> DEFINE S == Inside(cloud, x) \cup Inside(cloud, i)
  <2>2. ClosedUnder(cloud', S)
    <3>1. \A e \in cloud : e.parent \in S => e.id \in S
      BY <1>0, InsideClosed DEF ClosedUnder
    <3>2. i \in S
      BY <1>2, InsideSelf
    <3> HIDE DEF S
    <3> QED
      BY <1>12, <3>1, <3>2 DEF ClosedUnder
  <2>3. S \in SUBSET Ids /\ x \in S /\ root \notin S
    BY <1>0, <1>4, <2>1, InsideIds, InsideSelf DEF RootAbove
  <2> HIDE DEF S
  <2> QED
    BY <2>2, <2>3, InsideLeast
<1>23. OpSound'
  <2>1. OpClean(op)' \/ \A r \in {fp, fq} : ~Clean(r)'
    <3>1. CASE ~Clean(fp)' /\ ~Clean(fq)'
      BY <3>1
    <3>2. CASE Clean(fp)' \/ Clean(fq)'
      <4>1. ask.sure /\ loose' = loose
        BY <1>8, <3>2
      <4>2. /\ Clean(fp)' /\ IsDir(fp)' /\ DirAt(fp)' \in loaded'
            /\ Clean(fq)' /\ IsDir(fq)' /\ DirAt(fq)' \in loaded'
        BY <1>4, <1>5, <1>7, <1>8, <4>1 DEF Clean
      <4> QED
        BY <1>6, <4>2 DEF OpClean
    <3> QED
      BY <3>1, <3>2
  <2>2. OpClean(op)' => q \notin DOMAIN path_map
    BY <1>4, <1>6, <1>8 DEF OpClean
  <2> QED
    BY <1>4, <1>6, <1>7, <2>1, <2>2 DEF OpSound
<1> QED
  BY <1>15, <1>16, <1>17, <1>18, <1>19, <1>20, <1>21, <1>22, <1>23, SettledParts

\* A request that fails leaves everything as it is.
LEMMA RequestFailsSettles ==
  ASSUME NEW D, Settled(D), RequestFails
  PROVE  Settled(D)'
  BY SameSettles DEF RequestFails

-----------------------------------------------------------------------------
(* Records are dropped and sizes change.                                     *)

\* unlink of a local-only name: the folder is loosened, its other records stay.
LEMMA ForgetSettles ==
  ASSUME NEW D \in SUBSET Ids, NsInv(D), Settled(D), root # None, op = None,
         NEW p \in DOMAIN path_map, Forget(p)
  PROVE  Settled(D)'
<1>0. /\ CloudOK /\ IndexOK /\ OpInv /\ Agree(D) /\ root \in DirIds
      /\ Nested /\ PathsNest /\ IdsOnce /\ KidsNamed
      /\ ListingsNew(D) /\ LoadedAgree /\ ListingsAgree /\ DoomedGone
      /\ NothingLoaded /\ BelowUnseen /\ RootAbove /\ OpSound
  BY PartsOf
<1>1. PICK i : i = path_map[p].id
  OBVIOUS
<1>2. PICK f : f = Front(p)
  OBVIOUS
<1>3. p \in Path /\ p # << >> /\ f \in Path
  BY <1>0, <1>2, FrontLast DEF IndexOK
<1>4. /\ RemoveEntry(p) /\ loose' = loose \cup {f} /\ root' = root /\ cloud' = cloud
      /\ lastId' = lastId /\ loaded' = loaded /\ listing' = listing /\ op' = op
  BY <1>2 DEF Forget, server, loading
<1>5. \A q \in Path : q \in DOMAIN path_map /\ q # p /\ IsPrefix(p, q) => ~Clean(Front(q))'
  <2> SUFFICES ASSUME NEW q \in Path, q # p, IsPrefix(p, q) PROVE ~Clean(Front(q))'
    OBVIOUS
  <2>1. q # << >>
    BY <1>3, PrefixMeans, FrontLast, EmptySeq, LenProperties DEF Path
  <2>2. IsPrefix(p, Front(q)) /\ Front(q) \in Path
    BY <1>3, <2>1, PrefixFront, FrontLast
  <2>3. IsPrefix(f, p)
    BY <1>2, <1>3, PrefixFront, PrefixSelf
  <2>4. IsPrefix(f, Front(q))
    BY <1>3, <2>2, <2>3, PrefixTrans
  <2> QED
    BY <1>4, <2>4 DEF Clean
<1>6. /\ Nested'
      /\ \A q, m : CleanEntry(q, m)' => CleanEntry(q, m)
      /\ \A q, d : CleanDir(q, d)' => CleanDir(q, d)
      /\ \A d \in DirIds : Kids(d)' \subseteq Kids(d)
                           /\ \A c \in Kids(d) : c.id # path_map[p].id => c \in Kids(d)'
  <2>1. loose \subseteq loose'
    BY <1>4
  <2> QED
    BY <1>0, <1>4, <1>5, <2>1, RemoveNests
<1>7. /\ DOMAIN path_map' = DOMAIN path_map \ {p}
      /\ \A q \in DOMAIN path_map' : path_map'[q] = path_map[q]
  BY <1>0, <1>4, RemoveEntryIs
<1>8. ASSUME NEW x \in Path, NEW d \in DirIds, CleanDir(x, d)' PROVE Kids(d)' = Kids(d)
  <2>1. x # f
    BY <1>3, <1>4, <1>8, PrefixSelf DEF CleanDir, Clean
  <2>2. \A c \in Kids(d) : c.id # i
    BY <1>0, <1>1, <1>2, <1>6, <1>8, <2>1, KidOnce
  <2> QED
    BY <1>1, <1>6, <2>2
<1>9. /\ \A y, e : InListing(y, e)' <=> InListing(y, e)
      /\ \A r : ~Doomed(r) /\ ~Doomed(r)'
      /\ \A r, y : ~Leaving(r, y) /\ ~Leaving(r, y)' /\ ~Coming(r, y) /\ ~Coming(r, y)'
      /\ \A e, y : Holds(e, y)' <=> Holds(e, y)
  BY <1>4 DEF InListing, Doomed, Leaving, Coming, Holds
<1>10. ASSUME NEW y \in Ids, Unseen(y) PROVE Unseen(y)'
  <2>1. Kids(y) = {} => Kids(y)' = {}
    BY <1>6 DEF DirIds
  <2> QED
    BY <1>4, <1>6, <1>7, <1>10, <2>1 DEF Unseen
<1>11. ListingsNew(D)'
  <2>1. \A d \in Ids : Kids(d)' # {} => Kids(d) # {}
    BY <1>6 DEF DirIds
  <2> QED
    BY <1>0, <1>4, <1>6, <1>9, <2>1 DEF ListingsNew
<1>12. LoadedAgree'
  <2> SUFFICES ASSUME NEW x \in Path, NEW d \in DirIds, CleanDir(x, d)', d \in loaded, NEW y \in Entry
               PROVE  /\ WillHold(x, d, y)' => Holds(d, y)
                      /\ Holds(d, y) /\ y.name \notin Hidden => WillHold(x, d, y)'
    BY <1>4, <1>9 DEF LoadedAgree
  <2>1. WillHold(x, d, y)' <=> WillHold(x, d, y)
    BY <1>8, <1>9 DEF WillHold, Alike
  <2> QED
    BY <1>0, <1>6, <1>9, <2>1 DEF LoadedAgree
<1>13. ListingsAgree'
  BY <1>0, <1>4, <1>6, <1>9 DEF ListingsAgree
<1>14. DoomedGone'
  BY <1>9 DEF DoomedGone
<1>15. NothingLoaded'
  BY <1>0, <1>4 DEF NothingLoaded, Clean
<1>16. BelowUnseen'
  <2> SUFFICES ASSUME NEW x \in Path, NEW d \in DirIds, x # << >>, CleanDir(x, d)', d \notin loaded,
                      NEW y \in Ids, Below(d, y)
               PROVE  Unseen(y)' /\ \A e \in DirIds \ {d} : ~InListing(y, e)
    BY <1>4, <1>9 DEF BelowUnseen, Below
  <2> QED
    BY <1>0, <1>6, <1>10 DEF BelowUnseen
<1>17. RootAbove'
  <2> SUFFICES ASSUME NEW x \in Ids, Mentioned(x)' PROVE root \notin Inside(cloud, x)
    BY <1>4 DEF RootAbove
  <2>1. Mentioned(x)
    BY <1>4, <1>6, <1>7, <1>9 DEF Mentioned
  <2> QED
    BY <1>0, <2>1 DEF RootAbove
<1>18. OpSound'
  BY <1>4 DEF OpSound
<1> QED
  BY <1>6, <1>11, <1>12, <1>13, <1>14, <1>15, <1>16, <1>17, <1>18, SettledParts

\* flush: only a size changes.
LEMMA FlushSettles ==
  ASSUME NEW D \in SUBSET Ids, NsInv(D), Settled(D), root # None,
         NEW p \in DOMAIN path_map, Flush(p)
  PROVE  Settled(D)'
<1>0. /\ CloudOK /\ IndexOK /\ OpInv /\ Agree(D) /\ root \in DirIds
      /\ Nested /\ PathsNest /\ IdsOnce /\ KidsNamed
      /\ ListingsNew(D) /\ LoadedAgree /\ ListingsAgree /\ DoomedGone
      /\ NothingLoaded /\ BelowUnseen /\ RootAbove /\ OpSound
  BY PartsOf
<1>1. /\ UpdateMeta(p) /\ loose' = loose /\ root' = root /\ cloud' = cloud
      /\ lastId' = lastId /\ loaded' = loaded /\ listing' = listing /\ op' = op
  BY DEF Flush, server, loading
<1>2. /\ Nested'
      /\ \A r \in Path, x \in Entry : CleanEntry(r, x)' =>
           \E y \in Entry : CleanEntry(r, y) /\ Alike(y, x) /\ y.parent = x.parent
      /\ \A r \in Path, d \in DirIds : CleanDir(r, d)' =>
           /\ CleanDir(r, d)
           /\ \A c \in Kids(d)' : \E e \in Kids(d) : Alike(e, c)
           /\ \A e \in Kids(d) : \E c \in Kids(d)' : Alike(c, e)
      /\ \A d \in DirIds : /\ \A c \in Kids(d)' : \E e \in Kids(d) : e.id = c.id
                           /\ Kids(d) = {} => Kids(d)' = {}
  BY <1>0, <1>1, UpdateNests
<1>3. /\ DOMAIN path_map' = DOMAIN path_map
      /\ \A q \in DOMAIN path_map : path_map'[q].id = path_map[q].id /\ path_map'[q].dir = path_map[q].dir
  BY <1>0, <1>1, UpdateMetaIs
<1>4. /\ \A r : IsDir(r)' <=> IsDir(r)
      /\ \A r : IsDir(r) => DirAt(r)' = DirAt(r)
      /\ \A r : Clean(r)' <=> Clean(r)
  BY <1>1, <1>3 DEF IsDir, DirAt, Clean
<1>5. /\ \A y, e : InListing(y, e)' <=> InListing(y, e)
      /\ \A r : Doomed(r)' <=> Doomed(r)
      /\ \A e, y : Holds(e, y)' <=> Holds(e, y)
  BY <1>1 DEF InListing, Doomed, Holds
<1>6. op # None /\ op.kind # "add" => op.path \in DOMAIN path_map
  BY <1>0 DEF OpInv
<1>7. /\ \A r, y : Leaving(r, y)' <=> Leaving(r, y)
      /\ \A r, y : Coming(r, y)' <=> Coming(r, y)
  <2>1. \A r, y : Leaving(r, y)' <=> Leaving(r, y)
    BY <1>1, <1>3, <1>6 DEF Leaving
  <2>2. \A r, y : Coming(r, y)' <=> Coming(r, y)
    BY <1>1, <1>3, <1>6 DEF Coming
  <2> QED
    BY <2>1, <2>2
<1>8. ASSUME NEW y \in Ids, Unseen(y) PROVE Unseen(y)'
  <2>1. y \in DirIds /\ Kids(y)' = {}
    BY <1>2, <1>8 DEF Unseen, DirIds
  <2>2. \A e \in DirIds : \A c \in Kids(e)' : c.id # y
    BY <1>2, <1>8 DEF Unseen
  <2>3. \A q \in DOMAIN path_map' : path_map'[q].id # y
    BY <1>3, <1>8 DEF Unseen
  <2> QED
    BY <1>1, <1>8, <2>1, <2>2, <2>3 DEF Unseen
<1>9. ListingsNew(D)'
  <2>1. \A d \in Ids : Kids(d)' # {} => Kids(d) # {}
    BY <1>2 DEF DirIds
  <2>2. ASSUME NEW q \in Path, NEW m \in Entry, CleanEntry(q, m)', NEW e \in DirIds
        PROVE  ~InListing(m.id, e)
    <3>1. PICK y \in Entry : CleanEntry(q, y) /\ Alike(y, m)
      BY <1>2, <2>2
    <3>2. ~InListing(y.id, e) /\ y.id = m.id
      BY <1>0, <3>1 DEF ListingsNew, Alike
    <3> QED
      BY <3>2
  <2> QED
    BY <1>0, <1>1, <1>5, <2>1, <2>2 DEF ListingsNew
<1>10. LoadedAgree'
  <2> SUFFICES ASSUME NEW x \in Path, NEW d \in DirIds, CleanDir(x, d)', d \in loaded, ~Doomed(x),
                      NEW y \in Entry
               PROVE  /\ WillHold(x, d, y)' => Holds(d, y)
                      /\ Holds(d, y) /\ y.name \notin Hidden => WillHold(x, d, y)'
    BY <1>1, <1>5 DEF LoadedAgree
  <2>1. /\ CleanDir(x, d)
        /\ \A c \in Kids(d)' : \E e \in Kids(d) : Alike(e, c)
        /\ \A e \in Kids(d) : \E c \in Kids(d)' : Alike(c, e)
    BY <1>2
  <2>2. (\E c \in Kids(d)' : Alike(c, y)) <=> (\E c \in Kids(d) : Alike(c, y))
    BY <2>1 DEF Alike
  <2>3. WillHold(x, d, y)' <=> WillHold(x, d, y)
    <3>1. WillHold(x, d, y)' <=> (~Leaving(x, y.id) /\ \E c \in Kids(d)' : Alike(c, y)) \/ Coming(x, y)
      BY <1>7 DEF WillHold, Alike
    <3> QED
      BY <2>2, <3>1 DEF WillHold
  <2> QED
    BY <1>0, <2>1, <2>3 DEF LoadedAgree
<1>11. ListingsAgree'
  BY <1>0, <1>1, <1>2, <1>5 DEF ListingsAgree
<1>12. DoomedGone'
  <2> SUFFICES ASSUME NEW x \in Path, NEW d \in DirIds, CleanDir(x, d)', Doomed(x), NEW e \in cloud
               PROVE  e.id # d /\ ~InListing(e.id, d) /\ \A c \in Kids(d)' : c.id # e.id
    BY <1>1, <1>5 DEF DoomedGone
  <2>1. CleanDir(x, d)
    BY <1>2
  <2> QED
    BY <1>0, <1>2, <2>1 DEF DoomedGone
<1>13. NothingLoaded'
  BY <1>0, <1>1 DEF NothingLoaded, Clean
<1>14. BelowUnseen'
  <2> SUFFICES ASSUME NEW x \in Path, NEW d \in DirIds, x # << >>, CleanDir(x, d)', d \notin loaded,
                      NEW y \in Ids, Below(d, y)
               PROVE  /\ Unseen(y)' /\ \A e \in DirIds \ {d} : ~InListing(y, e)
                      /\ op # None /\ op.kind = "add" => y # op.meta.id /\ y # op.meta.parent
    BY <1>1, <1>5 DEF BelowUnseen, Below
  <2> QED
    BY <1>0, <1>2, <1>8 DEF BelowUnseen
<1>15. RootAbove'
  <2> SUFFICES ASSUME NEW x \in Ids, Mentioned(x)' PROVE root \notin Inside(cloud, x)
    BY <1>1 DEF RootAbove
  <2>1. Mentioned(x)
    BY <1>1, <1>2, <1>3, <1>5 DEF Mentioned
  <2> QED
    BY <1>0, <2>1 DEF RootAbove
<1>16. OpClean(op)' <=> OpClean(op)
  <2>1. \A r : (IsDir(r) /\ Clean(r) /\ DirAt(r) \in loaded)'
                 <=> (IsDir(r) /\ Clean(r) /\ DirAt(r) \in loaded)
    BY <1>1, <1>4
  <2> QED
    BY <1>1, <2>1 DEF OpClean
<1>17. OpSound'
  <2> SUFFICES ASSUME op # None PROVE OpSound'
    BY <1>1 DEF OpSound
  <2>1. /\ op.dirs = {Front(op.path)} \cup (IF op.kind = "move" THEN {Front(op.to)} ELSE {})
        /\ OpClean(op)' \/ \A r \in op.dirs : ~Clean(r)'
    BY <1>0, <1>4, <1>16 DEF OpSound
  <2>2. ASSUME op.kind = "add" PROVE
         /\ op.meta.parent \in Ids => op.meta.parent <= lastId
         /\ \A r \in Path : CleanDir(r, op.meta.parent)' => r = Front(op.path)
         /\ \A q \in Path, m \in Entry : CleanEntry(q, m)' => m.id # op.meta.id
    <3>1. PICK k \in DirIds : k = op.meta.parent
      BY <1>0, <2>2 DEF OpInv, Entry
    <3>2. \A r \in Path : CleanDir(r, k)' => r = Front(op.path)
      BY <1>0, <1>2, <2>2, <3>1 DEF OpSound
    <3>3. \A r \in Path : CleanDir(r, op.meta.parent)' <=> CleanDir(r, k)'
      BY <1>1, <3>1 DEF CleanDir
    <3>4. \A q \in Path, m \in Entry : CleanEntry(q, m)' => m.id # op.meta.id
      BY <1>0, <1>2, <2>2 DEF OpSound, Alike
    <3> QED
      BY <1>0, <2>2, <3>2, <3>3, <3>4 DEF OpSound
  <2>3. ASSUME op.kind = "add", OpClean(op) PROVE
              /\ op.path \notin DOMAIN path_map'
              /\ op.meta.parent = DirAt(Front(op.path))' /\ op.meta.name = Last(op.path)
              /\ Unseen(op.meta.id)' /\ \A e \in DirIds : ~InListing(op.meta.id, e)'
              /\ \A e \in cloud : e.parent # op.meta.id
    <3> PICK f : f = Front(op.path)
      OBVIOUS
    <3> PICK k : k = op.meta.id
      OBVIOUS
    <3>1. /\ op.path \notin DOMAIN path_map
          /\ op.meta.parent = DirAt(f) /\ op.meta.name = Last(op.path)
          /\ Unseen(k) /\ \A e \in DirIds : ~InListing(k, e)
          /\ \A e \in cloud : e.parent # k
      BY <1>0, <2>3 DEF OpSound
    <3>2. k \in Ids /\ IsDir(f)
      BY <1>0, <2>1, <2>3 DEF OpInv, Entry, OpClean
    <3>3. DirAt(f)' = DirAt(f) /\ Unseen(k)' /\ \A e \in DirIds : ~InListing(k, e)'
      BY <1>4, <1>5, <1>8, <3>1, <3>2
    <3>4. op'.path = op.path /\ op'.meta = op.meta
      BY <1>1
    <3>5. DirAt(Front(op.path))' = DirAt(f)'
      BY <3>4
    <3> QED
      BY <1>3, <3>1, <3>3, <3>4, <3>5
  <2>4. op.kind = "remove" /\ OpClean(op) => \A e \in cloud : e.id # path_map'[op.path].id
    BY <1>0, <1>3, <1>6 DEF OpSound
  <2>5. op.kind = "move" => /\ ~IsPrefix(op.path, op.to)
                            /\ OpClean(op) => op.to \notin DOMAIN path_map'
    BY <1>0, <1>3 DEF OpSound
  <2> QED
    BY <1>1, <1>16, <2>1, <2>2, <2>3, <2>4, <2>5 DEF OpSound
<1> QED
  BY <1>2, <1>9, <1>10, <1>11, <1>12, <1>13, <1>14, <1>15, <1>17, SettledParts

-----------------------------------------------------------------------------
(* Answers arrive.                                                           *)

\* What was coming is in the index.
LEMMA AddAnswerSettles ==
  ASSUME NEW D \in SUBSET Ids, NsInv(D), Settled(D), root # None, Finish, op.kind = "add"
  PROVE  Settled(D)'
<1>0. /\ CloudOK /\ IndexOK /\ OpInv /\ Agree(D) /\ root \in DirIds
      /\ Nested /\ PathsNest /\ IdsOnce /\ KidsNamed
      /\ ListingsNew(D) /\ LoadedAgree /\ ListingsAgree /\ DoomedGone
      /\ NothingLoaded /\ BelowUnseen /\ RootAbove /\ OpSound
      /\ \A e \in cloud : e.id \in Ids
  BY PartsOf
<1>1. PICK m : m = op.meta
  OBVIOUS
<1>2. PICK q : q = op.path
  OBVIOUS
<1>3. PICK f : f = Front(q)
  OBVIOUS
<1>4. /\ AddEntry(q, m) /\ loose' = loose /\ root' = root /\ cloud' = cloud /\ op # None /\ op' = None
      /\ lastId' = lastId /\ loaded' = loaded /\ listing' = listing
  BY <1>1, <1>2 DEF Finish, server, loading
<1>5. /\ q \in Path /\ q # << >> /\ f \in Path /\ m \in Entry /\ m.id \in Ids /\ m.parent \in DirIds
  BY <1>0, <1>1, <1>2, <1>3, <1>4, FrontLast DEF OpInv, Entry
<1>6. /\ \A p \in Path : CleanDir(p, m.parent) => p = f
      /\ \A r \in Path, n \in Entry : CleanEntry(r, n) => n.id # m.id
      /\ m.parent \in Ids => m.parent <= lastId
  BY <1>0, <1>1, <1>2, <1>3, <1>4 DEF OpSound
<1>7. Clean(f) => /\ q \notin DOMAIN path_map /\ m.parent = DirAt(f) /\ m.name = Last(q)
                  /\ IsDir(f) /\ m.parent \in loaded /\ Unseen(m.id)
                  /\ \A e \in DirIds : ~InListing(m.id, e)
                  /\ \A e \in cloud : e.parent # m.id
  <2> SUFFICES ASSUME Clean(f)
               PROVE  /\ q \notin DOMAIN path_map /\ m.parent = DirAt(f) /\ m.name = Last(q)
                      /\ IsDir(f) /\ m.parent \in loaded /\ Unseen(m.id)
                      /\ \A e \in DirIds : ~InListing(m.id, e)
                      /\ \A e \in cloud : e.parent # m.id
    OBVIOUS
  <2>1. f \in op.dirs /\ OpClean(op)
    BY <1>0, <1>2, <1>3, <1>4, OpIsClean DEF OpSound
  <2>2. op.meta.id = m.id /\ op.meta.parent = m.parent /\ op.meta.name = m.name
    BY <1>1
  <2>3. /\ q \notin DOMAIN path_map /\ m.parent = DirAt(f) /\ m.name = Last(q)
        /\ \A e \in DirIds : ~InListing(op.meta.id, e)
        /\ \A e \in cloud : e.parent # op.meta.id
        /\ Unseen(op.meta.id)
    BY <1>0, <1>2, <1>3, <1>4, <2>1, <2>2 DEF OpSound
  <2>4. Unseen(m.id)
    BY <2>2, <2>3
  <2> QED
    BY <2>1, <2>2, <2>3, <2>4 DEF OpClean
<1>8. /\ Nested'
      /\ \A r \in Path : \A n : CleanEntry(r, n)' =>
           \/ CleanEntry(r, n) /\ r # q
           \/ r = q /\ n = m /\ Clean(f)
      /\ \A p \in Path : \A d : CleanDir(p, d)' =>
           \/ CleanDir(p, d) /\ p # q
           \/ p = q /\ d = m.id /\ m.dir /\ Clean(f)
      /\ \A d \in DirIds \ {m.parent} : Kids(d)' = Kids(d)
      /\ Kids(m.parent)' = Kids(m.parent) \cup {m}
  BY <1>0, <1>3, <1>4, <1>5, <1>6, <1>7, AddNests
<1>9. /\ DOMAIN path_map' = DOMAIN path_map \cup {q} /\ path_map'[q] = m
      /\ \A r \in DOMAIN path_map : r # q => path_map'[r] = path_map[r]
  BY <1>0, <1>4, <1>5, AddEntryIs
<1>10. /\ \A y, e : InListing(y, e)' <=> InListing(y, e)
       /\ \A r : ~Doomed(r) /\ ~Doomed(r)'
       /\ \A r, y : ~Leaving(r, y) /\ ~Leaving(r, y)' /\ ~Coming(r, y)'
       /\ \A r, y : Coming(r, y) <=> f = r /\ Alike(m, y)
       /\ \A e, y : Holds(e, y)' <=> Holds(e, y)
  BY <1>1, <1>2, <1>3, <1>4 DEF InListing, Doomed, Leaving, Coming, Holds, Alike
<1>11. ListingsNew(D)'
  <2>1. ASSUME NEW d \in Ids, Kids(d)' # {} PROVE d <= lastId
    <3>1. CASE d = m.parent
      BY <1>6, <3>1
    <3>2. CASE d # m.parent
      BY <1>0, <1>8, <2>1, <3>2 DEF ListingsNew, DirIds
    <3> QED
      BY <3>1, <3>2
  <2>2. \A r \in Path, n \in Entry : CleanEntry(r, n)' => \A e \in DirIds : ~InListing(n.id, e)
    BY <1>0, <1>7, <1>8 DEF ListingsNew
  <2> QED
    BY <1>0, <1>4, <1>10, <2>1, <2>2 DEF ListingsNew
<1>12. LoadedAgree'
  <2> SUFFICES ASSUME NEW x \in Path, NEW d \in DirIds, CleanDir(x, d)', d \in loaded, NEW y \in Entry
               PROVE  /\ WillHold(x, d, y)' => Holds(d, y)
                      /\ Holds(d, y) /\ y.name \notin Hidden => WillHold(x, d, y)'
    BY <1>4, <1>10 DEF LoadedAgree
  <2>1. CleanDir(x, d)
    BY <1>7, <1>8 DEF Unseen
  <2>2. WillHold(x, d, y)' <=> \E c \in Kids(d)' : Alike(c, y)
    BY <1>10 DEF WillHold, Alike
  <2>3. WillHold(x, d, y) <=> (\E c \in Kids(d) : Alike(c, y)) \/ (f = x /\ Alike(m, y))
    BY <1>10 DEF WillHold
  <2>4. f = x <=> d = m.parent
    BY <1>6, <1>7, <2>1 DEF CleanDir
  <2>5. WillHold(x, d, y)' <=> WillHold(x, d, y)
    BY <1>8, <2>2, <2>3, <2>4
  <2> QED
    BY <1>0, <1>10, <2>1, <2>5 DEF LoadedAgree
<1>13. ListingsAgree'
  <2> SUFFICES ASSUME NEW x \in Path, NEW d \in DirIds, CleanDir(x, d)', d \notin loaded,
                      listing[d] # None
               PROVE  listing[d] = Contents(cloud, d)
    BY <1>4 DEF ListingsAgree
  <2>1. CleanDir(x, d)
    BY <1>7, <1>8 DEF Unseen
  <2> QED
    BY <1>0, <1>10, <2>1 DEF ListingsAgree
<1>14. DoomedGone'
  BY <1>10 DEF DoomedGone
<1>15. NothingLoaded'
  BY <1>0, <1>4 DEF NothingLoaded, Clean
<1>16. BelowUnseen'
  <2> SUFFICES ASSUME NEW x \in Path, NEW d \in DirIds, x # << >>, CleanDir(x, d)', d \notin loaded,
                      NEW y \in Ids, Below(d, y)
               PROVE  Unseen(y)' /\ \A e \in DirIds \ {d} : ~InListing(y, e)
    BY <1>4, <1>10 DEF BelowUnseen, Below
  <2>1. CASE CleanDir(x, d)
    <3>1. /\ Unseen(y) /\ \A e \in DirIds \ {d} : ~InListing(y, e)
          /\ y # m.id /\ y # m.parent
      BY <1>0, <1>1, <1>4, <2>1 DEF BelowUnseen
    <3>2. y \in DirIds /\ Kids(y)' = {}
      BY <1>8, <3>1 DEF Unseen, DirIds
    <3>3. \A e \in DirIds : \A c \in Kids(e)' : c.id # y
      BY <1>8, <3>1 DEF Unseen
    <3>4. \A r \in DOMAIN path_map' : path_map'[r].id # y
      BY <1>9, <3>1 DEF Unseen
    <3> QED
      BY <1>4, <3>1, <3>2, <3>3, <3>4 DEF Unseen
  <2>2. CASE x = q /\ d = m.id /\ Clean(f)
    <3>1. Inside(cloud, d) \subseteq {d}
      <4>1. ClosedUnder(cloud, {d})
        BY <1>7, <2>2 DEF ClosedUnder
      <4>2. d \in {d} /\ {d} \in SUBSET Ids
        BY <1>5, <2>2
      <4> QED
        BY <4>1, <4>2, InsideLeast
    <3>2. ~InListing(y, d)
      BY <1>7, <2>2 DEF Unseen, InListing
    <3> QED
      BY <3>1, <3>2 DEF Below
  <2> QED
    BY <1>8, <2>1, <2>2
<1>17. RootAbove'
  <2> SUFFICES ASSUME NEW x \in Ids, Mentioned(x)' PROVE root \notin Inside(cloud, x)
    BY <1>4 DEF RootAbove
  <2>1. CASE x = m.id
    BY <1>0, <1>1, <1>4, <2>1 DEF RootAbove, Mentioned
  <2>2. CASE x # m.id
    <3>1. (\E d \in DirIds : \E c \in Kids(d)' : c.id = x) => \E d \in DirIds : \E c \in Kids(d) : c.id = x
      BY <1>8, <2>2
    <3>2. (\E r \in DOMAIN path_map' : path_map'[r].id = x) => \E r \in DOMAIN path_map : path_map[r].id = x
      BY <1>9, <2>2
    <3>3. Mentioned(x)
      BY <1>4, <1>10, <3>1, <3>2 DEF Mentioned
    <3> QED
      BY <1>0, <3>3 DEF RootAbove
  <2> QED
    BY <2>1, <2>2
<1>18. OpSound'
  BY <1>4 DEF OpSound
<1> QED
  BY <1>8, <1>11, <1>12, <1>13, <1>14, <1>15, <1>16, <1>17, <1>18, SettledParts

\* What was leaving is out of the index, and what is left below it is loosened.
LEMMA RemoveAnswerSettles ==
  ASSUME NEW D \in SUBSET Ids, NsInv(D), Settled(D), root # None, Finish, op.kind = "remove"
  PROVE  Settled(D)'
<1>0. /\ CloudOK /\ IndexOK /\ OpInv /\ Agree(D) /\ root \in DirIds
      /\ Nested /\ PathsNest /\ IdsOnce /\ KidsNamed
      /\ ListingsNew(D) /\ LoadedAgree /\ ListingsAgree /\ DoomedGone
      /\ NothingLoaded /\ BelowUnseen /\ RootAbove /\ OpSound
  BY PartsOf
<1>1. PICK p : p = op.path
  OBVIOUS
<1>2. PICK f : f = Front(p)
  OBVIOUS
<1>3. PICK m : m = path_map[p]
  OBVIOUS
<1>4. /\ RemoveEntry(p) /\ root' = root /\ cloud' = cloud /\ op # None /\ op' = None
      /\ lastId' = lastId /\ loaded' = loaded /\ listing' = listing
      /\ loose' = IF LeftBehind(p) # {} THEN loose \cup {p} ELSE loose
  BY <1>1 DEF Finish, server, loading, Ends
<1>5. /\ p \in Path /\ p # << >> /\ f \in Path /\ m \in Entry /\ p \in DOMAIN path_map
      /\ m.id \in Ids /\ m.parent \in DirIds
  BY <1>0, <1>1, <1>2, <1>3, <1>4, FrontLast DEF OpInv, IndexOK, Entry
<1>6. loose \subseteq loose'
  BY <1>4
<1>7. ASSUME NEW q \in Path, q \in DOMAIN path_map, q # p, IsPrefix(p, q)
      PROVE  p \in loose'
  BY <1>4, <1>7 DEF LeftBehind, IsStrictPrefix
<1>8. \A q \in Path : q \in DOMAIN path_map /\ q # p /\ IsPrefix(p, q) => ~Clean(Front(q))'
  <2> SUFFICES ASSUME NEW q \in Path, q \in DOMAIN path_map, q # p, IsPrefix(p, q)
               PROVE  ~Clean(Front(q))'
    OBVIOUS
  <2>1. q # << >>
    BY <1>0 DEF IndexOK
  <2>2. IsPrefix(p, Front(q)) /\ Front(q) \in Path
    BY <1>5, <2>1, PrefixFront, FrontLast
  <2>3. p \in loose'
    BY <1>7
  <2> QED
    BY <2>2, <2>3 DEF Clean
<1>9. /\ Nested'
      /\ \A q, n : CleanEntry(q, n)' => CleanEntry(q, n)
      /\ \A q, d : CleanDir(q, d)' => CleanDir(q, d) /\ q # p
      /\ \A d \in DirIds : Kids(d)' \subseteq Kids(d)
                           /\ \A c \in Kids(d) : c.id # m.id => c \in Kids(d)'
      /\ \A d \in DirIds : d = m.parent => \A c \in Kids(d)' : c.id # m.id
  BY <1>0, <1>3, <1>4, <1>5, <1>6, <1>8, RemoveNests
<1>10. /\ DOMAIN path_map' = DOMAIN path_map \ {p}
       /\ \A q \in DOMAIN path_map' : path_map'[q] = path_map[q]
  BY <1>0, <1>4, <1>5, RemoveEntryIs
<1>11. /\ \A y, e : InListing(y, e)' <=> InListing(y, e)
       /\ \A r : ~Doomed(r)'
       /\ \A r : Doomed(r) <=> IsPrefix(p, r)
       /\ \A r, y : ~Leaving(r, y)' /\ ~Coming(r, y) /\ ~Coming(r, y)'
       /\ \A r, y : Leaving(r, y) <=> f = r /\ m.id = y
       /\ \A e, y : Holds(e, y)' <=> Holds(e, y)
  BY <1>1, <1>2, <1>3, <1>4 DEF InListing, Doomed, Leaving, Coming, Holds
<1>12. ASSUME NEW x \in Path, NEW d \in DirIds, CleanDir(x, d)' PROVE ~Doomed(x)
  <2> SUFFICES ASSUME IsPrefix(p, x) PROVE FALSE
    BY <1>11
  <2>1. x # << >>
    BY <1>5, PrefixMeans, FrontLast, EmptySeq, LenProperties DEF Path
  <2>2. CleanDir(x, d) /\ x # p
    BY <1>9, <1>12
  <2>3. x \in DOMAIN path_map
    BY <1>0, <2>1, <2>2, DirEntry
  <2>4. p \in loose'
    BY <1>7, <2>2, <2>3
  <2> QED
    BY <1>12, <2>4 DEF CleanDir, Clean
<1>13. ASSUME NEW y \in Ids, Unseen(y) PROVE Unseen(y)'
  <2>1. Kids(y) = {} => Kids(y)' = {}
    BY <1>9 DEF DirIds
  <2> QED
    BY <1>4, <1>9, <1>10, <1>13, <2>1 DEF Unseen
<1>14. ListingsNew(D)'
  <2>1. \A d \in Ids : Kids(d)' # {} => Kids(d) # {}
    BY <1>9 DEF DirIds
  <2> QED
    BY <1>0, <1>4, <1>9, <1>11, <2>1 DEF ListingsNew
<1>15. LoadedAgree'
  <2> SUFFICES ASSUME NEW x \in Path, NEW d \in DirIds, CleanDir(x, d)', d \in loaded, NEW y \in Entry
               PROVE  /\ WillHold(x, d, y)' => Holds(d, y)
                      /\ Holds(d, y) /\ y.name \notin Hidden => WillHold(x, d, y)'
    BY <1>4, <1>11 DEF LoadedAgree
  <2>1. CleanDir(x, d) /\ ~Doomed(x)
    BY <1>9, <1>12
  <2>2. WillHold(x, d, y)' <=> \E c \in Kids(d)' : Alike(c, y)
    BY <1>11 DEF WillHold, Alike
  <2>3. WillHold(x, d, y) <=> ~(f = x /\ m.id = y.id) /\ \E c \in Kids(d) : Alike(c, y)
    BY <1>11 DEF WillHold
  <2>4. CASE f = x
    <3>1. CleanEntry(p, m)
      BY <1>2, <1>3, <1>5, <2>1, <2>4 DEF CleanEntry, CleanDir
    <3>2. d = m.parent
      BY <1>0, <1>2, <1>5, <2>1, <2>4, <3>1, EntryNests DEF CleanDir
    <3>3. \A c \in Kids(d)' : c.id # m.id
      BY <1>9, <3>2
    <3>4. WillHold(x, d, y)' <=> WillHold(x, d, y)
      BY <1>9, <2>2, <2>3, <2>4, <3>3 DEF Alike
    <3> QED
      BY <1>0, <1>11, <2>1, <3>4 DEF LoadedAgree
  <2>5. CASE f # x
    <3>1. \A c \in Kids(d) : c.id # m.id
      BY <1>0, <1>2, <1>3, <1>5, <2>1, <2>5, KidOnce
    <3>2. WillHold(x, d, y)' <=> WillHold(x, d, y)
      BY <1>9, <2>2, <2>3, <2>5, <3>1
    <3> QED
      BY <1>0, <1>11, <2>1, <3>2 DEF LoadedAgree
  <2> QED
    BY <2>4, <2>5
<1>16. ListingsAgree'
  BY <1>0, <1>4, <1>9, <1>11, <1>12 DEF ListingsAgree
<1>17. DoomedGone'
  BY <1>11 DEF DoomedGone
<1>18. NothingLoaded'
  BY <1>0, <1>4, <1>6 DEF NothingLoaded, Clean
<1>19. BelowUnseen'
  <2> SUFFICES ASSUME NEW x \in Path, NEW d \in DirIds, x # << >>, CleanDir(x, d)', d \notin loaded,
                      NEW y \in Ids, Below(d, y)
               PROVE  Unseen(y)' /\ \A e \in DirIds \ {d} : ~InListing(y, e)
    BY <1>4, <1>11 DEF BelowUnseen, Below
  <2> QED
    BY <1>0, <1>9, <1>13 DEF BelowUnseen
<1>20. RootAbove'
  <2> SUFFICES ASSUME NEW x \in Ids, Mentioned(x)' PROVE root \notin Inside(cloud, x)
    BY <1>4 DEF RootAbove
  <2>1. Mentioned(x)
    BY <1>4, <1>9, <1>10, <1>11 DEF Mentioned
  <2> QED
    BY <1>0, <2>1 DEF RootAbove
<1>21. OpSound'
  BY <1>4 DEF OpSound
<1> QED
  BY <1>9, <1>14, <1>15, <1>16, <1>17, <1>18, <1>19, <1>20, <1>21, SettledParts

\* The entry is at its new path, and what is left below the old one is loosened.
LEMMA MoveAnswerSettles ==
  ASSUME NEW D \in SUBSET Ids, NsInv(D), Settled(D), root # None, Finish, op.kind = "move"
  PROVE  Settled(D)'
<1>0. /\ CloudOK /\ IndexOK /\ OpInv /\ Agree(D) /\ root \in DirIds
      /\ Nested /\ PathsNest /\ IdsOnce /\ KidsNamed
      /\ ListingsNew(D) /\ LoadedAgree /\ ListingsAgree /\ DoomedGone
      /\ NothingLoaded /\ BelowUnseen /\ RootAbove /\ OpSound
  BY PartsOf
<1>1. PICK p : p = op.path
  OBVIOUS
<1>2. PICK q : q = op.to
  OBVIOUS
<1>3. PICK f : f = Front(p)
  OBVIOUS
<1>4. PICK g : g = Front(q)
  OBVIOUS
<1>5. PICK m : m = path_map[p]
  OBVIOUS
<1>6. PICK n : n = Moved(p, q)
  OBVIOUS
<1>7. /\ MoveEntry(p, q) /\ root' = root /\ cloud' = cloud /\ op # None /\ op' = None
      /\ lastId' = lastId /\ loaded' = loaded /\ listing' = listing
      /\ loose' = IF LeftBehind(p) # {} THEN loose \cup {p, q} ELSE loose
  BY <1>1, <1>2 DEF Finish, server, loading, Ends
<1>8. /\ p \in Path /\ p # << >> /\ f \in Path /\ m \in Entry /\ p \in DOMAIN path_map
      /\ q \in Path /\ q # << >> /\ g \in Path /\ g \in {<< >>} \cup DOMAIN path_map
      /\ DirAt(g) \in DirIds /\ m.id \in Ids /\ m.parent \in DirIds
  <2>1. Down
    BY DEF NsInv
  <2>2. DirAt(g) \in DirIds
    BY <1>0, <1>2, <1>4, <1>7, <2>1, MoveTarget
  <2>3. p \in DOMAIN path_map /\ q \in Path /\ q # << >> /\ g \in {<< >>} \cup DOMAIN path_map
    BY <1>0, <1>1, <1>2, <1>4, <1>7 DEF OpInv
  <2>4. p \in Path /\ p # << >> /\ m \in Entry
    BY <1>0, <1>5, <2>3 DEF IndexOK
  <2> QED
    BY <1>3, <1>4, <2>2, <2>3, <2>4, FrontLast DEF Entry
<1>9. loose \subseteq loose'
  BY <1>7
<1>10. /\ ~IsPrefix(p, q) /\ (LeftBehind(p) # {} => p \in loose' /\ q \in loose')
       /\ (Clean(f) <=> Clean(g))
       /\ Clean(g) => q \notin DOMAIN path_map /\ IsDir(g) /\ DirAt(g) \in loaded
  <2>1. op.dirs = {f, g} /\ ~IsPrefix(p, q)
    BY <1>0, <1>1, <1>2, <1>3, <1>4, <1>7 DEF OpSound
  <2>2. Clean(f) \/ Clean(g) => OpClean(op)
    BY <1>0, <1>7, <2>1, OpIsClean
  <2>3. OpClean(op) => /\ Clean(f) /\ Clean(g) /\ q \notin DOMAIN path_map
                       /\ IsDir(g) /\ DirAt(g) \in loaded
    BY <1>0, <1>2, <1>7, <2>1 DEF OpSound, OpClean
  <2> QED
    BY <1>7, <2>1, <2>2, <2>3
<1>11. /\ Nested'
       /\ m \in Entry /\ n \in Entry /\ n.id = m.id /\ n.dir = m.dir
       /\ n.name = Last(q) /\ n.parent = DirAt(Front(q))
       /\ \A r \in Path, x \in Entry : CleanEntry(r, x)' =>
            \/ CleanEntry(r, x) /\ r # p /\ r # q /\ x.id # m.id
            \/ r = q /\ x = n /\ Clean(Front(q))
       /\ \A r \in Path, d \in DirIds : CleanDir(r, d)' =>
            \/ CleanDir(r, d) /\ r # p /\ r # q
            \/ /\ r = q /\ d = m.id /\ m.dir /\ Clean(Front(q))
               /\ CleanDir(p, d) /\ Kids(d) = {} /\ Kids(d)' = {}
       /\ \A d \in DirIds : Kids(d)' = {c \in Kids(d) : d = m.parent => c.id # m.id}
                                         \cup (IF d = n.parent THEN {n} ELSE {})
  <2>1. /\ q \in Path /\ q # << >> /\ p \in DOMAIN path_map /\ Front(q) \in {<< >>} \cup DOMAIN path_map
        /\ DirAt(Front(q)) \in DirIds /\ ~IsPrefix(p, q)
        /\ (LeftBehind(p) # {} => p \in loose' /\ q \in loose')
        /\ (Clean(Front(p)) <=> Clean(Front(q)))
        /\ (Clean(Front(q)) =>
             q \notin DOMAIN path_map /\ IsDir(Front(q)) /\ DirAt(Front(q)) \in loaded)
    BY <1>3, <1>4, <1>8, <1>10
  <2> QED
    BY <1>0, <1>5, <1>6, <1>7, <1>9, <2>1, MoveNests
<1>12. /\ DOMAIN path_map' = (DOMAIN path_map \ {p}) \cup {q} /\ path_map'[q] = n
       /\ \A r \in DOMAIN path_map \ {p} : r # q => path_map'[r] = path_map[r]
  BY <1>0, <1>4, <1>6, <1>7, <1>8, MoveEntryIs
<1>13. /\ \A y, e : InListing(y, e)' <=> InListing(y, e)
       /\ \A r : ~Doomed(r) /\ ~Doomed(r)'
       /\ \A r, y : ~Leaving(r, y)' /\ ~Coming(r, y)'
       /\ \A r, y : Leaving(r, y) <=> f = r /\ m.id = y
       /\ \A r, y : Coming(r, y) <=> g = r /\ Alike(n, y)
       /\ \A e, y : Holds(e, y)' <=> Holds(e, y)
  BY <1>1, <1>2, <1>3, <1>4, <1>5, <1>7, <1>11 DEF InListing, Doomed, Leaving, Coming, Holds, Alike
<1>14. Clean(f) => CleanEntry(p, m)
  BY <1>3, <1>5, <1>8 DEF CleanEntry
<1>15. ASSUME NEW y \in Ids, Unseen(y) PROVE Unseen(y)'
  <2>1. y # DirAt(g)
    BY <1>8, <1>15 DEF DirAt, Unseen
  <2>2. y \in DirIds /\ Kids(y)' = {}
    BY <1>4, <1>11, <1>15, <2>1 DEF Unseen, DirIds
  <2>3. m.id # y
    BY <1>5, <1>8, <1>15 DEF Unseen
  <2>4. \A e \in DirIds : \A c \in Kids(e)' : c.id # y
    BY <1>11, <1>15, <2>3 DEF Unseen
  <2>5. \A r \in DOMAIN path_map' : path_map'[r].id # y
    BY <1>11, <1>12, <1>15, <2>3 DEF Unseen
  <2> QED
    BY <1>7, <1>15, <2>2, <2>4, <2>5 DEF Unseen
<1>16. ListingsNew(D)'
  <2>1. ASSUME NEW d \in Ids, Kids(d)' # {} PROVE d <= lastId
    <3>1. CASE Kids(d) # {}
      BY <1>0, <3>1 DEF ListingsNew
    <3>2. CASE Kids(d) = {}
      <4>1. d = DirAt(g)
        BY <1>4, <1>11, <2>1, <3>2 DEF DirIds
      <4>2. CASE g = << >>
        BY <1>0, <4>1, <4>2 DEF DirAt, Agree
      <4>3. CASE g # << >>
        BY <1>0, <1>8, <4>1, <4>3 DEF DirAt, Agree, Fits
      <4> QED
        BY <4>2, <4>3
    <3> QED
      BY <3>1, <3>2
  <2>2. ASSUME NEW r \in Path, NEW x \in Entry, CleanEntry(r, x)', NEW e \in DirIds
        PROVE  ~InListing(x.id, e)
    <3>1. CASE CleanEntry(r, x)
      BY <1>0, <3>1 DEF ListingsNew
    <3>2. CASE x = n /\ Clean(g)
      <4>1. CleanEntry(p, m) /\ x.id = m.id
        BY <1>10, <1>11, <1>14, <3>2
      <4>2. ~InListing(m.id, e)
        BY <1>0, <1>8, <4>1 DEF ListingsNew
      <4> QED
        BY <4>1, <4>2
    <3> QED
      BY <1>4, <1>11, <2>2, <3>1, <3>2
  <2> QED
    BY <1>0, <1>7, <1>13, <2>1, <2>2 DEF ListingsNew
<1>17. LoadedAgree'
  <2> SUFFICES ASSUME NEW x \in Path, NEW d \in DirIds, CleanDir(x, d)', d \in loaded, NEW y \in Entry
               PROVE  /\ WillHold(x, d, y)' => Holds(d, y)
                      /\ Holds(d, y) /\ y.name \notin Hidden => WillHold(x, d, y)'
    BY <1>7, <1>13 DEF LoadedAgree
  <2>1. WillHold(x, d, y)' <=> \E c \in Kids(d)' : Alike(c, y)
    BY <1>13 DEF WillHold, Alike
  <2>2. CASE CleanDir(x, d)
    <3>1. WillHold(x, d, y) <=>
            (~(f = x /\ m.id = y.id) /\ \E c \in Kids(d) : Alike(c, y)) \/ (g = x /\ Alike(n, y))
      BY <1>13 DEF WillHold
    <3>2. g = x <=> d = n.parent
      <4>1. g = x => d = n.parent
        BY <1>4, <1>11, <2>2 DEF CleanDir
      <4>2. d = n.parent => g = x
        BY <1>0, <1>4, <1>8, <1>11, <2>2, DirOnce
      <4> QED
        BY <4>1, <4>2
    <3>3. f = x => d = m.parent
      <4> SUFFICES ASSUME f = x PROVE d = m.parent
        OBVIOUS
      <4>1. CleanEntry(p, m)
        BY <1>14, <2>2 DEF CleanDir
      <4> QED
        BY <1>0, <1>3, <1>8, <2>2, <4>1, EntryNests DEF CleanDir
    <3>4. f # x => \A c \in Kids(d) : c.id # m.id
      BY <1>0, <1>3, <1>5, <1>8, <2>2, KidOnce
    <3>5. (\E c \in Kids(d) : (d = m.parent => c.id # m.id) /\ Alike(c, y))
            <=> ~(f = x /\ m.id = y.id) /\ \E c \in Kids(d) : Alike(c, y)
      BY <3>3, <3>4 DEF Alike
    <3>6. (\E c \in Kids(d)' : Alike(c, y)) <=>
            (\E c \in Kids(d) : (d = m.parent => c.id # m.id) /\ Alike(c, y))
              \/ (d = n.parent /\ Alike(n, y))
      BY <1>11
    <3>7. WillHold(x, d, y)' <=> WillHold(x, d, y)
      BY <2>1, <3>1, <3>2, <3>5, <3>6
    <3> QED
      BY <1>0, <1>13, <2>2, <3>7 DEF LoadedAgree
  <2>3. CASE CleanDir(p, d) /\ Kids(d) = {} /\ Kids(d)' = {}
    <3>1. ~WillHold(x, d, y)'
      BY <2>1, <2>3
    <3>2. g # p
      <4>1. IsPrefix(g, q)
        BY <1>4, <1>8, PrefixFront, PrefixSelf
      <4> QED
        BY <1>10, <4>1
    <3>3. ~WillHold(p, d, y)
      BY <1>13, <2>3, <3>2 DEF WillHold
    <3> QED
      BY <1>0, <1>8, <1>13, <2>3, <3>1, <3>3 DEF LoadedAgree
  <2> QED
    BY <1>11, <2>2, <2>3
<1>18. ListingsAgree'
  <2> SUFFICES ASSUME NEW x \in Path, NEW d \in DirIds, CleanDir(x, d)', d \notin loaded,
                      listing[d] # None
               PROVE  listing[d] = Contents(cloud, d)
    BY <1>7 DEF ListingsAgree
  <2>1. CleanDir(x, d) \/ CleanDir(p, d)
    BY <1>11
  <2> QED
    BY <1>0, <1>8, <1>13, <2>1 DEF ListingsAgree
<1>19. DoomedGone'
  BY <1>13 DEF DoomedGone
<1>20. NothingLoaded'
  BY <1>0, <1>7, <1>9 DEF NothingLoaded, Clean
<1>21. BelowUnseen'
  <2> SUFFICES ASSUME NEW x \in Path, NEW d \in DirIds, x # << >>, CleanDir(x, d)', d \notin loaded,
                      NEW y \in Ids, Below(d, y)
               PROVE  Unseen(y)' /\ \A e \in DirIds \ {d} : ~InListing(y, e)
    BY <1>7, <1>13 DEF BelowUnseen, Below
  <2>1. CleanDir(x, d) \/ CleanDir(p, d)
    BY <1>11
  <2> QED
    BY <1>0, <1>8, <1>15, <2>1 DEF BelowUnseen
<1>22. RootAbove'
  <2> SUFFICES ASSUME NEW x \in Ids, Mentioned(x)' PROVE root \notin Inside(cloud, x)
    BY <1>7 DEF RootAbove
  <2>1. CASE x = m.id
    BY <1>0, <1>5, <1>8, <2>1 DEF RootAbove, Mentioned
  <2>2. CASE x # m.id
    <3>1. (\E d \in DirIds : \E c \in Kids(d)' : c.id = x) => \E d \in DirIds : \E c \in Kids(d) : c.id = x
      BY <1>11, <2>2
    <3>2. (\E r \in DOMAIN path_map' : path_map'[r].id = x) => \E r \in DOMAIN path_map : path_map[r].id = x
      BY <1>11, <1>12, <2>2
    <3>3. Mentioned(x)
      BY <1>7, <1>13, <3>1, <3>2 DEF Mentioned
    <3> QED
      BY <1>0, <3>3 DEF RootAbove
  <2> QED
    BY <2>1, <2>2
<1>23. OpSound'
  BY <1>7 DEF OpSound
<1> QED
  BY <1>11, <1>16, <1>17, <1>18, <1>19, <1>20, <1>21, <1>22, <1>23, SettledParts

-----------------------------------------------------------------------------
(* Listings are merged.                                                      *)

\* The folder of a listing whose entries find a path.
LEMMA MergeAt ==
  ASSUME NEW D \in SUBSET Ids, NsInv(D), Settled(D), root # None, NEW d \in DirIds, listing[d] # None,
         Placed(d) # {}, NEW at, at = PathTo(d)
  PROVE  /\ Real(d) = d /\ at \in Path
         /\ Clean(at) => CleanDir(at, d) /\ Kids(d) = {}
         /\ \A p \in Path : CleanDir(p, d) => p = at
<1>0. /\ CloudOK /\ IndexOK /\ Agree(D) /\ root \in DirIds
      /\ Nested /\ PathsNest /\ IdsOnce /\ IdsLead /\ KidsNamed /\ ListingsNew(D) /\ RootAbove
  BY PartsOf
<1>1. d \notin loaded /\ (d = root \/ (d \in D /\ d \in Ids))
  BY <1>0 DEF ListingsNew
<1>2. Real(d) = root \/ Real(d) \in DOMAIN id_map
  BY DEF Placed
<1>3. Real(d) = d
  <2>1. d \in Ids => Real(d) = d
    BY SentinelAssumption DEF Real, Ids
  <2>2. (Real(d) = Top /\ Top \notin Ids) \/ Real(d) = d
    BY DEF Real, Top, Ids
  <2> QED
    BY <1>0, <1>1, <1>2, <2>1, <2>2 DEF IndexOK
<1>4. CASE d = root
  <2>1. at = << >>
    BY <1>3, <1>4 DEF PathTo
  <2>2. at \in Path
    BY <2>1, EmptySeq DEF Path
  <2>3. Clean(at) => CleanDir(at, d)
    BY <1>4, <2>1 DEF CleanDir, IsDir, DirAt
  <2>4. \A p \in Path : CleanDir(p, d) => p = at
    BY <1>0, <1>4, <2>1, DirOnce DEF DirAt
  <2> QED
    BY <1>0, <1>1, <1>3, <2>2, <2>3, <2>4, UnloadedEmpty
<1>5. CASE d # root
  <2>1. at = id_map[d] /\ d \in DOMAIN id_map /\ d \in Ids /\ d \in D
    BY <1>1, <1>2, <1>3, <1>5 DEF PathTo
  <2>2. at \in Path /\ at # << >>
    BY <1>0, <2>1 DEF IndexOK
  <2>3. ASSUME Clean(at) PROVE CleanDir(at, d)
    <3>1. Clean(Front(at))
      BY <1>0, <2>2, <2>3, CleanFront
    <3>2. at \in DOMAIN path_map /\ path_map[at].id = d
      BY <1>0, <2>1, <2>2, <3>1 DEF IdsLead
    <3>3. path_map[at].dir
      BY <1>0, <2>1, <3>2, AgreeIs DEF Fits
    <3> QED
      BY <2>2, <2>3, <3>2, <3>3 DEF CleanDir, IsDir, DirAt
  <2>4. ASSUME NEW p \in Path, CleanDir(p, d) PROVE p = at
    <3>1. p # << >>
      BY <1>5, <2>4 DEF CleanDir, DirAt
    <3>2. path_map[p] \in Entry /\ path_map[p].id = d /\ CleanEntry(p, path_map[p])
      BY <1>0, <2>4, <3>1, DirEntry
    <3>3. id_map[path_map[p].id] = p
      BY <1>0, <3>2, EntryNests
    <3> QED
      BY <2>1, <3>2, <3>3
  <2> QED
    BY <1>0, <1>1, <1>3, <2>2, <2>3, <2>4, UnloadedEmpty
<1> QED
  BY <1>4, <1>5

\* Below a folder that is not loaded there is no other folder that is not loosened.
LEMMA UnloadedLast ==
  ASSUME NEW D \in SUBSET Ids, NsInv(D), Settled(D), root # None,
         NEW p \in Path, NEW d \in DirIds, CleanDir(p, d), d \notin loaded,
         NEW q \in Path, NEW e, CleanDir(q, e), IsPrefix(p, q)
  PROVE  q = p
<1>0. /\ IndexOK /\ PathsNest /\ IdsOnce /\ KidsNamed /\ NothingLoaded
  BY PartsOf
<1>1. CASE p = << >>
  <2>1. DOMAIN path_map = {}
    BY <1>0, <1>1 DEF NothingLoaded, CleanDir, DirAt
  <2> QED
    BY <1>0, <1>1, <2>1, DirEntry
<1>2. CASE p # << >>
  <2>1. p \in DOMAIN path_map /\ path_map[p].id = d /\ Kids(d) = {}
    BY <1>0, <1>2, DirEntry, UnloadedEmpty
  <2>2. q # << >>
    BY <1>2, FrontLast, PrefixMeans, EmptySeq, LenProperties DEF Path
  <2>3. path_map[q] \in Entry /\ CleanEntry(q, path_map[q])
    BY <1>0, <2>2, DirEntry
  <2> QED
    BY <1>0, <2>1, <2>3, NothingBelow
<1> QED
  BY <1>1, <1>2

\* What a merge does to the records.
LEMMA MergeFacts ==
  ASSUME NEW D \in SUBSET Ids, NsInv(D), Settled(D), root # None, NEW d \in DirIds, Merge(d),
         NEW kept, kept = Placed(d), NEW at, at = PathTo(d)
  PROVE  /\ d \notin loaded /\ kept \subseteq listing[d] /\ kept \subseteq Entry
         /\ kept # {} => at \in Path
         /\ Clean(at) => \A x \in kept : Append(at, x.name) \notin DOMAIN path_map
         /\ kept # {} /\ Clean(at)' => DistinctNames(kept) /\ Clean(at)
         /\ \A q \in Path, m \in Entry : CleanEntry(q, m) =>
              q \in DOMAIN path_map' /\ path_map'[q] = m
         /\ \A p \in Path, e \in DirIds : CleanDir(p, e) /\ e \in loaded => CleanDir(p, e)'
         /\ \A q \in Path, m \in Entry : CleanEntry(q, m)' =>
              CleanEntry(q, m) \/ (m \in kept /\ q = Append(at, m.name) /\ Clean(at)')
         /\ \A p \in Path : \A e : CleanDir(p, e)' =>
              \/ CleanDir(p, e)
              \/ \E x \in kept : p = Append(at, x.name) /\ e = x.id /\ x.dir /\ Clean(at)'
         /\ \A p \in Path : CleanDir(p, d) /\ Clean(p)' => CleanDir(p, d)'
<1>0. /\ CloudOK /\ IndexOK /\ Agree(D) /\ root \in DirIds
      /\ Nested /\ PathsNest /\ IdsOnce /\ IdsLead /\ KidsNamed /\ ListingsNew(D) /\ RootAbove
  BY PartsOf
<1>1. /\ kept \subseteq listing[d] /\ kept \subseteq Entry /\ (kept # {} => at \in Path)
      /\ DOMAIN path_map' = DOMAIN path_map \cup {Append(at, m.name) : m \in kept}
      /\ \A p \in DOMAIN path_map' :
           \/ \E m \in kept : p = Append(at, m.name) /\ path_map'[p] = m
           \/ /\ p \in DOMAIN path_map /\ path_map'[p] = path_map[p]
              /\ \A m \in kept : p # Append(at, m.name)
      /\ listing[d] # None
      /\ loose' = IF DistinctNames(kept) THEN loose ELSE loose \cup {at}
      /\ root' = root
  <2>1. /\ Placed(d) \subseteq listing[d] /\ Placed(d) \subseteq Entry
        /\ (Placed(d) # {} => PathTo(d) \in Path)
        /\ DOMAIN path_map' = DOMAIN path_map \cup {Append(PathTo(d), m.name) : m \in Placed(d)}
        /\ \A p \in DOMAIN path_map' :
             \/ \E m \in Placed(d) : p = Append(PathTo(d), m.name) /\ path_map'[p] = m
             \/ /\ p \in DOMAIN path_map /\ path_map'[p] = path_map[p]
                /\ \A m \in Placed(d) : p # Append(PathTo(d), m.name)
        /\ listing[d] # None
        /\ loose' = IF DistinctNames(Placed(d)) THEN loose ELSE loose \cup {PathTo(d)}
        /\ UNCHANGED <<server, root, ask, op, changes, errors>>
    BY <1>0, MergeIs
  <2> QED
    BY <2>1
<1>2. d \notin loaded
  BY <1>0, <1>1 DEF ListingsNew
<1>3. kept # {} => /\ Real(d) = d /\ at \in Path
                   /\ Clean(at) => CleanDir(at, d) /\ Kids(d) = {}
                   /\ \A p \in Path : CleanDir(p, d) => p = at
  BY <1>1, MergeAt
<1>4. \A x \in kept : Append(at, x.name) \in Path /\ Front(Append(at, x.name)) = at
                      /\ Append(at, x.name) # << >>
  BY <1>1, AppendPath DEF Entry
<1>5. ASSUME Clean(at), NEW x \in kept, Append(at, x.name) \in DOMAIN path_map PROVE FALSE
  <2> PICK q : q = Append(at, x.name)
    OBVIOUS
  <2>1. q \in DOMAIN path_map /\ Front(q) = at /\ q \in Path /\ path_map[q] \in Entry
    BY <1>0, <1>4, <1>5 DEF IndexOK
  <2> PICK m : m = path_map[q]
    OBVIOUS
  <2>2. CleanEntry(q, m) /\ m \in Entry
    BY <1>5, <2>1 DEF CleanEntry
  <2>3. CleanDir(at, m.parent) /\ m.parent \in loaded
    BY <1>0, <2>1, <2>2, EntryNests
  <2>4. CleanDir(at, d)
    BY <1>3, <1>5
  <2> QED
    BY <1>2, <2>3, <2>4 DEF CleanDir
<1>6. \A p : Clean(p)' => Clean(p)
  BY <1>1 DEF Clean
<1>7. ASSUME kept # {}, Clean(at)' PROVE DistinctNames(kept) /\ Clean(at)
  <2>1. at \notin loose'
    BY <1>1, <1>7, PrefixSelf DEF Clean
  <2> QED
    BY <1>1, <1>6, <1>7, <2>1
<1>8. ASSUME NEW q \in Path, NEW m \in Entry, CleanEntry(q, m)
      PROVE  q \in DOMAIN path_map' /\ path_map'[q] = m
  <2>1. q \in DOMAIN path_map /\ path_map[q] = m /\ Clean(Front(q))
    BY <1>8 DEF CleanEntry
  <2>2. \A x \in kept : q # Append(at, x.name)
    BY <1>4, <1>5, <2>1
  <2> QED
    BY <1>1, <2>1, <2>2
<1>9. ASSUME NEW p \in Path, NEW e \in DirIds, CleanDir(p, e), Clean(p)' PROVE CleanDir(p, e)'
  <2>1. CASE p = << >>
    BY <1>1, <1>9, <2>1 DEF CleanDir, IsDir, DirAt
  <2>2. CASE p # << >>
    <3>1. /\ path_map[p] \in Entry /\ path_map[p].id = e /\ path_map[p].dir
          /\ CleanEntry(p, path_map[p])
      BY <1>0, <1>9, <2>2, DirEntry
    <3>2. p \in DOMAIN path_map' /\ path_map'[p] = path_map[p]
      BY <1>8, <3>1
    <3> QED
      BY <1>9, <2>2, <3>1, <3>2 DEF CleanDir, IsDir, DirAt
  <2> QED
    BY <2>1, <2>2
<1>10. ASSUME NEW p \in Path, NEW e \in DirIds, CleanDir(p, e), e \in loaded PROVE Clean(p)'
  <2>1. Clean(p)
    BY <1>10 DEF CleanDir
  <2> SUFFICES ASSUME ~DistinctNames(kept), IsPrefix(at, p) PROVE FALSE
    BY <1>1, <2>1 DEF Clean
  <2>2. kept # {}
    BY DEF DistinctNames
  <2>3. Clean(at)
    BY <1>0, <1>1, <2>1, <2>2, CleanAbove
  <2>4. p = at
    BY <1>1, <1>2, <1>3, <1>10, <2>2, <2>3, UnloadedLast
  <2>5. CleanDir(at, d)
    BY <1>3, <2>2, <2>3
  <2> QED
    BY <1>2, <1>10, <2>4, <2>5 DEF CleanDir
<1>11. ASSUME NEW q \in Path, NEW m \in Entry, CleanEntry(q, m)'
       PROVE  CleanEntry(q, m) \/ (m \in kept /\ q = Append(at, m.name) /\ Clean(at)')
  <2>1. q \in DOMAIN path_map' /\ path_map'[q] = m /\ Clean(Front(q))'
    BY <1>11 DEF CleanEntry
  <2>2. CASE m \in kept /\ q = Append(at, m.name)
    <3>1. Front(q) = at
      BY <1>4, <2>2
    <3> QED
      BY <2>1, <2>2, <3>1
  <2>3. CASE q \in DOMAIN path_map /\ path_map'[q] = path_map[q]
    BY <1>6, <2>1, <2>3 DEF CleanEntry
  <2> QED
    BY <1>1, <2>1, <2>2, <2>3
<1>12. ASSUME NEW p \in Path, NEW e, CleanDir(p, e)'
       PROVE  \/ CleanDir(p, e)
              \/ \E x \in kept : p = Append(at, x.name) /\ e = x.id /\ x.dir /\ Clean(at)'
  <2>1. CASE p = << >>
    BY <1>1, <1>6, <1>12, <2>1 DEF CleanDir, IsDir, DirAt
  <2>2. CASE p # << >>
    <3>1. p \in DOMAIN path_map' /\ path_map'[p].dir /\ path_map'[p].id = e /\ Clean(p)'
      BY <1>12, <2>2 DEF CleanDir, IsDir, DirAt
    <3>2. CASE p \in DOMAIN path_map /\ path_map'[p] = path_map[p]
      BY <1>6, <2>2, <3>1, <3>2 DEF CleanDir, IsDir, DirAt
    <3>3. ASSUME NEW x \in kept, p = Append(at, x.name), path_map'[p] = x PROVE Clean(at)'
      <4>1. Front(p) = at /\ at \in Path
        BY <1>1, <1>4, <3>3
      <4>2. \A r \in loose' : r \in Path
        BY <1>0, <1>1, <3>3 DEF IndexOK
      <4>3. \A r \in loose' : ~IsPrefix(r, Front(p))
        BY <2>2, <3>1, <4>2, PrefixFront DEF Clean
      <4> QED
        BY <4>1, <4>3 DEF Clean
    <3> QED
      BY <1>1, <3>1, <3>2, <3>3
  <2> QED
    BY <2>1, <2>2
<1>13. \A p \in Path, e \in DirIds : CleanDir(p, e) /\ e \in loaded => CleanDir(p, e)'
  BY <1>9, <1>10
<1> QED
  BY <1>1, <1>2, <1>5, <1>7, <1>8, <1>9, <1>11, <1>12, <1>13

\* Entries that are kept from a listing are new to the index.
LEMMA MergeKept ==
  ASSUME NEW D \in SUBSET Ids, NsInv(D), Settled(D), root # None, NEW d \in DirIds, Merge(d),
         NEW kept, kept = Placed(d), NEW at, at = PathTo(d), kept # {}, Clean(at)
  PROVE  /\ CleanDir(at, d) /\ Real(d) = d /\ Kids(d) = {} /\ at \in Path
         /\ \A x, y \in kept : x.id = y.id => x = y
         /\ \A x \in kept :
              /\ x.id \in Ids /\ InListing(x.id, d) /\ Unseen(x.id) /\ x.id # d /\ x.parent = d
              /\ \A e \in DirIds \ {d} : ~InListing(x.id, e)
              /\ op # None /\ op.kind = "add" => x.id # op.meta.id /\ x.id # op.meta.parent
<1>0. /\ IndexOK /\ ListingsNew(D)
  BY PartsOf
<1>1. /\ d \notin loaded /\ kept \subseteq listing[d] /\ kept \subseteq Entry
      /\ listing[d] # None
  BY MergeFacts DEF Merge
<1>2. CleanDir(at, d) /\ Real(d) = d /\ Kids(d) = {} /\ at \in Path
  BY <1>1, MergeAt
<1>3. \A x, y \in kept : x.id = y.id => x = y
  BY <1>0, <1>1 DEF ListingsNew
<1>4. ASSUME NEW x \in kept
      PROVE  x.id \in Ids /\ InListing(x.id, d) /\ x.parent = d
  BY <1>0, <1>1, <1>2 DEF ListingsNew, InListing, Entry
<1>5. ASSUME NEW x \in kept
      PROVE  /\ Unseen(x.id) /\ x.id # d /\ \A e \in DirIds \ {d} : ~InListing(x.id, e)
             /\ op # None /\ op.kind = "add" => x.id # op.meta.id /\ x.id # op.meta.parent
  <2> PICK y : y = x.id
    OBVIOUS
  <2>1. y \in Ids /\ InListing(y, d)
    BY <1>4
  <2>2. /\ Unseen(y) /\ y # d /\ \A e \in DirIds \ {d} : ~InListing(y, e)
        /\ op # None /\ op.kind = "add" => y # op.meta.id /\ y # op.meta.parent
    BY <1>1, <1>2, <2>1, ListedUnseen
  <2> QED
    BY <2>2
<1> QED
  BY <1>2, <1>3, <1>4, <1>5

\* The children lists after a merge.
LEMMA MergeKids ==
  ASSUME NEW D \in SUBSET Ids, NsInv(D), Settled(D), root # None, NEW d \in DirIds, Merge(d),
         NEW kept, kept = Placed(d), NEW at, at = PathTo(d)
  PROVE  /\ \A e \in DirIds : Kids(e)' = Kids(e) \cup (IF e = Real(d) THEN kept ELSE {})
         /\ \A p \in Path, e \in DirIds : CleanDir(p, e)' =>
              \/ /\ CleanDir(p, e) /\ Kids(e)' = Kids(e) /\ (e = d => kept = {})
                 /\ \A c \in Kids(e) : children_map'[e][c] = children_map[e][c]
              \/ /\ p = at /\ e = d /\ CleanDir(at, d) /\ Clean(at)' /\ kept # {}
                 /\ Kids(d)' = kept /\ \A c \in kept : children_map'[d][c] = 1
              \/ /\ \E x \in kept : p = Append(at, x.name) /\ e = x.id /\ x.dir
                 /\ Clean(at)' /\ Kids(e)' = {}
         /\ \A y \in Ids : Unseen(y) /\ ~InListing(y, d) => Unseen(y)'
<1>0. /\ CloudOK /\ IndexOK /\ Agree(D) /\ root \in DirIds
      /\ Nested /\ PathsNest /\ IdsOnce /\ IdsLead /\ KidsNamed /\ ListingsNew(D) /\ RootAbove
  BY PartsOf
<1>1. /\ Real(d) \in DirIds
      /\ DOMAIN path_map' = DOMAIN path_map \cup {Append(PathTo(d), m.name) : m \in Placed(d)}
      /\ \A p \in DOMAIN path_map' :
           \/ \E m \in Placed(d) : p = Append(PathTo(d), m.name) /\ path_map'[p] = m
           \/ /\ p \in DOMAIN path_map /\ path_map'[p] = path_map[p]
              /\ \A m \in Placed(d) : p # Append(PathTo(d), m.name)
      /\ DOMAIN children_map' = DirIds
      /\ children_map'[Real(d)] = children_map[Real(d)] (+) SetToBag(Placed(d))
      /\ \A e \in DirIds \ {Real(d)} : children_map'[e] = children_map[e]
      /\ listing[d] # None /\ listing' = [listing EXCEPT ![d] = None]
      /\ loaded' = loaded \cup {d}
      /\ UNCHANGED <<server, root, ask, op, changes, errors>>
  BY <1>0, MergeIs
<1>2. /\ \A e \in DirIds : Kids(e)' = Kids(e) \cup (IF e = Real(d) THEN kept ELSE {})
      /\ \A e \in DirIds : \A c \in Kids(e) : (e = Real(d) => c \notin kept) =>
           children_map'[e][c] = children_map[e][c]
      /\ \A c \in kept : c \notin Kids(Real(d)) => children_map'[Real(d)][c] = 1
  <2>1. IsABag(children_map[Real(d)])
    BY <1>0, <1>1 DEF IndexOK
  <2> PICK b : b = children_map[Real(d)]
    OBVIOUS
  <2>2. /\ BagToSet(b (+) SetToBag(kept)) = BagToSet(b) \cup kept
        /\ \A c \in BagToSet(b) \ kept : (b (+) SetToBag(kept))[c] = b[c]
        /\ \A c \in kept \ BagToSet(b) : (b (+) SetToBag(kept))[c] = 1
    BY <2>1, BagWithSet
  <2>3. children_map'[Real(d)] = b (+) SetToBag(kept) /\ BagToSet(b) = Kids(Real(d))
    BY <1>1 DEF Kids
  <2>4. \A e \in DirIds : e # Real(d) => Kids(e)' = Kids(e)
    BY <1>1 DEF Kids
  <2>5. \A e \in DirIds : e = Real(d) => Kids(e)' = BagToSet(b (+) SetToBag(kept))
    BY <2>3 DEF Kids
  <2>6. \A e \in DirIds : Kids(e)' = Kids(e) \cup (IF e = Real(d) THEN kept ELSE {})
    BY <2>2, <2>3, <2>4, <2>5
  <2>7. \A e \in DirIds : \A c \in Kids(e) : (e = Real(d) => c \notin kept) =>
           children_map'[e][c] = children_map[e][c]
    BY <1>1, <2>2, <2>3
  <2>8. \A c \in kept : c \notin Kids(Real(d)) => children_map'[Real(d)][c] = 1
    BY <2>2, <2>3
  <2> QED
    BY <2>6, <2>7, <2>8
<1>3. /\ d \notin loaded /\ kept \subseteq listing[d] /\ kept \subseteq Entry
      /\ kept # {} /\ Clean(at)' => Clean(at)
      /\ \A p \in Path : \A e : CleanDir(p, e)' =>
           \/ CleanDir(p, e)
           \/ \E x \in kept : p = Append(at, x.name) /\ e = x.id /\ x.dir /\ Clean(at)'
  BY MergeFacts
<1>4. \A y : (\E x \in kept : x.id = y) => InListing(y, d)
  BY <1>1, <1>3 DEF InListing
<1>5. ASSUME NEW y \in Ids, Unseen(y), ~InListing(y, d) PROVE Unseen(y)'
  <2>1. y # d /\ y \in DirIds
    BY <1>1, <1>5 DEF Unseen, DirIds
  <2>2. listing'[y] = None
    BY <1>0, <1>1, <1>5, <2>1 DEF Unseen, IndexOK
  <2>3. Kids(y)' = {}
    <3>1. kept # {} => Real(d) = d
      BY <1>1, MergeAt
    <3> QED
      BY <1>2, <1>5, <2>1, <3>1 DEF Unseen
  <2>4. \A q \in DOMAIN path_map' : path_map'[q].id # y
    BY <1>1, <1>4, <1>5 DEF Unseen
  <2>5. \A e \in DirIds : \A c \in Kids(e)' : c.id # y
    BY <1>2, <1>4, <1>5 DEF Unseen
  <2> QED
    BY <1>1, <1>5, <2>1, <2>2, <2>3, <2>4, <2>5 DEF Unseen
<1>6. ASSUME NEW p \in Path, NEW e \in DirIds, CleanDir(p, e)'
      PROVE  \/ /\ CleanDir(p, e) /\ Kids(e)' = Kids(e) /\ (e = d => kept = {})
                /\ \A c \in Kids(e) : children_map'[e][c] = children_map[e][c]
             \/ /\ p = at /\ e = d /\ CleanDir(at, d) /\ Clean(at)' /\ kept # {}
                /\ Kids(d)' = kept /\ \A c \in kept : children_map'[d][c] = 1
             \/ /\ \E x \in kept : p = Append(at, x.name) /\ e = x.id /\ x.dir
                /\ Clean(at)' /\ Kids(e)' = {}
  <2>1. CASE CleanDir(p, e) /\ kept = {}
    BY <1>2, <2>1
  <2>2. CASE CleanDir(p, e) /\ kept # {} /\ e # d
    <3>1. Real(d) = d
      BY <1>1, <2>2, MergeAt
    <3> QED
      BY <1>2, <2>2, <3>1
  <2>3. CASE CleanDir(p, e) /\ kept # {} /\ e = d
    <3>1. p = at /\ Real(d) = d
      BY <1>1, <2>3, MergeAt
    <3>2. Clean(at)' /\ Clean(at)
      BY <1>6, <2>3, <3>1 DEF CleanDir
    <3>3. CleanDir(at, d) /\ Kids(d) = {}
      BY <2>3, <3>2, MergeKept
    <3> QED
      BY <1>2, <2>3, <3>1, <3>2, <3>3
  <2>4. ASSUME NEW x \in kept, p = Append(at, x.name), e = x.id, x.dir, Clean(at)'
        PROVE  Kids(e)' = {}
    <3>1. kept # {} /\ Clean(at)
      BY <1>3, <2>4
    <3>2. Unseen(x.id) /\ x.id # d /\ Real(d) = d
      BY <3>1, MergeKept
    <3>3. Kids(e) = {} /\ e # Real(d)
      BY <2>4, <3>2 DEF Unseen
    <3> QED
      BY <1>2, <3>3
  <2> QED
    BY <1>3, <1>6, <2>1, <2>2, <2>3, <2>4
<1> QED
  BY <1>2, <1>5, <1>6

\* The maps fit together after a merge.
LEMMA MergeNests ==
  ASSUME NEW D \in SUBSET Ids, NsInv(D), Settled(D), root # None, NEW d \in DirIds, Merge(d)
  PROVE  Nested'
<1>0. /\ CloudOK /\ IndexOK /\ Agree(D) /\ root \in DirIds
      /\ Nested /\ PathsNest /\ IdsOnce /\ IdsLead /\ KidsNamed /\ ListingsNew(D) /\ RootAbove
  BY PartsOf
<1> PICK kept : kept = Placed(d)
  OBVIOUS
<1> PICK at : at = PathTo(d)
  OBVIOUS
<1>1. /\ d \notin loaded /\ kept \subseteq listing[d] /\ kept \subseteq Entry
      /\ (kept # {} => at \in Path)
      /\ (Clean(at) => \A x \in kept : Append(at, x.name) \notin DOMAIN path_map)
      /\ (kept # {} /\ Clean(at)' => DistinctNames(kept) /\ Clean(at))
      /\ \A q \in Path, m \in Entry : CleanEntry(q, m) =>
           q \in DOMAIN path_map' /\ path_map'[q] = m
      /\ \A p \in Path, e \in DirIds : CleanDir(p, e) /\ e \in loaded => CleanDir(p, e)'
      /\ \A q \in Path, m \in Entry : CleanEntry(q, m)' =>
           CleanEntry(q, m) \/ (m \in kept /\ q = Append(at, m.name) /\ Clean(at)')
      /\ \A p \in Path : CleanDir(p, d) /\ Clean(p)' => CleanDir(p, d)'
  BY MergeFacts
<1>2. /\ \A e \in DirIds : Kids(e)' = Kids(e) \cup (IF e = Real(d) THEN kept ELSE {})
      /\ \A p \in Path, e \in DirIds : CleanDir(p, e)' =>
           \/ /\ CleanDir(p, e) /\ Kids(e)' = Kids(e) /\ (e = d => kept = {})
              /\ \A c \in Kids(e) : children_map'[e][c] = children_map[e][c]
           \/ /\ p = at /\ e = d /\ CleanDir(at, d) /\ Clean(at)' /\ kept # {}
              /\ Kids(d)' = kept /\ \A c \in kept : children_map'[d][c] = 1
           \/ /\ \E x \in kept : p = Append(at, x.name) /\ e = x.id /\ x.dir
              /\ Clean(at)' /\ Kids(e)' = {}
  BY MergeKids
<1>3. /\ DOMAIN path_map' = DOMAIN path_map \cup {Append(PathTo(d), m.name) : m \in Placed(d)}
      /\ \A p \in DOMAIN path_map' :
           \/ \E m \in Placed(d) : p = Append(PathTo(d), m.name) /\ path_map'[p] = m
           \/ /\ p \in DOMAIN path_map /\ path_map'[p] = path_map[p]
              /\ \A m \in Placed(d) : p # Append(PathTo(d), m.name)
      /\ DOMAIN id_map' = DOMAIN id_map \cup {m.id : m \in Placed(d)}
      /\ \A i \in DOMAIN id_map' :
           \/ \E m \in Placed(d) : i = m.id /\ id_map'[i] = Append(PathTo(d), m.name)
           \/ /\ i \in DOMAIN id_map /\ id_map'[i] = id_map[i]
              /\ \A m \in Placed(d) : i # m.id
      /\ listing[d] # None /\ loaded' = loaded \cup {d}
  BY <1>0, MergeIs
<1>4. /\ \A p \in DOMAIN path_map' :
           \/ \E m \in kept : p = Append(at, m.name) /\ path_map'[p] = m
           \/ /\ p \in DOMAIN path_map /\ path_map'[p] = path_map[p]
              /\ \A m \in kept : p # Append(at, m.name)
      /\ \A i \in DOMAIN id_map' :
           \/ \E m \in kept : i = m.id /\ id_map'[i] = Append(at, m.name)
           \/ /\ i \in DOMAIN id_map /\ id_map'[i] = id_map[i]
              /\ \A m \in kept : i # m.id
      /\ \A m \in kept : Append(at, m.name) \in DOMAIN path_map' /\ m.id \in DOMAIN id_map'
  BY <1>3
<1>5. kept # {} /\ Clean(at)' =>
        /\ CleanDir(at, d) /\ Real(d) = d /\ at \in Path
        /\ \A x, y \in kept : x.id = y.id => x = y
        /\ \A x \in kept : Unseen(x.id) /\ x.parent = d
  BY <1>1, MergeKept
<1>6. \A x \in kept : Append(at, x.name) \in Path /\ Front(Append(at, x.name)) = at
                      /\ Append(at, x.name) # << >> /\ Last(Append(at, x.name)) = x.name
  BY <1>1, AppendPath DEF Entry
<1>7. ASSUME NEW q \in Path, NEW m \in Entry, CleanEntry(q, m) PROVE \A x \in kept : x.id # m.id
  BY <1>0, <1>1, <1>3, <1>7 DEF ListingsNew, InListing
<1>8. \A q : Clean(q)' => Clean(q)
  BY <1>0, MergeIs, CleanShrinks
<1>9. PathsNest'
  <2> SUFFICES ASSUME NEW q \in Path, NEW m \in Entry, CleanEntry(q, m)'
               PROVE  /\ IsDir(Front(q))' /\ DirAt(Front(q))' = m.parent /\ m.parent \in loaded'
                      /\ m \in Kids(m.parent)' /\ m.name = Last(q)
                      /\ m.id \in DOMAIN id_map' /\ id_map'[m.id] = q
                      /\ \A r \in Path : IsPrefix(r, q) /\ r # << >> => r \in DOMAIN path_map'
    BY DEF PathsNest
  <2>1. CASE CleanEntry(q, m)
    <3>1. /\ CleanDir(Front(q), m.parent) /\ m.parent \in loaded /\ m \in Kids(m.parent)
          /\ m.name = Last(q) /\ m.id \in DOMAIN id_map /\ id_map[m.id] = q
          /\ \A r \in Path : IsPrefix(r, q) /\ r # << >> => r \in DOMAIN path_map
          /\ m.parent \in DirIds
      BY <1>0, <2>1, EntryNests
    <3>2. q # << >>
      BY <1>0, <2>1 DEF CleanEntry, IndexOK
    <3>3. CleanDir(Front(q), m.parent)'
      BY <1>1, <3>1, <3>2, FrontLast
    <3>4. m.id \in DOMAIN id_map' /\ id_map'[m.id] = q
      BY <1>3, <1>4, <1>7, <2>1, <3>1
    <3> QED
      BY <1>2, <1>3, <3>1, <3>3, <3>4 DEF CleanDir
  <2>2. CASE m \in kept /\ q = Append(at, m.name) /\ Clean(at)'
    <3>1. CleanDir(at, d) /\ Real(d) = d /\ at \in Path /\ m.parent = d
      BY <1>5, <2>2
    <3>2. CleanDir(at, d)'
      BY <1>1, <2>2, <3>1
    <3>3. Front(q) = at /\ Last(q) = m.name /\ q # << >>
      BY <1>6, <2>2
    <3>4. m \in Kids(d)'
      BY <1>2, <2>2, <3>1
    <3>5. m.id \in DOMAIN id_map' /\ id_map'[m.id] = q
      <4>1. m.id \in DOMAIN id_map'
        BY <1>4, <2>2
      <4> QED
        BY <1>4, <1>5, <2>2, <4>1
    <3>6. ASSUME NEW r \in Path, IsPrefix(r, q), r # << >> PROVE r \in DOMAIN path_map'
      <4>1. CASE r = q
        BY <1>4, <2>2, <4>1
      <4>2. CASE IsPrefix(r, at)
        BY <1>0, <1>3, <3>1, <3>6, <4>2, PathKnown
      <4> QED
        BY <3>3, <3>6, <4>1, <4>2, PrefixFront
    <3> QED
      BY <1>3, <3>1, <3>2, <3>3, <3>4, <3>5, <3>6 DEF CleanDir
  <2> QED
    BY <1>1, <2>1, <2>2
<1>10. IdsOnce'
  <2> SUFFICES ASSUME NEW q \in Path, NEW m \in Entry, CleanEntry(q, m)',
                      NEW r \in DOMAIN path_map', path_map'[r].id = m.id
               PROVE  r = q
    BY DEF IdsOnce
  <2>1. CASE CleanEntry(q, m)
    BY <1>0, <1>4, <1>7, <2>1 DEF IdsOnce
  <2>2. CASE m \in kept /\ q = Append(at, m.name) /\ Clean(at)'
    <3>1. Unseen(m.id) /\ \A x \in kept : x.id = m.id => x = m
      BY <1>5, <2>2
    <3> QED
      BY <1>4, <2>2, <3>1 DEF Unseen
  <2> QED
    BY <1>1, <2>1, <2>2
<1>11. IdsLead'
  <2> SUFFICES ASSUME NEW i \in Ids, NEW q \in Path, i \in DOMAIN id_map', id_map'[i] = q,
                      Clean(Front(q))'
               PROVE  q \in DOMAIN path_map' /\ path_map'[q].id = i
    BY DEF IdsLead
  <2>1. ASSUME NEW x \in kept, i = x.id, q = Append(at, x.name)
        PROVE  q \in DOMAIN path_map' /\ path_map'[q].id = i
    <3>1. Clean(at)'
      BY <1>6, <2>1
    <3>2. DistinctNames(kept)
      BY <1>1, <3>1
    <3>3. q \in DOMAIN path_map'
      BY <1>4, <2>1
    <3>4. PICK y \in kept : q = Append(at, y.name) /\ path_map'[q] = y
      BY <1>4, <2>1, <3>3
    <3>5. y.name = x.name
      BY <1>6, <2>1, <3>4
    <3> QED
      BY <2>1, <3>2, <3>3, <3>4, <3>5 DEF DistinctNames
  <2>2. CASE i \in DOMAIN id_map /\ id_map[i] = q
    <3>1. q \in DOMAIN path_map /\ path_map[q].id = i /\ Clean(Front(q))
      BY <1>0, <1>8, <2>2 DEF IdsLead
    <3>2. path_map[q] \in Entry /\ CleanEntry(q, path_map[q])
      BY <1>0, <3>1 DEF IndexOK, CleanEntry
    <3> QED
      BY <1>1, <3>1, <3>2
  <2> QED
    BY <1>4, <2>1, <2>2
<1>12. KidsNamed'
  <2> SUFFICES ASSUME NEW p \in Path, NEW e \in DirIds, CleanDir(p, e)', NEW c \in Kids(e)'
               PROVE  /\ children_map'[e][c] = 1
                      /\ Append(p, c.name) \in DOMAIN path_map' /\ path_map'[Append(p, c.name)] = c
    BY DEF KidsNamed
  <2>1. CASE /\ CleanDir(p, e) /\ Kids(e)' = Kids(e)
             /\ \A k \in Kids(e) : children_map'[e][k] = children_map[e][k]
    <3>1. /\ c \in Entry /\ Append(p, c.name) \in Path /\ CleanEntry(Append(p, c.name), c)
          /\ children_map[e][c] = 1
      BY <1>0, <2>1, KidEntry
    <3> QED
      BY <1>1, <2>1, <3>1
  <2>2. CASE /\ p = at /\ e = d /\ Clean(at)' /\ Kids(d)' = kept
             /\ \A k \in kept : children_map'[d][k] = 1
    <3>1. DistinctNames(kept) /\ Clean(at) /\ c \in kept
      BY <1>1, <2>2
    <3> PICK q : q = Append(at, c.name)
      OBVIOUS
    <3>2. q \in DOMAIN path_map' /\ Last(q) = c.name
      BY <1>4, <1>6, <3>1
    <3>3. PICK y \in kept : q = Append(at, y.name) /\ path_map'[q] = y
      BY <1>4, <3>1, <3>2
    <3>4. y = c
      BY <1>6, <3>1, <3>2, <3>3 DEF DistinctNames
    <3> QED
      BY <2>2, <3>1, <3>2, <3>3, <3>4
  <2> QED
    BY <1>2, <2>1, <2>2
<1> QED
  BY <1>9, <1>10, <1>11, <1>12 DEF Nested

\* In a folder that is not loaded no operation is under way.
LEMMA UnloadedCalm ==
  ASSUME OpSound, OpInv, NEW p, NEW e, CleanDir(p, e), e \notin loaded
  PROVE  \A y : ~Leaving(p, y) /\ ~Coming(p, y)
<1> SUFFICES ASSUME op # None, p \in op.dirs PROVE FALSE
  BY DEF OpSound, OpInv, Leaving, Coming
<1>1. OpClean(op)
  BY OpIsClean DEF CleanDir
<1> QED
  BY <1>1 DEF OpClean, CleanDir

\* A listing is merged: the folder is loaded and holds in the index what it holds in Drive Kit.
LEMMA MergeSettles ==
  ASSUME NEW D \in SUBSET Ids, NsInv(D), Settled(D), root # None, NEW d \in DirIds, Merge(d)
  PROVE  Settled(D)'
<1>0. /\ CloudOK /\ IndexOK /\ OpInv /\ Agree(D) /\ root \in DirIds
      /\ Nested /\ PathsNest /\ IdsOnce /\ KidsNamed
      /\ ListingsNew(D) /\ LoadedAgree /\ ListingsAgree /\ DoomedGone
      /\ NothingLoaded /\ BelowUnseen /\ RootAbove /\ OpSound
      /\ \A e \in cloud : e.id \in Ids
  BY PartsOf
<1> PICK kept : kept = Placed(d)
  OBVIOUS
<1> PICK at : at = PathTo(d)
  OBVIOUS
<1>1. /\ d \notin loaded /\ kept \subseteq listing[d] /\ kept \subseteq Entry
      /\ (kept # {} => at \in Path)
      /\ (Clean(at) => \A x \in kept : Append(at, x.name) \notin DOMAIN path_map)
      /\ (kept # {} /\ Clean(at)' => DistinctNames(kept) /\ Clean(at))
      /\ \A q \in Path, m \in Entry : CleanEntry(q, m) =>
           q \in DOMAIN path_map' /\ path_map'[q] = m
      /\ \A p \in Path, e \in DirIds : CleanDir(p, e) /\ e \in loaded => CleanDir(p, e)'
      /\ \A q \in Path, m \in Entry : CleanEntry(q, m)' =>
           CleanEntry(q, m) \/ (m \in kept /\ q = Append(at, m.name) /\ Clean(at)')
      /\ \A p \in Path : \A e : CleanDir(p, e)' =>
           \/ CleanDir(p, e)
           \/ \E x \in kept : p = Append(at, x.name) /\ e = x.id /\ x.dir /\ Clean(at)'
  BY MergeFacts
<1>2. /\ \A e \in DirIds : Kids(e)' = Kids(e) \cup (IF e = Real(d) THEN kept ELSE {})
      /\ \A p \in Path, e \in DirIds : CleanDir(p, e)' =>
           \/ CleanDir(p, e) /\ Kids(e)' = Kids(e) /\ (e = d => kept = {})
           \/ p = at /\ e = d /\ CleanDir(at, d) /\ Clean(at)' /\ kept # {} /\ Kids(d)' = kept
           \/ /\ \E x \in kept : p = Append(at, x.name) /\ e = x.id /\ x.dir
              /\ Clean(at)' /\ Kids(e)' = {}
      /\ \A y \in Ids : Unseen(y) /\ ~InListing(y, d) => Unseen(y)'
  BY MergeKids
<1>3. /\ DOMAIN path_map' = DOMAIN path_map \cup {Append(at, m.name) : m \in kept}
      /\ \A p \in DOMAIN path_map' :
           \/ \E m \in kept : p = Append(at, m.name) /\ path_map'[p] = m
           \/ p \in DOMAIN path_map /\ path_map'[p] = path_map[p]
      /\ listing[d] # None /\ listing' = [listing EXCEPT ![d] = None]
      /\ loaded' = loaded \cup {d} /\ op' = op /\ cloud' = cloud /\ lastId' = lastId /\ root' = root
  <2>1. /\ DOMAIN path_map' = DOMAIN path_map \cup {Append(PathTo(d), m.name) : m \in Placed(d)}
        /\ \A p \in DOMAIN path_map' :
             \/ \E m \in Placed(d) : p = Append(PathTo(d), m.name) /\ path_map'[p] = m
             \/ /\ p \in DOMAIN path_map /\ path_map'[p] = path_map[p]
                /\ \A m \in Placed(d) : p # Append(PathTo(d), m.name)
        /\ listing[d] # None /\ listing' = [listing EXCEPT ![d] = None]
        /\ loaded' = loaded \cup {d} /\ UNCHANGED <<server, root, ask, op, changes, errors>>
    BY <1>0, MergeIs
  <2> QED
    BY <2>1 DEF server
<1>4. kept # {} /\ Clean(at) =>
        /\ CleanDir(at, d) /\ Real(d) = d /\ at \in Path
        /\ \A x, y \in kept : x.id = y.id => x = y
        /\ \A x \in kept :
             /\ x.id \in Ids /\ InListing(x.id, d) /\ Unseen(x.id) /\ x.id # d /\ x.parent = d
             /\ \A e \in DirIds \ {d} : ~InListing(x.id, e)
             /\ op # None /\ op.kind = "add" => x.id # op.meta.id /\ x.id # op.meta.parent
  BY MergeKept
<1>5. \A x \in kept : Append(at, x.name) \in Path /\ Front(Append(at, x.name)) = at
                      /\ Append(at, x.name) # << >>
  BY <1>1, AppendPath DEF Entry
<1>6. /\ \A e \in DirIds : listing'[e] = IF e = d THEN None ELSE listing[e]
      /\ \A e \in DirIds : \A y : InListing(y, e)' <=> InListing(y, e) /\ e # d
      /\ \A y : (\E x \in kept : x.id = y) => InListing(y, d)
  BY <1>0, <1>1, <1>3 DEF IndexOK, InListing
<1>7. \A p : Clean(p)' => Clean(p)
  BY <1>0, MergeIs, CleanShrinks
<1>8. /\ \A p : Doomed(p)' <=> Doomed(p)
      /\ \A e, y : Holds(e, y)' <=> Holds(e, y)
  BY <1>3 DEF Doomed, Holds
\* What an operation under way does to a folder that is not loosened.
<1>9. ASSUME op # None, NEW p \in op.dirs, Clean(p)
      PROVE  /\ OpClean(op)
             /\ op.kind # "add" => op.path \in DOMAIN path_map /\ path_map'[op.path] = path_map[op.path]
  <2>1. OpClean(op) /\ Front(op.path) \in op.dirs
    BY <1>0, <1>9, OpIsClean DEF OpSound
  <2>2. ASSUME op.kind # "add"
        PROVE  op.path \in DOMAIN path_map /\ path_map'[op.path] = path_map[op.path]
    <3> PICK q : q = op.path
      OBVIOUS
    <3>1. q \in DOMAIN path_map /\ q \in Path /\ path_map[q] \in Entry /\ Clean(Front(q))
      BY <1>0, <1>9, <2>1, <2>2 DEF OpInv, OpClean, IndexOK
    <3>2. path_map'[q] = path_map[q]
      BY <1>1, <3>1 DEF CleanEntry
    <3> QED
      BY <3>1, <3>2
  <2> QED
    BY <2>1, <2>2
<1>10. ASSUME NEW p, Clean(p), NEW y
       PROVE  /\ Leaving(p, y)' <=> Leaving(p, y)
              /\ Coming(p, y)' <=> Coming(p, y)
  <2>1. CASE op = None \/ p \notin op.dirs
    BY <1>0, <1>3, <2>1 DEF Leaving, Coming, OpSound, OpInv
  <2>2. CASE op # None /\ p \in op.dirs
    <3>1. op.kind # "add" => path_map'[op.path] = path_map[op.path]
      BY <1>9, <1>10, <2>2
    <3>2. Leaving(p, y)' <=> Leaving(p, y)
      BY <1>3, <3>1 DEF Leaving
    <3>3. Coming(p, y)' <=> Coming(p, y)
      BY <1>3, <3>1 DEF Coming
    <3> QED
      BY <3>2, <3>3
  <2> QED
    BY <2>1, <2>2
<1>11. Nested'
  BY MergeNests
<1>12. ListingsNew(D)'
  <2>1. ASSUME NEW e \in DirIds, listing'[e] # None
        PROVE  /\ e \notin loaded' /\ (e = root' \/ e \in D)
               /\ \A m \in listing'[e] : m.parent = Real(e)
               /\ \A m, n \in listing'[e] : m.id = n.id => m = n
    BY <1>0, <1>3, <1>6, <2>1 DEF ListingsNew
  <2>2. ASSUME NEW q \in Path, NEW m \in Entry, CleanEntry(q, m)', NEW e \in DirIds
        PROVE  ~InListing(m.id, e)'
    <3>1. CASE CleanEntry(q, m)
      BY <1>0, <1>6, <3>1 DEF ListingsNew
    <3>2. CASE m \in kept /\ Clean(at)'
      BY <1>1, <1>4, <1>6, <3>2
    <3> QED
      BY <1>1, <2>2, <3>1, <3>2
  <2>3. ASSUME NEW e \in Ids, e \in loaded' PROVE e = root \/ e \in D
    BY <1>0, <1>3, <2>3 DEF ListingsNew
  <2>4. ASSUME NEW e \in Ids, Kids(e)' # {} PROVE e <= lastId
    <3>1. CASE Kids(e) # {}
      BY <1>0, <3>1 DEF ListingsNew
    <3>2. CASE Kids(e) = {}
      <4>1. e = Real(d) /\ kept # {}
        BY <1>2, <2>4, <3>2 DEF DirIds
      <4>2. Real(d) = d
        BY <1>3, <4>1, MergeAt
      <4>3. d = root \/ d \in D
        BY <1>0, <1>3 DEF ListingsNew
      <4> QED
        BY <1>0, <4>1, <4>2, <4>3 DEF Agree
    <3> QED
      BY <3>1, <3>2
  <2> QED
    BY <1>3, <2>1, <2>2, <2>3, <2>4 DEF ListingsNew
<1>13. LoadedAgree'
  <2> SUFFICES ASSUME NEW p \in Path, NEW e \in DirIds, CleanDir(p, e)', e \in loaded', ~Doomed(p),
                      NEW y \in Entry
               PROVE  /\ WillHold(p, e, y)' => Holds(e, y)
                      /\ Holds(e, y) /\ y.name \notin Hidden => WillHold(p, e, y)'
    BY <1>8 DEF LoadedAgree
  <2>1. Clean(p)
    BY <1>7 DEF CleanDir
  <2>2. WillHold(p, e, y)' <=> (~Leaving(p, y.id) /\ \E c \in Kids(e)' : Alike(c, y)) \/ Coming(p, y)
    <3>1. WillHold(p, e, y)' <=> (~Leaving(p, y.id)' /\ \E c \in Kids(e)' : Alike(c, y)) \/ Coming(p, y)'
      BY DEF WillHold, Alike
    <3>2. Leaving(p, y.id)' <=> Leaving(p, y.id)
      <4> PICK i : i = y.id
        OBVIOUS
      <4>1. Leaving(p, i)' <=> Leaving(p, i)
        BY <1>10, <2>1
      <4> QED
        BY <4>1
    <3> QED
      BY <1>10, <2>1, <3>1, <3>2
  <2>3. CASE CleanDir(p, e) /\ Kids(e)' = Kids(e) /\ e # d
    <3>1. WillHold(p, e, y)' <=> WillHold(p, e, y)
      BY <2>2, <2>3 DEF WillHold
    <3> QED
      BY <1>0, <1>3, <2>3, <3>1 DEF LoadedAgree
  <2>4. CASE CleanDir(p, d) /\ e = d /\ Kids(d)' = Kids(d) /\ kept = {}
    <3>1. ~WillHold(p, e, y)'
      BY <1>0, <1>1, <2>2, <2>4, UnloadedCalm, UnloadedEmpty
    <3>2. ASSUME Holds(d, y), y.name \notin Hidden PROVE FALSE
      <4>1. listing[d] = Contents(cloud, d)
        BY <1>0, <1>1, <1>3, <2>4 DEF ListingsAgree
      <4>2. PICK n \in cloud : n.parent = Real(d) /\ n.name \notin Hidden
        BY <3>2 DEF Holds, Alike
      <4>3. Real(d) # root /\ Real(d) \notin DOMAIN id_map
        BY <2>4, <4>1, <4>2 DEF Placed, Contents
      <4>4. CASE p = << >>
        <5>1. d = root
          BY <2>4, <4>4 DEF CleanDir, DirAt
        <5>2. root = Keyword /\ Real(d) = Top
          BY <4>3, <5>1 DEF Real
        <5>3. Contents(cloud, Top) = {}
          BY <1>0, <1>1, <2>4, <4>4, <5>1, <5>2 DEF NothingLoaded, CleanDir
        <5>4. Real(Top) = Top
          BY DEF Real
        <5> QED
          BY <4>2, <5>2, <5>3, <5>4 DEF Contents
      <4>5. CASE p # << >>
        <5>1. d \in Ids /\ path_map[p] \in Entry /\ CleanEntry(p, path_map[p]) /\ path_map[p].id = d
          BY <1>0, <2>4, <4>5, DirEntry
        <5>2. d \in DOMAIN id_map
          BY <1>0, <5>1, EntryNests
        <5> QED
          BY <4>3, <5>1, <5>2, SentinelAssumption DEF Real, Ids
      <4> QED
        BY <4>4, <4>5
    <3> QED
      BY <2>4, <3>1, <3>2
  <2>5. CASE p = at /\ e = d /\ CleanDir(at, d) /\ kept # {} /\ Kids(d)' = kept
    <3>1. WillHold(p, e, y)' <=> \E c \in kept : Alike(c, y)
      BY <1>0, <1>1, <2>2, <2>5, UnloadedCalm
    <3>2. listing[d] = Contents(cloud, d)
      BY <1>0, <1>1, <1>3, <2>5 DEF ListingsAgree
    <3>3. kept = {m \in listing[d] : m.name \notin Hidden}
      BY <2>5 DEF Placed
    <3> QED
      BY <2>5, <3>1, <3>2, <3>3 DEF Holds, Alike, Contents
  <2>6. CASE (\E x \in kept : e = x.id) /\ Clean(at)'
    BY <1>1, <1>3, <1>4, <2>6 DEF Unseen
  <2> QED
    BY <1>2, <2>3, <2>4, <2>5, <2>6
<1>14. ListingsAgree'
  <2> SUFFICES ASSUME NEW p \in Path, NEW e \in DirIds, CleanDir(p, e)', e \notin loaded', ~Doomed(p),
                      listing'[e] # None
               PROVE  listing'[e] = Contents(cloud, e)
    BY <1>3, <1>8 DEF ListingsAgree
  <2>1. e # d /\ listing'[e] = listing[e] /\ e \notin loaded
    BY <1>3, <1>6
  <2>2. CleanDir(p, e)
    BY <1>1, <1>2, <1>4, <2>1 DEF Unseen
  <2> QED
    BY <1>0, <2>1, <2>2 DEF ListingsAgree
<1>15. DoomedGone'
  <2> SUFFICES ASSUME NEW p \in Path, NEW e \in DirIds, CleanDir(p, e)', Doomed(p), NEW n \in cloud
               PROVE  n.id # e /\ ~InListing(n.id, e)' /\ \A c \in Kids(e)' : c.id # n.id
    BY <1>3, <1>8 DEF DoomedGone
  <2>1. CASE CleanDir(p, e) /\ Kids(e)' = Kids(e)
    BY <1>0, <1>6, <2>1 DEF DoomedGone
  <2>2. CASE p = at /\ e = d /\ CleanDir(at, d) /\ Kids(d)' = kept
    <3>1. n.id # d /\ ~InListing(n.id, d)
      BY <1>0, <2>2 DEF DoomedGone
    <3> QED
      BY <1>6, <2>2, <3>1
  <2>3. ASSUME NEW x \in kept, p = Append(at, x.name), e = x.id, Clean(at)', Kids(e)' = {}
        PROVE  n.id # e /\ ~InListing(n.id, e)' /\ \A c \in Kids(e)' : c.id # n.id
    <3>1. Clean(at) /\ CleanDir(at, d) /\ at \in Path /\ Unseen(x.id)
      BY <1>1, <1>4, <2>3
    <3>2. op.path \in Path /\ op.path \in DOMAIN path_map
      BY <1>0 DEF Doomed, OpInv
    <3>3. op.path # p
      <4>1. Append(at, x.name) \notin DOMAIN path_map
        BY <1>1, <3>1
      <4> QED
        BY <2>3, <3>2, <4>1
    <3>4. Doomed(at)
      <4>1. Front(p) = at /\ p # << >> /\ IsPrefix(op.path, p)
        BY <1>5, <2>3 DEF Doomed
      <4>2. IsPrefix(op.path, Front(p))
        BY <3>2, <3>3, <4>1, PrefixFront
      <4> QED
        BY <4>1, <4>2 DEF Doomed
    <3>5. ~InListing(n.id, d)
      BY <1>0, <3>1, <3>4 DEF DoomedGone
    <3> QED
      BY <1>6, <2>3, <3>1, <3>5 DEF Unseen, InListing
  <2> QED
    BY <1>2, <2>1, <2>2, <2>3
<1>16. NothingLoaded'
  <2> SUFFICES ASSUME Clean(<< >>)', root \notin loaded' PROVE FALSE
    BY <1>3 DEF NothingLoaded
  <2> QED
    BY <1>0, <1>3, <1>7 DEF NothingLoaded
<1>17. BelowUnseen'
  <2> SUFFICES ASSUME NEW p \in Path, NEW e \in DirIds, p # << >>, CleanDir(p, e)', e \notin loaded',
                      NEW y \in Ids, Below(e, y)'
               PROVE  /\ Unseen(y)' /\ \A k \in DirIds \ {e} : ~InListing(y, k)'
                      /\ op # None /\ op.kind = "add" => y # op.meta.id /\ y # op.meta.parent
    BY <1>3 DEF BelowUnseen
  <2>1. e # d /\ e \notin loaded /\ Below(e, y)
    BY <1>3, <1>6 DEF Below
  <2>2. CASE CleanDir(p, e)
    <3>1. /\ Unseen(y) /\ \A k \in DirIds \ {e} : ~InListing(y, k)
          /\ op # None /\ op.kind = "add" => y # op.meta.id /\ y # op.meta.parent
      BY <1>0, <2>1, <2>2 DEF BelowUnseen
    <3> QED
      BY <1>2, <1>6, <2>1, <3>1
  <2>3. ASSUME NEW x \in kept, e = x.id, Clean(at)'
        PROVE  /\ Unseen(y)' /\ \A k \in DirIds \ {e} : ~InListing(y, k)'
               /\ op # None /\ op.kind = "add" => y # op.meta.id /\ y # op.meta.parent
    <3>1. /\ kept # {} /\ Clean(at) /\ CleanDir(at, d) /\ Real(d) = d /\ at \in Path
          /\ x.id \in Ids /\ Unseen(x.id) /\ x.id # d /\ x.parent = d
      BY <1>1, <1>4, <2>3
    <3> PICK i : i = x.id
      OBVIOUS
    <3>2. y \in Inside(cloud, i) /\ y # i
      <4>1. ~InListing(y, i)
        BY <3>1 DEF Unseen, InListing
      <4> QED
        BY <2>1, <2>3, <4>1 DEF Below
    <3>3. ~Doomed(at)
      <4> SUFFICES ASSUME Doomed(at) PROVE FALSE
        OBVIOUS
      <4>1. \A n \in cloud : n.id # i
        BY <1>0, <1>6, <3>1 DEF DoomedGone
      <4>2. \A n \in cloud : n.parent # i
        BY <1>0, <3>1, <4>1 DEF CloudOK, WellFormed, Folders, Top, Ids
      <4>3. ClosedUnder(cloud, {i})
        BY <4>2 DEF ClosedUnder
      <4>4. i \in {i} /\ {i} \in SUBSET Ids
        BY <3>1
      <4>5. Inside(cloud, i) \subseteq {i}
        BY <4>3, <4>4, InsideLeast
      <4> QED
        BY <3>2, <4>5
    <3>4. listing[d] = Contents(cloud, d)
      BY <1>0, <1>1, <1>3, <3>1, <3>3 DEF ListingsAgree
    <3>5. \A k \in kept : k \in cloud /\ k.parent = d
      BY <1>1, <3>1, <3>4 DEF Contents
    <3>6. /\ d \in Ids => i \in Inside(cloud, d) /\ d \notin Inside(cloud, i)
          /\ root \notin Inside(cloud, i)
      BY <1>0, <3>1, <3>5, InFolder
    <3>7. y # root /\ (d \in Ids => y \in Inside(cloud, d) /\ y # d)
      <4>1. d \in Ids => Inside(cloud, i) \subseteq Inside(cloud, d)
        BY <1>0, <3>6, InsideTrans
      <4> QED
        BY <3>2, <3>6, <4>1
    <3>8. at # << >> => Below(d, y)
      BY <1>0, <3>1, <3>7, DirEntry DEF Below
    <3>9. /\ Unseen(y) /\ \A k \in DirIds \ {d} : ~InListing(y, k)
          /\ op # None /\ op.kind = "add" => y # op.meta.id /\ y # op.meta.parent
      BY <1>1, <3>1, <3>7, <3>8, UnloadedUnseen
    <3>10. ~InListing(y, d)
      <4> SUFFICES ASSUME InListing(y, d) PROVE FALSE
        OBVIOUS
      <4>1. PICK n \in cloud : n.id = y /\ n.parent = d
        BY <3>1, <3>4 DEF InListing, Contents
      <4>2. PICK k \in cloud : k.id = y /\ k.parent \in Inside(cloud, i)
        BY <1>0, <3>1, <3>2, InsideParent
      <4>3. d \in Inside(cloud, i)
        BY <1>0, <4>1, <4>2, CloudOnce
      <4> QED
        BY <3>6, <4>3, InsideIds
    <3> QED
      BY <1>2, <1>6, <3>9, <3>10
  <2> QED
    BY <1>1, <2>2, <2>3
<1>18. RootAbove'
  <2> SUFFICES ASSUME NEW x \in Ids, Mentioned(x)' PROVE root \notin Inside(cloud, x)
    BY <1>3 DEF RootAbove
  <2>1. InListing(x, d) => Mentioned(x)
    BY DEF Mentioned
  <2>2. (\E e \in DirIds : \E c \in Kids(e)' : c.id = x) => Mentioned(x)
    BY <1>2, <1>6, <2>1 DEF Mentioned
  <2>3. (\E r \in DOMAIN path_map' : path_map'[r].id = x) => Mentioned(x)
    BY <1>3, <1>6, <2>1 DEF Mentioned
  <2>4. Mentioned(x)
    BY <1>3, <1>6, <2>2, <2>3 DEF Mentioned
  <2> QED
    BY <1>0, <2>4 DEF RootAbove
<1>19. OpSound'
  <2> SUFFICES ASSUME op # None PROVE OpSound'
    BY <1>3 DEF OpSound
  <2>0. /\ op.dirs = {Front(op.path)} \cup (IF op.kind = "move" THEN {Front(op.to)} ELSE {})
        /\ OpClean(op) \/ \A r \in op.dirs : ~Clean(r)
        /\ op.dirs \subseteq Path
    BY <1>0 DEF OpSound, OpInv
  <2>1. OpClean(op) => OpClean(op)' /\ \A r \in op.dirs : DirAt(r)' = DirAt(r)
    <3> SUFFICES ASSUME OpClean(op), NEW r \in op.dirs
                 PROVE  (IsDir(r) /\ Clean(r) /\ DirAt(r) \in loaded)' /\ DirAt(r)' = DirAt(r)
      BY <1>3 DEF OpClean
    <3> PICK e : e = DirAt(r)
      OBVIOUS
    <3>1. CleanDir(r, e) /\ e \in loaded /\ e \in DirIds /\ r \in Path
      BY <1>0, <2>0 DEF OpClean, CleanDir, IndexOK
    <3>2. CleanDir(r, e)'
      BY <1>1, <3>1
    <3> QED
      BY <1>3, <3>1, <3>2 DEF CleanDir
  <2>2. OpClean(op)' \/ \A r \in op.dirs : ~Clean(r)'
    BY <1>7, <2>0, <2>1
  <2>3. OpClean(op)' => OpClean(op)
    BY <1>3, <1>7, <2>0 DEF OpClean
  <2>4. ASSUME NEW r \in Path, r # << >>, OpClean(op), Front(r) \in op.dirs, r \notin DOMAIN path_map
        PROVE  r \notin DOMAIN path_map'
    <3> SUFFICES ASSUME NEW x \in kept, r = Append(at, x.name) PROVE FALSE
      BY <1>3, <2>4
    <3>1. Front(r) = at /\ at \in op.dirs
      BY <1>5, <2>4
    <3>2. Clean(at) /\ DirAt(at) \in loaded
      BY <2>4, <3>1 DEF OpClean
    <3> QED
      BY <1>1, <1>4, <3>2 DEF CleanDir
  <2>5. ASSUME op.kind = "add" PROVE
         /\ op.meta.parent \in Ids => op.meta.parent <= lastId
         /\ \A r \in Path : CleanDir(r, op.meta.parent)' => r = Front(op.path)
         /\ \A q \in Path, m \in Entry : CleanEntry(q, m)' => m.id # op.meta.id
    <3>1. PICK k \in DirIds : k = op.meta.parent
      BY <1>0, <2>5 DEF OpInv, Entry
    <3>2. ASSUME NEW r \in Path, CleanDir(r, k)' PROVE r = Front(op.path)
      <4>1. CleanDir(r, k)
        BY <1>1, <1>4, <2>5, <3>1, <3>2
      <4> QED
        BY <1>0, <2>5, <3>1, <4>1 DEF OpSound
    <3>3. \A r \in Path : CleanDir(r, op.meta.parent)' <=> CleanDir(r, k)'
      BY <1>3, <3>1 DEF CleanDir
    <3>4. ASSUME NEW q \in Path, NEW m \in Entry, CleanEntry(q, m)' PROVE m.id # op.meta.id
      BY <1>0, <1>1, <1>4, <2>5, <3>4 DEF OpSound
    <3> QED
      BY <1>0, <2>5, <3>2, <3>3, <3>4 DEF OpSound
  <2>6. ASSUME op.kind = "add", OpClean(op) PROVE
              /\ op.path \notin DOMAIN path_map'
              /\ op.meta.parent = DirAt(Front(op.path))' /\ op.meta.name = Last(op.path)
              /\ Unseen(op.meta.id)' /\ \A e \in DirIds : ~InListing(op.meta.id, e)'
              /\ \A e \in cloud : e.parent # op.meta.id
    <3> PICK f : f = Front(op.path)
      OBVIOUS
    <3> PICK k : k = op.meta.id
      OBVIOUS
    <3>1. /\ op.path \notin DOMAIN path_map
          /\ op.meta.parent = DirAt(f) /\ op.meta.name = Last(op.path)
          /\ Unseen(k) /\ \A e \in DirIds : ~InListing(k, e)
          /\ \A e \in cloud : e.parent # k
      BY <1>0, <2>6 DEF OpSound
    <3>2. k \in Ids /\ f \in op.dirs /\ op.path \in Path /\ op.path # << >>
      BY <1>0, <2>0, <2>6 DEF OpInv, Entry
    <3>3. DirAt(f)' = DirAt(f) /\ Unseen(k)' /\ \A e \in DirIds : ~InListing(k, e)'
      BY <1>2, <1>6, <2>1, <2>6, <3>1, <3>2
    <3>4. op'.path = op.path /\ op'.meta = op.meta
      BY <1>3
    <3>5. DirAt(Front(op.path))' = DirAt(f)'
      BY <3>4
    <3>6. op.path \notin DOMAIN path_map'
      BY <2>4, <2>6, <3>1, <3>2
    <3> QED
      BY <3>1, <3>3, <3>4, <3>5, <3>6
  <2>7. op.kind = "remove" /\ OpClean(op) => \A e \in cloud : e.id # path_map'[op.path].id
    <3> SUFFICES ASSUME op.kind = "remove", OpClean(op)
                 PROVE  \A e \in cloud : e.id # path_map'[op.path].id
      OBVIOUS
    <3>1. path_map'[op.path] = path_map[op.path]
      BY <1>9, <2>0 DEF OpClean
    <3> QED
      BY <1>0, <3>1 DEF OpSound
  <2>8. op.kind = "move" => /\ ~IsPrefix(op.path, op.to)
                            /\ OpClean(op) => op.to \notin DOMAIN path_map'
    BY <1>0, <2>0, <2>4 DEF OpSound, OpInv
  <2> QED
    BY <1>3, <2>0, <2>2, <2>3, <2>5, <2>6, <2>7, <2>8 DEF OpSound
<1> QED
  BY <1>11, <1>12, <1>13, <1>14, <1>15, <1>16, <1>17, <1>18, <1>19, SettledParts

-----------------------------------------------------------------------------
(* What has been looked up, while listings arrive.                           *)

\* A step that adds to the index only what the request cannot be about.
LEMMA AskSoundKept ==
  ASSUME IndexOK, AskInv, AskSound, root # None, ask' = ask, root' = root, cloud' = cloud,
         loose \subseteq loose', loaded \subseteq loaded',
         \A p \in Path, e \in DirIds : CleanDir(p, e) /\ e \in loaded => CleanDir(p, e)',
         \A y \in {root} \cup Ids : Apart(y) =>
           Apart(y)' /\ \A x \in Path : CleanDir(x, y)' => CleanDir(x, y),
         \A y \in Ids : Apart(y) => \A q \in Path, m \in Entry : CleanEntry(q, m)' /\ m.id = y =>
           \E n \in Entry : CleanEntry(q, n) /\ n.id = y,
         \A r \in DOMAIN path_map : Clean(Front(r))' =>
           path_map'[r].id = path_map[r].id /\ path_map'[r].dir = path_map[r].dir,
         \A r \in Path, e \in DirIds :
           r # << >> /\ CleanDir(Front(r), e) /\ e \in loaded /\ r \notin DOMAIN path_map =>
             r \notin DOMAIN path_map',
         \A e \in loaded : Kids(e) = {} => Kids(e)' = {}
  PROVE  AskSound'
<1> SUFFICES ASSUME ask # None PROVE AskSound'
  BY DEF AskSound
<1> PICK p : p = ask.path
  OBVIOUS
<1>1. /\ ask.kind \in {"add", "remove", "move"} /\ p \in Path /\ p # << >> /\ ask.dirs \subseteq Path
      /\ ask.kind # "add" => p \in DOMAIN path_map /\ ask.id \in Ids
      /\ ask.kind = "move" => ask.to \in Path /\ ask.to # << >>
  BY DEF AskInv
<1>2. \A r : Clean(r)' => Clean(r)
  BY CleanShrinks
<1>3. ASSUME NEW r \in Path, IsDir(r), Clean(r), DirAt(r) \in loaded
      PROVE  IsDir(r)' /\ Clean(r)' /\ DirAt(r)' = DirAt(r) /\ DirAt(r)' \in loaded'
  <2> PICK e : e = DirAt(r)
    OBVIOUS
  <2>1. e \in DirIds /\ CleanDir(r, e)
    BY <1>3 DEF IndexOK, CleanDir
  <2>2. CleanDir(r, e)'
    BY <1>3, <2>1
  <2>3. IsDir(r)' /\ Clean(r)' /\ DirAt(r)' = e
    BY <2>2 DEF CleanDir
  <2> QED
    BY <1>3, <2>3
<1>4. ask.sure => OpClean(ask) /\ OpClean(ask)'
  <2> SUFFICES ASSUME ask.sure PROVE OpClean(ask) /\ OpClean(ask)'
    OBVIOUS
  <2>1. OpClean(ask)
    BY DEF AskSound
  <2>2. \A r \in ask.dirs : IsDir(r)' /\ Clean(r)' /\ DirAt(r)' \in loaded'
    BY <1>1, <1>3, <2>1 DEF OpClean
  <2> QED
    BY <2>1, <2>2 DEF OpClean
\* The folder into which an entry is to come, and its name there.
<1>5. ASSUME NEW r \in Path, r # << >>, NEW d, OnlyAt(d, Front(r))
      PROVE  OnlyAt(d, Front(r))'
  <2> PICK f : f = Front(r)
    OBVIOUS
  <2>1. d \in {root} \cup Ids /\ Apart(d) /\ \A x \in Path : CleanDir(x, d) => x = f
    BY <1>5 DEF OnlyAt
  <2>2. Apart(d)' /\ \A x \in Path : CleanDir(x, d)' => x = f
    BY <2>1
  <2>3. OnlyAt(d, f)'
    BY <2>1, <2>2 DEF OnlyAt
  <2>4. Front(r)' = f
    OBVIOUS
  <2> QED
    BY <2>3
<1>6. ASSUME NEW r \in Path, r # << >>, NEW d, Front(r) \in ask.dirs, ask.sure, DirAt(Front(r)) = d,
             r \notin DOMAIN path_map
      PROVE  DirAt(Front(r))' = d /\ r \notin DOMAIN path_map'
  <2> PICK f : f = Front(r)
    OBVIOUS
  <2>1. f \in Path /\ IsDir(f) /\ Clean(f) /\ d \in loaded /\ DirAt(f) = d
    BY <1>1, <1>4, <1>6 DEF OpClean
  <2>2. DirAt(f)' = d
    BY <1>3, <2>1
  <2>3. r \notin DOMAIN path_map'
    <3>1. CleanDir(f, d) /\ d \in DirIds
      BY <2>1 DEF CleanDir, IndexOK
    <3> QED
      BY <1>6, <2>1, <3>1
  <2> QED
    BY <2>2, <2>3
<1>7. CASE ask.kind = "add"
  <2>1. /\ ask.dirs = {Front(p)} /\ OnlyAt(ask.parent, Front(p))
        /\ ask.sure => DirAt(Front(p)) = ask.parent /\ p \notin DOMAIN path_map
    BY <1>7 DEF AskSound
  <2>2. OnlyAt(ask.parent, Front(p))'
    BY <1>1, <1>5, <2>1
  <2>3. ask.sure => DirAt(Front(p))' = ask.parent /\ p \notin DOMAIN path_map'
    BY <1>1, <1>6, <2>1
  <2> QED
    BY <1>4, <1>7, <2>1, <2>2, <2>3 DEF AskSound
<1>8. CASE ask.kind # "add"
  <2> PICK i : i = ask.id
    OBVIOUS
  <2>1. /\ Apart(i) /\ root \notin Inside(cloud, i) /\ i \in Ids
        /\ \A q \in Path, m \in Entry : CleanEntry(q, m) /\ m.id = i => q = p
        /\ Clean(Front(p)) => path_map[p].id = i
    BY <1>1, <1>8 DEF AskSound
  <2>2. Apart(i)' /\ root' \notin Inside(cloud', i)
    BY <2>1
  <2>3. \A q \in Path, m \in Entry : CleanEntry(q, m)' /\ m.id = i => q = p
    BY <2>1
  <2>4. Clean(Front(p))' => path_map'[p].id = i /\ path_map'[p].dir = path_map[p].dir /\ Clean(Front(p))
    BY <1>1, <1>2, <1>8, <2>1
  <2>5. CASE ask.kind = "remove"
    <3>1. ask.dirs = {Front(p)}
      BY <2>5 DEF AskSound
    <3>2. ask.listed /\ Clean(Front(p))' /\ path_map'[p].dir => i \in loaded' /\ Kids(i)' = {}
      <4> SUFFICES ASSUME ask.listed, Clean(Front(p))', path_map'[p].dir
                   PROVE  i \in loaded' /\ Kids(i)' = {}
        OBVIOUS
      <4>1. Clean(Front(p)) /\ path_map[p].dir
        BY <2>4
      <4>2. i \in loaded /\ Kids(i) = {}
        BY <2>5, <4>1 DEF AskSound
      <4> QED
        BY <4>2
    <3> QED
      BY <1>4, <2>2, <2>3, <2>4, <2>5, <3>1, <3>2 DEF AskSound
  <2>6. CASE ask.kind = "move"
    <3> PICK q : q = ask.to
      OBVIOUS
    <3>1. /\ ask.dirs = {Front(p), Front(q)} /\ ~IsPrefix(p, q) /\ OnlyAt(ask.parent, Front(q))
          /\ ask.sure => DirAt(Front(q)) = ask.parent /\ q \notin DOMAIN path_map
          /\ q \in Path /\ q # << >>
      BY <1>1, <2>6 DEF AskSound
    <3>2. OnlyAt(ask.parent, Front(q))'
      BY <1>5, <3>1
    <3>3. ask.sure => DirAt(Front(q))' = ask.parent /\ q \notin DOMAIN path_map'
      BY <1>6, <3>1
    <3> QED
      BY <1>4, <2>2, <2>3, <2>4, <2>6, <3>1, <3>2, <3>3 DEF AskSound
  <2> QED
    BY <1>1, <1>8, <2>5, <2>6
<1> QED
  BY <1>7, <1>8

\* A step that leaves the index alone and lists nothing but what is in a folder.
LEMMA AskSoundListed ==
  ASSUME CloudOK, IndexOK, RootAbove, AskInv, AskSound, root # None, ask' = ask, cloud' = cloud,
         UNCHANGED <<root, index>>, loose' = loose, loaded' = loaded,
         \A d \in DirIds : \A y : InListing(y, d)' =>
           InListing(y, d) \/ \E e \in cloud : e.id = y /\ e.parent = Real(d)
  PROVE  AskSound'
<1>1. /\ path_map' = path_map /\ children_map' = children_map /\ root' = root
      /\ \A x : Kids(x)' = Kids(x)
      /\ \A p : IsDir(p)' = IsDir(p) /\ DirAt(p)' = DirAt(p)
  BY SameIndex
<1>2. /\ \A p : Clean(p)' <=> Clean(p)
      /\ \A p, x : CleanDir(p, x)' <=> CleanDir(p, x)
      /\ \A p, x : CleanEntry(p, x)' <=> CleanEntry(p, x)
  BY <1>1 DEF Clean, CleanDir, CleanEntry
<1>3. ASSUME NEW y, Apart(y) PROVE Apart(y)'
  <2> SUFFICES ASSUME NEW x \in Path, NEW e \in DirIds, CleanDir(x, e), e \notin loaded
               PROVE  ~Below(e, y)' /\ (x = << >> => y = root)
    BY <1>1, <1>2 DEF Apart
  <2>1. ~Below(e, y) /\ (x = << >> => y = root)
    BY <1>3 DEF Apart
  <2>2. ~InListing(y, e)'
    <3> SUFFICES ASSUME NEW m \in cloud, m.id = y, m.parent = Real(e) PROVE FALSE
      BY <2>1 DEF Below
    <3>1. y # root /\ y # e /\ (e \in Ids => y \in Inside(cloud, e))
      BY InFolder
    <3>2. x # << >> => e \in Ids
      BY FolderId
    <3> QED
      BY <2>1, <3>1, <3>2 DEF Below
  <2> QED
    BY <2>1, <2>2 DEF Below
<1> QED
  BY <1>1, <1>2, <1>3, AskSoundKept

LEMMA FetchAsks ==
  ASSUME NEW D \in SUBSET Ids, NsInv(D), Settled(D), AskSound, root # None, NEW d \in DirIds,
         Fetch(d) \/ FetchFails(d)
  PROVE  AskSound'
<1>0. CloudOK /\ IndexOK /\ RootAbove /\ AskInv
  BY PartsOf DEF NsInv
<1>1. /\ ask' = ask /\ cloud' = cloud /\ UNCHANGED <<root, index>> /\ loose' = loose
      /\ loaded' = loaded
      /\ listing' = [listing EXCEPT ![d] = Contents(cloud, d)] \/ listing' = [listing EXCEPT ![d] = None]
  BY DEF Fetch, FetchFails, LoadedAfterFailure, ListFiles, server
<1>2. ASSUME NEW e \in DirIds, NEW y, InListing(y, e)'
      PROVE  InListing(y, e) \/ \E m \in cloud : m.id = y /\ m.parent = Real(e)
  BY <1>0, <1>1, <1>2 DEF IndexOK, InListing, Contents
<1> QED
  BY <1>0, <1>1, <1>2, AskSoundListed

\* The new size changes no id.
LEMMA FlushAsks ==
  ASSUME NEW D \in SUBSET Ids, NsInv(D), Settled(D), AskSound, root # None,
         NEW p \in DOMAIN path_map, Flush(p)
  PROVE  AskSound'
<1>0. IndexOK /\ Nested /\ AskInv
  BY PartsOf DEF NsInv
<1>1. /\ UpdateMeta(p) /\ loose' = loose /\ root' = root /\ cloud' = cloud
      /\ loaded' = loaded /\ listing' = listing /\ ask' = ask
  BY DEF Flush, server, loading
<1>2. /\ \A r \in Path, x \in Entry : CleanEntry(r, x)' =>
           \E y \in Entry : CleanEntry(r, y) /\ Alike(y, x)
      /\ \A d \in DirIds : Kids(d) = {} => Kids(d)' = {}
  BY <1>0, <1>1, UpdateNests
<1>3. /\ DOMAIN path_map' = DOMAIN path_map
      /\ \A q \in DOMAIN path_map : path_map'[q].id = path_map[q].id /\ path_map'[q].dir = path_map[q].dir
  BY <1>0, <1>1, UpdateMetaIs
<1>4. /\ \A r, d : CleanDir(r, d)' <=> CleanDir(r, d)
      /\ \A e, y : Below(e, y)' <=> Below(e, y)
  <2>1. /\ \A r : IsDir(r)' <=> IsDir(r)
        /\ \A r : IsDir(r) => DirAt(r)' = DirAt(r)
        /\ \A r : Clean(r)' <=> Clean(r)
    BY <1>1, <1>3 DEF IsDir, DirAt, Clean
  <2> QED
    BY <1>1, <2>1 DEF CleanDir, Below, InListing
<1>5. \A y : Apart(y) => Apart(y)'
  BY <1>1, <1>4 DEF Apart
<1>6. \A y \in Ids : \A q \in Path, m \in Entry : CleanEntry(q, m)' /\ m.id = y =>
        \E n \in Entry : CleanEntry(q, n) /\ n.id = y
  BY <1>2 DEF Alike
<1>7. loaded \subseteq DirIds
  BY <1>0 DEF IndexOK
<1> QED
  BY <1>0, <1>1, <1>2, <1>3, <1>4, <1>5, <1>6, <1>7, AskSoundKept

\* A listing brings into the index only what the request is not about.
LEMMA MergeAsks ==
  ASSUME NEW D \in SUBSET Ids, NsInv(D), Settled(D), AskSound, root # None, NEW d \in DirIds, Merge(d)
  PROVE  AskSound'
<1>0. /\ CloudOK /\ IndexOK /\ root \in DirIds /\ AskInv /\ ListingsAgree /\ RootAbove
      /\ \A e \in cloud : e.id \in Ids
  BY PartsOf DEF NsInv
<1> SUFFICES ASSUME ask # None PROVE AskSound'
  <2>1. ask' = ask
    BY DEF Merge
  <2> QED
    BY <2>1 DEF AskSound
<1> PICK kept : kept = Placed(d)
  OBVIOUS
<1> PICK at : at = PathTo(d)
  OBVIOUS
<1>1. /\ d \notin loaded /\ kept \subseteq listing[d] /\ kept \subseteq Entry
      /\ (kept # {} => at \in Path)
      /\ (kept # {} /\ Clean(at)' => DistinctNames(kept) /\ Clean(at))
      /\ \A q \in Path, m \in Entry : CleanEntry(q, m) =>
           q \in DOMAIN path_map' /\ path_map'[q] = m
      /\ \A p \in Path, e \in DirIds : CleanDir(p, e) /\ e \in loaded => CleanDir(p, e)'
      /\ \A q \in Path, m \in Entry : CleanEntry(q, m)' =>
           CleanEntry(q, m) \/ (m \in kept /\ q = Append(at, m.name) /\ Clean(at)')
      /\ \A p \in Path : \A e : CleanDir(p, e)' =>
           \/ CleanDir(p, e)
           \/ \E x \in kept : p = Append(at, x.name) /\ e = x.id /\ x.dir /\ Clean(at)'
  BY MergeFacts
<1>2. \A e \in DirIds : Kids(e)' = Kids(e) \cup (IF e = Real(d) THEN kept ELSE {})
  BY MergeKids
<1>3. /\ DOMAIN path_map' = DOMAIN path_map \cup {Append(at, m.name) : m \in kept}
      /\ listing[d] # None /\ listing' = [listing EXCEPT ![d] = None]
      /\ loaded' = loaded \cup {d} /\ cloud' = cloud /\ root' = root
      /\ ask' = ask /\ op = None
  <2>1. /\ DOMAIN path_map' = DOMAIN path_map \cup {Append(PathTo(d), m.name) : m \in Placed(d)}
        /\ listing[d] # None /\ listing' = [listing EXCEPT ![d] = None]
        /\ loaded' = loaded \cup {d} /\ UNCHANGED <<server, root, ask, op, changes, errors>>
    BY <1>0, MergeIs
  <2> QED
    BY <1>0, <2>1 DEF server, AskInv
<1>4. kept # {} /\ Clean(at) =>
        /\ CleanDir(at, d) /\ Real(d) = d /\ at \in Path
        /\ \A x \in kept : x.id \in Ids /\ InListing(x.id, d) /\ Unseen(x.id) /\ x.id # d
  BY MergeKept
<1>5. \A x \in kept : Append(at, x.name) \in Path /\ Front(Append(at, x.name)) = at
                      /\ Append(at, x.name) # << >>
  BY <1>1, AppendPath DEF Entry
<1>6. /\ loose \subseteq loose' /\ \A p : Clean(p)' => Clean(p)
      /\ \A e \in DirIds : \A y : InListing(y, e)' => InListing(y, e)
  <2>1. loose' = IF DistinctNames(Placed(d)) THEN loose ELSE loose \cup {PathTo(d)}
    BY <1>0, MergeIs
  <2>2. loose \subseteq loose'
    BY <2>1
  <2>3. \A p : Clean(p)' => Clean(p)
    BY <2>2, CleanShrinks
  <2>4. \A e \in DirIds : \A y : InListing(y, e)' => InListing(y, e)
    BY <1>0, <1>3 DEF IndexOK, InListing
  <2> QED
    BY <2>2, <2>3, <2>4
\* The new records are of ids that the request does not have.
<1>7. ASSUME NEW y, Apart(y), NEW k \in kept, Clean(at)' PROVE y # k.id
  BY <1>1, <1>4, <1>7 DEF Apart, Below
<1>8. ASSUME NEW y \in {root} \cup Ids, Apart(y) PROVE Apart(y)'
  <2> SUFFICES ASSUME NEW x \in Path, NEW e \in DirIds, CleanDir(x, e)', e \notin loaded',
                      Below(e, y)' \/ (x = << >> /\ y # root)
               PROVE  FALSE
    BY <1>3 DEF Apart
  <2>1. Below(e, y)' => Below(e, y)
    BY <1>3, <1>6 DEF Below
  <2>2. CASE CleanDir(x, e)
    BY <1>3, <1>8, <2>1, <2>2 DEF Apart
  <2>3. CASE ~CleanDir(x, e)
    <3>1. PICK k \in kept : x = Append(at, k.name) /\ e = k.id /\ Clean(at)'
      BY <1>1, <2>3
    <3>2. /\ CleanDir(at, d) /\ at \in Path /\ InListing(e, d) /\ Unseen(e) /\ e \in Ids /\ e # d
          /\ x # << >>
      BY <1>1, <1>4, <1>5, <3>1
    <3>3. y \in Inside(cloud, e) /\ y # e
      BY <2>1, <3>2 DEF Below, InListing, Unseen
    <3>4. y # root
      BY <1>0, <3>2, <3>3 DEF RootAbove, Mentioned
    <3>5. at # << >> /\ ~Below(d, y)
      BY <1>1, <1>8, <3>2, <3>4 DEF Apart
    <3>6. listing[d] = Contents(cloud, d)
      BY <1>0, <1>1, <1>3, <3>2 DEF ListingsAgree, Doomed
    <3>7. k \in cloud /\ k.parent = Real(d)
      BY <1>1, <3>1, <3>6 DEF Contents
    <3>8. d \in Ids
      BY <1>0, <3>2, <3>5, FolderId
    <3>9. e \in Inside(cloud, d) /\ d \notin Inside(cloud, e)
      BY <1>0, <3>1, <3>2, <3>7, <3>8, InFolder
    <3>10. Inside(cloud, e) \subseteq Inside(cloud, d)
      BY <1>0, <3>9, InsideTrans
    <3> QED
      BY <3>3, <3>5, <3>9, <3>10 DEF Below
  <2> QED
    BY <2>2, <2>3
<1>9. ASSUME NEW y, Apart(y), NEW x \in Path, CleanDir(x, y)' PROVE CleanDir(x, y)
  BY <1>1, <1>7, <1>9
<1>10. ASSUME NEW y \in Ids, Apart(y), NEW q \in Path, NEW m \in Entry, CleanEntry(q, m)', m.id = y
       PROVE  CleanEntry(q, m)
  BY <1>1, <1>7, <1>10
<1>11. ASSUME NEW r \in DOMAIN path_map, Clean(Front(r))'
       PROVE  path_map'[r] = path_map[r]
  <2>1. r \in Path /\ path_map[r] \in Entry /\ Clean(Front(r))
    BY <1>0, <1>6, <1>11 DEF IndexOK
  <2> QED
    BY <1>1, <2>1 DEF CleanEntry
<1>12. ASSUME NEW r \in Path, NEW e \in DirIds, CleanDir(Front(r), e), e \in loaded,
              r \notin DOMAIN path_map, r \in DOMAIN path_map'
       PROVE  FALSE
  <2>1. PICK k \in kept : r = Append(at, k.name)
    BY <1>3, <1>12
  <2>2. Front(r) = at
    BY <1>5, <2>1
  <2>3. Clean(at) /\ DirAt(at) = e
    BY <1>12, <2>2 DEF CleanDir
  <2>4. e = d
    BY <1>4, <2>1, <2>3 DEF CleanDir
  <2> QED
    BY <1>1, <1>12, <2>4
<1>13. ASSUME NEW e \in loaded, Kids(e) = {} PROVE Kids(e)' = {}
  <2>1. e \in DirIds
    BY <1>0 DEF IndexOK
  <2>2. kept # {} => Real(d) = d
    BY <1>3, MergeAt
  <2> QED
    BY <1>1, <1>2, <1>13, <2>1, <2>2
<1> QED
  BY <1>0, <1>1, <1>3, <1>6, <1>8, <1>9, <1>10, <1>11, <1>12, <1>13, AskSoundKept

-----------------------------------------------------------------------------
(* The invariant is inductive.                                               *)

\* Every step below the mounted folder keeps the invariant.
LEMMA SettledKeeps ==
  ASSUME NEW D \in SUBSET Ids, NsInv(D), Settled(D), AskSound, NsNext
  PROVE  Settled(D)' /\ AskSound'
<1>1. Down /\ OpInv /\ AskInv /\ root # None
  BY NsRoot DEF NsInv
<1>2. ask' = None => AskSound'
  BY DEF AskSound
<1>3. ASSUME NEW p \in Path, NEW isDir \in BOOLEAN, p # << >>, Add(p, isDir)
      PROVE  Settled(D)' /\ AskSound'
  BY <1>1, <1>3, AddLooks
<1>4. ASSUME NEW p \in DOMAIN path_map, Delete(p), path_map[p].dir => ListDir(p) = {}
      PROVE  Settled(D)' /\ AskSound'
  BY <1>1, <1>4, DeleteLooks
<1>5. ASSUME NEW p \in DOMAIN path_map, NEW q \in Path, q # << >>, Rename(p, q)
      PROVE  Settled(D)' /\ AskSound'
  BY <1>1, <1>5, RenameLooks
<1>6. ASSUME NEW p \in DOMAIN path_map, Forget(p), ask = None, op = None
      PROVE  Settled(D)' /\ AskSound'
  <2>1. ask' = None
    BY <1>6 DEF Forget
  <2> QED
    BY <1>1, <1>2, <1>6, <2>1, ForgetSettles
<1>7. ASSUME ServeAdd PROVE Settled(D)' /\ AskSound'
  BY <1>1, <1>2, <1>7, ServeAddSettles DEF ServeAdd, Served
<1>8. ASSUME ServeRemove PROVE Settled(D)' /\ AskSound'
  BY <1>1, <1>2, <1>8, ServeRemoveSettles DEF ServeRemove, Served
<1>9. ASSUME ServeMove PROVE Settled(D)' /\ AskSound'
  BY <1>1, <1>2, <1>9, ServeMoveSettles DEF ServeMove, Served
<1>10. ASSUME RequestFails PROVE Settled(D)' /\ AskSound'
  BY <1>2, <1>10, RequestFailsSettles DEF RequestFails
<1>11. ASSUME Finish PROVE Settled(D)' /\ AskSound'
  <2>1. op \in Operation
    BY <1>1, <1>11 DEF Finish, OpInv
  <2>2. op.kind = "add" \/ op.kind = "remove" \/ op.kind = "move"
    BY <2>1 DEF Operation
  <2>3. ask' = None
    BY <1>1, <1>11 DEF Finish, AskInv
  <2> QED
    BY <1>1, <1>2, <1>11, <2>2, <2>3, AddAnswerSettles, RemoveAnswerSettles, MoveAnswerSettles
<1>12. ASSUME AnswerLost PROVE Settled(D)' /\ AskSound'
  <2>1. ask' = None
    BY <1>1, <1>12 DEF AnswerLost, AskInv
  <2> QED
    BY <1>1, <1>2, <1>12, <2>1, AnswerLostSettles
<1>13. ASSUME NEW p \in DOMAIN path_map, Flush(p) PROVE Settled(D)' /\ AskSound'
  BY <1>1, <1>13, FlushSettles, FlushAsks
<1>14. ASSUME NEW d \in DirIds, Fetch(d) PROVE Settled(D)' /\ AskSound'
  BY <1>1, <1>14, FetchSettles, FetchAsks
<1>15. ASSUME NEW d \in DirIds, FetchFails(d) PROVE Settled(D)' /\ AskSound'
  BY <1>1, <1>15, FetchFailsSettles, FetchAsks
<1>16. ASSUME NEW d \in DirIds, Merge(d) PROVE Settled(D)' /\ AskSound'
  BY <1>1, <1>16, MergeSettles, MergeAsks
<1> QED
  BY <1>1, <1>3, <1>4, <1>5, <1>6, <1>7, <1>8, <1>9, <1>10, <1>11, <1>12, <1>13, <1>14, <1>15,
     <1>16, NsSteps

\* Only the folders that may be listed depend on the set.
LEMMA SettledGrows ==
  ASSUME NEW D, NEW E, D \subseteq E, Settled(D)'
  PROVE  Settled(E)'
<1>1. ListingsNew(D)' => ListingsNew(E)'
  BY DEF ListingsNew
<1> QED
  BY <1>1 DEF Settled

\* As long as nothing is listed nothing can be wrong.
LEMMA FreshSettled ==
  ASSUME NEW D, DOMAIN path_map' = {}, DOMAIN id_map' = {}, loaded' = {}, op' = None,
         root' \in DirIds, \A d \in DirIds : listing'[d] = None /\ Kids(d)' = {},
         root' = Keyword => Contents(cloud', Top) = {}
  PROVE  Settled(D)'
<1>1. \A p, d : CleanDir(p, d)' => p = << >> /\ d = root'
  BY DEF CleanDir, IsDir, DirAt
<1>2. \A q, m : ~CleanEntry(q, m)'
  BY DEF CleanEntry
<1>3. \A i : \A d \in DirIds : ~InListing(i, d)'
  BY DEF InListing
<1>4. PathsNest' /\ IdsOnce'
  BY <1>2 DEF PathsNest, IdsOnce
<1>5. IdsLead' /\ KidsNamed'
  BY DEF IdsLead, KidsNamed
<1>6. Nested'
  BY <1>4, <1>5 DEF Nested
<1>7. ListingsNew(D)'
  <2>1. Ids \subseteq DirIds
    BY DEF DirIds
  <2> QED
    BY <1>2, <2>1 DEF ListingsNew
<1>8. LoadedAgree' /\ ListingsAgree' /\ DoomedGone'
  BY DEF LoadedAgree, ListingsAgree, DoomedGone, Doomed
<1>9. NothingLoaded'
  BY DEF NothingLoaded
<1>10. BelowUnseen'
  BY <1>1 DEF BelowUnseen
<1>11. RootAbove'
  BY <1>3 DEF RootAbove, Mentioned
<1>12. OpSound'
  BY DEF OpSound
<1> QED
  BY <1>6, <1>7, <1>8, <1>9, <1>10, <1>11, <1>12, SettledParts

\* Of the folders there have been, the types and the agreement of the index; and
\* what is left of a look-up.
SettledInv ==
  /\ \E D \in SUBSET Ids : NsInv(D) /\ Settled(D)
  /\ root # None => AskSound

\* Nothing is mounted after the step.
LEMMA DownSettled ==
  ASSUME MountInv', root' = None
  PROVE  SettledInv'
<1>1. PICK D \in SUBSET Ids : NsInv(D)'
  BY DEF MountInv
<1>2. Settled(D)'
  BY DEF Settled
<1> QED
  BY <1>1, <1>2 DEF SettledInv

\* The step mounts the folder, or goes on looking for it.
LEMMA MountSettled ==
  ASSUME MountInv, MountInv', root = None, UNCHANGED <<index, loading, ask, op>>,
         root' = Keyword => Contents(cloud', Top) = {}
  PROVE  SettledInv'
<1>1. CASE root' = None
  BY <1>1, DownSettled
<1>2. CASE root' # None
  <2>1. PICK D \in SUBSET Ids : NsInv(D)'
    BY DEF MountInv
  <2>2. /\ DOMAIN path_map = {} /\ DOMAIN id_map = {} /\ ask = None /\ op = None /\ loaded = {}
        /\ \A d \in DirIds : Kids(d) = {} /\ listing[d] = None
    BY DEF MountInv, NsInv, Down
  <2>3. /\ DOMAIN path_map' = {} /\ DOMAIN id_map' = {} /\ op' = None /\ loaded' = {}
        /\ \A d \in DirIds : Kids(d)' = {} /\ listing'[d] = None
    BY <2>2 DEF index, loading, Kids
  <2>4. root' \in DirIds
    BY <1>2, <2>1 DEF NsInv, IndexOK
  <2>5. Settled(D)'
    BY <2>3, <2>4, FreshSettled
  <2>6. AskSound'
    BY <2>2 DEF AskSound
  <2> QED
    BY <2>1, <2>5, <2>6 DEF SettledInv
<1> QED
  BY <1>1, <1>2

LEMMA DiscoverSettles ==
  ASSUME MountInv, MountInv', DiscoverRoot
  PROVE  SettledInv'
<1> DEFINE found == IF ListFiles(Keyword) # {} THEN Top ELSE Keyword
<1>1. /\ phase = "discover" /\ UNCHANGED <<server, index, loading, ask, op>>
      /\ \/ mode = "container" /\ MountAt(found)
         \/ mode = "id" /\ MountAt(GivenId)
         \/ mode = "name" /\ UNCHANGED root
  BY DEF DiscoverRoot
<1>2. root = None
  BY <1>1 DEF MountInv, StartOK
<1>3. Contents(cloud, Keyword) = Contents(cloud, Top) /\ cloud' = cloud
  BY <1>1 DEF Contents, Real, server
<1>4. found = Keyword => Contents(cloud', Top) = {}
  <2>1. Top # Keyword
    BY SentinelAssumption DEF Top
  <2> QED
    BY <1>3, <2>1 DEF ListFiles
<1> HIDE DEF found
<1>5. mode = "id" => GivenId \in Ids
  BY DEF MountInv, Given
<1>6. Keyword \notin Ids /\ Keyword # None
  BY SentinelAssumption DEF Ids, DirIds
<1>7. root' = Keyword => Contents(cloud', Top) = {}
  BY <1>1, <1>2, <1>4, <1>5, <1>6 DEF MountAt
<1> QED
  BY <1>1, <1>2, <1>7, MountSettled

LEMMA LookupSettles ==
  ASSUME MountInv, MountInv', LookupPage
  PROVE  SettledInv'
<1>1. /\ phase = "lookup" /\ UNCHANGED <<server, index, loading, ask, op>>
      /\ UNCHANGED root \/ \E m \in NamedFolders(Page(page)) : MountAt(m.id)
  BY DEF LookupPage
<1>2. root = None
  BY <1>1 DEF MountInv, StartOK
<1>3. \A m \in NamedFolders(Page(page)) : m.id \in Ids
  BY DEF NamedFolders, Page, ListFiles, Contents, MountInv, NsInv, CloudOK
<1>4. Keyword \notin Ids /\ Keyword # None
  BY SentinelAssumption DEF Ids, DirIds
<1>5. root' # Keyword
  BY <1>1, <1>2, <1>3, <1>4 DEF MountAt
<1> QED
  BY <1>1, <1>2, <1>5, MountSettled

LEMMA CreateSettles ==
  ASSUME MountInv, MountInv', CreateRoot
  PROVE  SettledInv'
<1>1. phase = "create" /\ UNCHANGED <<index, loading, ask, op>> /\ root' = lastId + 1
  BY DEF CreateRoot, MountAt, CreatedFolder
<1>2. root = None
  BY <1>1 DEF MountInv, StartOK
<1>3. lastId \in Nat
  BY BoundAssumption DEF MountInv, NsInv, CloudOK
<1>4. root' # Keyword
  BY <1>1, <1>3, SentinelAssumption
<1> QED
  BY <1>1, <1>2, <1>4, MountSettled

\* So it does with the folders that there are after the step.
LEMMA OperationsSettle ==
  ASSUME SettledInv, NsNext
  PROVE  SettledInv'
<1>1. PICK D \in SUBSET Ids : NsInv(D) /\ Settled(D)
  BY DEF SettledInv
<1>2. PICK E \in SUBSET Ids : D \subseteq E /\ NsInv(E)'
  BY <1>1, NsInvKeeps
<1>3. AskSound
  BY <1>1, NsRoot DEF SettledInv, NsInv
<1>4. Settled(D)' /\ AskSound'
  BY <1>1, <1>3, SettledKeeps
<1>5. Settled(E)'
  BY <1>2, <1>4, SettledGrows
<1> QED
  BY <1>2, <1>4, <1>5 DEF SettledInv

LEMMA SettledStutters ==
  ASSUME SettledInv, UNCHANGED nsVars
  PROVE  SettledInv'
<1>1. PICK D \in SUBSET Ids : NsInv(D) /\ Settled(D)
  BY DEF SettledInv
<1>2. NsInv(D)'
  BY <1>1, NsStutters
<1>3. Settled(D)'
  BY <1>1, SameSettles DEF nsVars
<1>4. root' = root /\ (AskSound => AskSound')
  BY DEF nsVars, server, index, loading, AskSound, OpClean, OnlyAt, Apart, CleanDir, CleanEntry, Below,
         InListing, IsDir, Clean, DirAt, Kids
<1> QED
  BY <1>2, <1>3, <1>4 DEF SettledInv

-----------------------------------------------------------------------------
\* The three maps, the listings on their way and the tree of Drive Kit agree
\* through every step, of an operation, of a listing and of the process.
THEOREM SettledInvariant == Spec => [](MountInv /\ SettledInv)
<1>1. Init => SettledInv
  <2> SUFFICES ASSUME Init PROVE SettledInv
    OBVIOUS
  <2>1. MountInv /\ root = None
    BY InitHolds DEF Init
  <2> QED
    BY <2>1 DEF MountInv, SettledInv, Settled
<1>2. SettledInv /\ MountInv /\ MountInv' /\ [Next]_vars => SettledInv'
  <2> SUFFICES ASSUME SettledInv, MountInv, MountInv', [Next]_vars PROVE SettledInv'
    OBVIOUS
  <2>1. CASE Start
    BY <2>1, SettledStutters DEF Start
  <2>2. CASE DiscoverRoot
    BY <2>2, DiscoverSettles
  <2>3. CASE LookupPage
    BY <2>3, LookupSettles
  <2>4. CASE CreateRoot
    BY <2>4, CreateSettles
  <2>5. CASE StartFails
    <3>1. root' = None
      BY <2>5 DEF StartFails, MountInv, StartOK
    <3> QED
      BY <3>1, DownSettled
  <2>6. CASE Stop
    BY <2>6, DownSettled DEF Stop
  <2>7. CASE NsNext /\ UNCHANGED <<mode, startVars>>
    BY <2>7, OperationsSettle
  <2>8. CASE UNCHANGED vars
    BY <2>8, SettledStutters DEF vars
  <2> QED
    BY <2>1, <2>2, <2>3, <2>4, <2>5, <2>6, <2>7, <2>8 DEF Next
<1> QED
  BY <1>1, <1>2, MountInvariant, PTL DEF Spec

-----------------------------------------------------------------------------
(* What the invariant says of a folder that is looked at.                    *)

\* No operation on its way changes the folder or one above it.
LEMMA TrustedCalm ==
  ASSUME NEW D \in SUBSET Ids, NsInv(D), Settled(D), root # None, NEW p \in Path, Trusted(p)
  PROVE  CleanDir(p, DirAt(p)) /\ ~Doomed(p) /\ \A y : ~Leaving(p, y) /\ ~Coming(p, y)
<1>0. IndexOK /\ OpInv /\ OpSound
  BY PartsOf
<1>1. CleanDir(p, DirAt(p))
  BY DEF Trusted, CleanDir
<1>2. op # None => Front(op.path) \in op.dirs /\ (op.kind = "move" => Front(op.to) \in op.dirs)
  BY <1>0 DEF OpSound
<1>3. op # None => ~IsPrefix(Front(op.path), p)
  BY <1>2 DEF Trusted
<1>4. op # None /\ op.kind = "move" => ~IsPrefix(Front(op.to), p)
  BY <1>2 DEF Trusted
<1>5. IsPrefix(p, p)
  BY PrefixSelf
<1>6. \A y : ~Leaving(p, y) /\ ~Coming(p, y)
  BY <1>3, <1>4, <1>5 DEF Leaving, Coming
<1>7. ~Doomed(p)
  <2> SUFFICES ASSUME op # None, IsPrefix(op.path, p) PROVE FALSE
    BY DEF Doomed
  <2>1. PICK o : o = op.path
    OBVIOUS
  <2>2. o \in Path /\ o # << >>
    BY <1>0, <2>1 DEF OpInv
  <2>3. Front(o) \in Path /\ IsPrefix(Front(o), o)
    BY <2>2, FrontLast, PrefixSelf, PrefixFront
  <2>4. IsPrefix(Front(o), p)
    BY <2>1, <2>2, <2>3, PrefixTrans
  <2> QED
    BY <1>3, <2>1, <2>4
<1> QED
  BY <1>1, <1>6, <1>7

\* The loaded folder holds in Drive Kit what it holds in the index.
LEMMA LoadedHolds ==
  ASSUME NEW D \in SUBSET Ids, NsInv(D), Settled(D), root # None, NEW p \in Path, Trusted(p),
         NEW d, d = DirAt(p), d \in loaded
  PROVE  \A x \in Entry : /\ (\E c \in Kids(d) : Alike(c, x)) => Holds(d, x)
                          /\ Holds(d, x) /\ x.name \notin Hidden => \E c \in Kids(d) : Alike(c, x)
<1>0. LoadedAgree /\ IndexOK
  BY PartsOf
<1>1. CleanDir(p, d) /\ ~Doomed(p) /\ \A y : ~Leaving(p, y) /\ ~Coming(p, y)
  BY TrustedCalm
<1>2. d \in DirIds
  BY <1>0, <1>1, FolderId
<1>3. \A x \in Entry : WillHold(p, d, x) <=> \E c \in Kids(d) : Alike(c, x)
  BY <1>1 DEF WillHold
<1> QED
  BY <1>0, <1>1, <1>2, <1>3 DEF LoadedAgree

\* The folder agrees with Drive Kit.
LEMMA AgreesHere ==
  ASSUME NEW D \in SUBSET Ids, NsInv(D), Settled(D), root # None, NEW p \in Path, Trusted(p),
         DirAt(p) \in loaded
  PROVE  AgreesAt(p)
<1>0. /\ CloudOK /\ IndexOK /\ PathsNest /\ IdsOnce /\ KidsNamed
  BY PartsOf
<1>1. PICK d : d = DirAt(p)
  OBVIOUS
<1>2. CleanDir(p, d) /\ d \in DirIds /\ d \in loaded
  BY <1>0, <1>1, TrustedCalm, FolderId
<1>3. \A m \in cloud : m \in Entry
  <2>1. Top \in DirIds /\ Ids \subseteq DirIds
    BY DEF DirIds
  <2> QED
    BY <1>0, <2>1 DEF CloudOK, Entry
<1>4. \A c \in Kids(d) : c \in Entry
  BY <1>0, <1>2 DEF IndexOK
<1>5. {<<m.id, m.name, m.dir>> : m \in Visible(Contents(cloud, d))}
        = {<<c.id, c.name, c.dir>> : c \in Visible(Kids(d))}
  <2>1. ASSUME NEW m \in Visible(Contents(cloud, d))
        PROVE  \E c \in Visible(Kids(d)) : <<m.id, m.name, m.dir>> = <<c.id, c.name, c.dir>>
    <3>1. m \in cloud /\ m.parent = Real(d) /\ m.name \notin Hidden
      BY DEF Visible, Contents
    <3>2. Holds(d, m)
      BY <3>1 DEF Holds, Alike
    <3>3. PICK c \in Kids(d) : Alike(c, m)
      BY <1>1, <1>2, <1>3, <3>1, <3>2, LoadedHolds
    <3> QED
      BY <3>1, <3>3 DEF Alike, Visible
  <2>2. ASSUME NEW c \in Visible(Kids(d))
        PROVE  \E m \in Visible(Contents(cloud, d)) : <<m.id, m.name, m.dir>> = <<c.id, c.name, c.dir>>
    <3>1. c \in Kids(d) /\ c.name \notin Hidden /\ Alike(c, c)
      BY DEF Visible, Alike
    <3>2. Holds(d, c)
      BY <1>1, <1>2, <1>4, <3>1, LoadedHolds
    <3>3. PICK e \in cloud : e.parent = Real(d) /\ Alike(e, c)
      BY <3>2 DEF Holds
    <3> QED
      BY <3>1, <3>3 DEF Alike, Visible, Contents
  <2> QED
    BY <2>1, <2>2
<1>6. \A c, e \in Kids(d) : c.id = e.id => c = e
  BY <1>0, <1>2, SameFolderOnce
<1>7. ASSUME NEW c \in Kids(d)
      PROVE  /\ children_map[d][c] = 1
             /\ Append(p, c.name) \in DOMAIN path_map /\ path_map[Append(p, c.name)] = c
             /\ c.id \in DOMAIN id_map /\ id_map[c.id] = Append(p, c.name)
             /\ Front(Append(p, c.name)) = p /\ Len(Append(p, c.name)) > 0
  <2>1. /\ c \in Entry /\ Append(p, c.name) \in Path /\ CleanEntry(Append(p, c.name), c)
        /\ children_map[d][c] = 1 /\ Front(Append(p, c.name)) = p /\ Append(p, c.name) # << >>
    BY <1>0, <1>2, KidEntry
  <2>2. c.id \in DOMAIN id_map /\ id_map[c.id] = Append(p, c.name)
    BY <1>0, <2>1, EntryNests
  <2>3. Len(Append(p, c.name)) > 0
    BY <2>1, FrontLast
  <2> QED
    BY <2>1, <2>2, <2>3 DEF CleanEntry
<1>8. {q \in DOMAIN path_map : Len(q) > 0 /\ Front(q) = p} = {Append(p, c.name) : c \in Kids(d)}
  <2>1. ASSUME NEW q \in DOMAIN path_map, Len(q) > 0, Front(q) = p
        PROVE  \E c \in Kids(d) : q = Append(p, c.name)
    <3>1. q \in Path /\ q # << >> /\ path_map[q] \in Entry
      BY <1>0 DEF IndexOK
    <3>2. CleanEntry(q, path_map[q])
      BY <1>2, <2>1, <3>1 DEF CleanEntry, CleanDir
    <3>3. /\ CleanDir(p, path_map[q].parent) /\ path_map[q] \in Kids(path_map[q].parent)
          /\ path_map[q].name = Last(q)
      BY <1>0, <2>1, <3>1, <3>2, EntryNests
    <3>4. path_map[q].parent = d
      BY <1>1, <3>3 DEF CleanDir
    <3>5. q = Append(p, Last(q))
      BY <2>1, <3>1, FrontLast
    <3> QED
      BY <3>3, <3>4, <3>5
  <2>2. ASSUME NEW c \in Kids(d)
        PROVE  Append(p, c.name) \in {q \in DOMAIN path_map : Len(q) > 0 /\ Front(q) = p}
    <3>1. PICK q : q = Append(p, c.name)
      OBVIOUS
    <3>2. q \in DOMAIN path_map /\ Len(q) > 0 /\ Front(q) = p
      BY <1>7, <3>1
    <3> QED
      BY <3>1, <3>2
  <2> QED
    BY <2>1, <2>2
<1> QED
  BY <1>1, <1>5, <1>6, <1>7, <1>8 DEF AgreesAt

\* In a folder that is loaded and not excepted, the children list, the paths and
\* the ids say of every visible entry what Drive Kit says, however the steps of
\* operations, listings, lost answers and restarts interleave.  A folder that an
\* operation changed after a look-up that found it not loaded is excepted.
THEOREM MountIndexAgrees == Spec => []IndexAgrees
<1>1. SettledInv => IndexAgrees
  <2> SUFFICES ASSUME SettledInv, root # None, NEW p \in {<< >>} \cup DOMAIN path_map,
                      Trusted(p), DirAt(p) \in loaded
               PROVE  AgreesAt(p)
    BY DEF IndexAgrees
  <2>1. PICK D \in SUBSET Ids : NsInv(D) /\ Settled(D)
    BY DEF SettledInv
  <2>2. p \in Path
    <3>1. << >> \in Path
      BY DEF Path
    <3> QED
      BY <2>1, <3>1 DEF NsInv, IndexOK
  <2> QED
    BY <2>1, <2>2, AgreesHere
<1> QED
  BY <1>1, SettledInvariant, PTL

-----------------------------------------------------------------------------
(* What the steps do to the folders that are mounted.                        *)

\* Only the requests of operations change Drive Kit's tree.
LEMMA CloudSteps ==
  ASSUME NsNext, Down
  PROVE  root # None /\ (ServeAdd \/ ServeRemove \/ ServeMove \/ UNCHANGED cloud)
<1>1. \/ \E p \in Path : \E isDir \in BOOLEAN : Add(p, isDir)
      \/ \E p \in DOMAIN path_map : Delete(p)
      \/ \E p \in DOMAIN path_map : \E q \in Path : Rename(p, q)
      => UNCHANGED cloud
  BY DEF Add, Delete, Rename, Ask, server
<1>2. \/ \E p \in DOMAIN path_map : Forget(p)
      \/ \E p \in DOMAIN path_map : Flush(p)
      \/ RequestFails
      \/ Finish
      \/ AnswerLost
      \/ \E d \in DirIds : Fetch(d) \/ FetchFails(d) \/ Merge(d)
      => UNCHANGED cloud
  BY DEF Forget, Flush, RequestFails, Finish, AnswerLost, Fetch, FetchFails, Merge, server
<1> QED
  BY <1>1, <1>2, NsSteps

\* While a folder is mounted, starting and stopping leave the tree alone.
LEMMA MountedSteps ==
  ASSUME MountInv, [Next]_vars, root # None
  PROVE  NsNext \/ UNCHANGED cloud
<1>1. phase = "mounted"
  BY DEF MountInv, StartOK
<1>2. ~CreateRoot /\ ~StartFails
  BY <1>1 DEF CreateRoot, StartFails
<1>3. Start \/ DiscoverRoot \/ LookupPage \/ Stop \/ UNCHANGED vars => UNCHANGED cloud
  BY DEF Start, DiscoverRoot, LookupPage, Stop, vars, nsVars, server
<1> QED
  BY <1>2, <1>3 DEF Next

\* The tree after a request, entry by entry.  Where the folder is not loosened it
\* has been loaded since the look-up, which did not find the name.
LEMMA AddedTo ==
  ASSUME NEW D \in SUBSET Ids, NsInv(D), Settled(D), AskSound, root # None, ServeAdd,
         NEW p, p = ask.path, NEW f, f = Front(p), NEW t, t = ask.parent
  PROVE  /\ p \in Path /\ p # << >> /\ f \in Path /\ OnlyAt(t, f) /\ op = None
         /\ loose \subseteq loose'
         /\ Clean(f)' => CleanDir(f, t) /\ t \in loaded /\ p \notin DOMAIN path_map
         /\ \E n : cloud' = cloud \cup {n} /\ n.name = Last(p) /\ n.parent = Real(t)
<1>0. CloudOK /\ IndexOK /\ AskInv
  BY DEF NsInv
<1>1. ask # None /\ ask.kind = "add" /\ PostEntry(NewMeta(ask)) /\ Served
  BY DEF ServeAdd
<1>2. /\ p \in Path /\ p # << >> /\ f \in Path /\ op = None
  BY <1>0, <1>1, FrontLast DEF AskInv
<1>3. /\ OnlyAt(t, f) /\ ask.dirs = {f}
      /\ ask.sure => OpClean(ask) /\ DirAt(f) = t /\ p \notin DOMAIN path_map
  BY <1>1 DEF AskSound
<1>4. loose \subseteq loose' /\ (Clean(f)' => ask.sure)
  BY <1>0, <1>1, <1>3, ServedIs
<1>5. Clean(f)' => CleanDir(f, t) /\ t \in loaded /\ p \notin DOMAIN path_map
  BY <1>3, <1>4 DEF OpClean, CleanDir
<1>6. PICK m : m = NewMeta(ask)
  OBVIOUS
<1>7. m.parent = t /\ m.name = Last(p)
  BY <1>6 DEF NewMeta
<1>8. PICK n : n = [m EXCEPT !.parent = Real(m.parent)]
  OBVIOUS
<1>9. cloud' = cloud \cup {n}
  BY <1>1, <1>6, <1>8 DEF PostEntry
<1>10. n.name = Last(p) /\ n.parent = Real(t)
  BY <1>6, <1>7, <1>8 DEF NewMeta
<1> QED
  BY <1>2, <1>3, <1>4, <1>5, <1>9, <1>10

\* The entry that a rename puts into the folder d.
MovedIn(n, i, name, d) == n.id = i /\ n.name = name /\ n.parent = Real(d)

LEMMA RenamedTo ==
  ASSUME NEW D \in SUBSET Ids, NsInv(D), Settled(D), AskSound, root # None, ServeMove,
         NEW q, q = ask.to, NEW g, g = Front(q), NEW i, i = ask.id, NEW t, t = ask.parent
  PROVE  /\ q \in Path /\ q # << >> /\ g \in Path /\ OnlyAt(t, g) /\ op = None
         /\ loose \subseteq loose'
         /\ Clean(g)' => CleanDir(g, t) /\ t \in loaded /\ q \notin DOMAIN path_map
         /\ \A n \in cloud' : n \in cloud \/ MovedIn(n, i, Last(q), t)
         /\ \A e \in cloud : \E n \in cloud' : n.id = e.id
         /\ \A m, n \in cloud' : m.id = n.id => m = n
<1>0. CloudOK /\ IndexOK /\ AskInv
  BY DEF NsInv
<1>1. ask # None /\ ask.kind = "move" /\ PatchEntry(i, Last(q), t) /\ Served
  BY DEF ServeMove
<1>2. /\ q \in Path /\ q # << >> /\ g \in Path /\ op = None /\ i \in Ids /\ IsFolder(t)
      /\ Last(q) \in Names /\ t \in DirIds
  BY <1>0, <1>1, FrontLast DEF AskInv, IsFolder
<1>3. /\ OnlyAt(t, g) /\ g \in ask.dirs
      /\ ask.sure => OpClean(ask) /\ DirAt(g) = t /\ q \notin DOMAIN path_map
  BY <1>1 DEF AskSound
<1>4. loose \subseteq loose' /\ (Clean(g)' => ask.sure)
  BY <1>0, <1>1, <1>3, ServedIs
<1>5. Clean(g)' => CleanDir(g, t) /\ t \in loaded /\ q \notin DOMAIN path_map
  BY <1>3, <1>4 DEF OpClean, CleanDir
<1>6. CloudOK' /\ cloud' = {Patched(e, i, Last(q), t) : e \in cloud}
  BY <1>0, <1>1, <1>2, PatchKeeps
<1>7. \A m, n \in cloud' : m.id = n.id => m = n
  BY <1>6 DEF CloudOK, WellFormed
<1>8. ASSUME NEW n \in cloud'
      PROVE  n \in cloud \/ MovedIn(n, i, Last(q), t)
  <2>1. PICK e \in cloud : n = Patched(e, i, Last(q), t)
    BY <1>6
  <2> QED
    BY <1>0, <1>2, <2>1, PatchedIs DEF MovedIn
<1>9. ASSUME NEW e \in cloud PROVE \E n \in cloud' : n.id = e.id
  <2>1. Patched(e, i, Last(q), t) \in cloud'
    BY <1>6
  <2>2. Patched(e, i, Last(q), t).id = e.id
    BY <1>0, <1>2, PatchedIs
  <2> QED
    BY <2>1, <2>2
<1> QED
  BY <1>2, <1>3, <1>4, <1>5, <1>7, <1>8, <1>9

-----------------------------------------------------------------------------
(* rmdir.                                                                    *)

\* The trusted folders that the request takes with it: only the folder itself, if
\* list_dir looked into its merged listing, for nothing of the index is below it.
LEMMA DeletedEmpty ==
  ASSUME NEW D \in SUBSET Ids, NsInv(D), Settled(D), AskSound, root # None,
         ServeRemove, ask.listed,
         NEW q \in Path, NEW d, Trusted(q), DirAt(q) = d, d \in loaded, Exists(d), ~Exists(d)'
  PROVE  Visible(Contents(cloud, d)) = {}
<1>0. CloudOK /\ IndexOK /\ PathsNest /\ AskInv
  BY PartsOf DEF NsInv
<1> PICK i : i = ask.id
  OBVIOUS
<1> PICK p : p = ask.path
  OBVIOUS
<1>1. ask # None /\ ask.kind = "remove" /\ p \in DOMAIN path_map /\ p \in Path /\ p # << >>
  BY <1>0 DEF ServeRemove, AskInv
<1>2. CleanDir(q, d) /\ d \in DirIds
  BY <1>0, TrustedCalm, FolderId
<1>3. cloud' = {e \in cloud : e.id \notin Inside(cloud, i)}
  BY DEF ServeRemove, DeleteEntry
<1>4. d \in Inside(cloud, i)
  BY <1>3 DEF Exists
<1>5. IsPrefix(p, q)
  BY <1>1, <1>2, <1>4, InsideIsBelow
<1>6. path_map[p].dir => path_map[p].id = i /\ Kids(i) = {}
  <2>1. Front(p) \in Path /\ IsPrefix(Front(p), p)
    BY <1>1, FrontLast, PrefixSelf, PrefixFront
  <2>2. IsPrefix(Front(p), q)
    BY <1>1, <1>5, <2>1, PrefixTrans
  <2>3. Clean(Front(p))
    BY <1>0, <1>2, <2>1, <2>2, CleanAbove DEF CleanDir
  <2> QED
    BY <1>1, <2>3 DEF AskSound
<1>7. q # << >>
  BY <1>1, <1>5, PrefixMeans DEF Path
<1>8. q \in DOMAIN path_map /\ path_map[q] \in Entry /\ CleanEntry(q, path_map[q]) /\ path_map[q].dir
      /\ path_map[q].id = d
  BY <1>0, <1>2, <1>7, DirEntry
<1>9. q = p
  BY <1>0, <1>1, <1>5, <1>6, <1>8, NothingBelow
<1>10. Kids(d) = {}
  BY <1>6, <1>8, <1>9
<1> SUFFICES ASSUME NEW m \in Visible(Contents(cloud, d)) PROVE FALSE
  OBVIOUS
<1>11. m \in cloud /\ m.parent = Real(d) /\ m.name \notin Hidden
  BY DEF Visible, Contents
<1>12. m \in Entry /\ Holds(d, m)
  <2>1. Top \in DirIds /\ Ids \subseteq DirIds
    BY DEF DirIds
  <2>2. m \in Entry
    BY <1>0, <1>11, <2>1 DEF CloudOK, Entry
  <2> QED
    BY <1>11, <2>2 DEF Holds, Alike
<1> QED
  BY <1>10, <1>11, <1>12, LoadedHolds

LEMMA RmdirStep ==
  ASSUME MountInv, SettledInv, [Next]_vars, root # None,
         ask # None /\ ask.kind = "remove" => ask.listed,
         NEW q \in {<< >>} \cup DOMAIN path_map, NEW d \in loaded,
         Trusted(q), DirAt(q) = d, Exists(d), ~Exists(d)'
  PROVE  Visible(Contents(cloud, d)) = {}
<1>1. PICK D \in SUBSET Ids : NsInv(D) /\ Settled(D)
  BY DEF SettledInv
<1>2. AskSound
  BY DEF SettledInv
<1>3. q \in Path
  <2>1. << >> \in Path
    BY DEF Path
  <2> QED
    BY <1>1, <2>1 DEF NsInv, IndexOK
<1>4. PICK m \in cloud : m.id = d
  BY DEF Exists
<1>5. Real(d) # Top /\ \A n \in cloud' : n.id # d
  BY DEF Exists
<1>6. cloud' # cloud
  BY <1>4, <1>5
<1>7. NsNext /\ Down
  BY <1>1, <1>6, MountedSteps DEF NsInv
<1>8. ~ServeAdd
  <2> SUFFICES ASSUME ServeAdd PROVE FALSE
    OBVIOUS
  <2>1. \E n : cloud' = cloud \cup {n}
    BY <1>1, <1>2, AddedTo
  <2> QED
    BY <1>4, <1>5, <2>1
<1>9. ~ServeMove
  <2> SUFFICES ASSUME ServeMove PROVE FALSE
    OBVIOUS
  <2>1. \A e \in cloud : \E n \in cloud' : n.id = e.id
    BY <1>1, <1>2, RenamedTo
  <2> QED
    BY <1>4, <1>5, <2>1
<1>10. ServeRemove
  BY <1>6, <1>7, <1>8, <1>9, CloudSteps
<1>11. ask.listed
  BY <1>10 DEF ServeRemove
<1> QED
  BY <1>1, <1>2, <1>3, <1>10, <1>11, DeletedEmpty

\* If the listing of a folder had been merged when rmdir looked into it, then what
\* the request deletes is empty in Drive Kit too, whatever has been fetched and
\* merged since; and no other step makes a folder disappear that is listed and
\* trusted.  Nothing is said of a folder that rmdir found not listed yet: the
\* request then takes all that the folder holds.
THEOREM MountRmdirOnlyEmpty == Spec => RmdirOnlyEmpty
<1>1. MountInv /\ SettledInv /\ [Next]_vars =>
        [root # None /\ (ask # None /\ ask.kind = "remove" => ask.listed) =>
           \A p \in {<< >>} \cup DOMAIN path_map, d \in loaded :
             Trusted(p) /\ DirAt(p) = d /\ Exists(d) /\ ~Exists(d)'
               => Visible(Contents(cloud, d)) = {}]_nsVars
  BY RmdirStep
<1> QED
  BY <1>1, SettledInvariant, PTL DEF Spec, RmdirOnlyEmpty

-----------------------------------------------------------------------------
(* Names.                                                                    *)

\* A name that the index does not have in a loaded folder is free in Drive Kit.
LEMMA NameIsFree ==
  ASSUME NEW D \in SUBSET Ids, NsInv(D), Settled(D), root # None, op = None,
         NEW p \in Path, NEW d, CleanDir(p, d), d \in loaded,
         NEW q \in Path, q # << >>, Front(q) = p, q \notin DOMAIN path_map,
         NEW e \in Visible(Contents(cloud, d))
  PROVE  e.name # Last(q)
<1>0. CloudOK /\ IndexOK /\ KidsNamed /\ PathsNest
  BY PartsOf
<1>1. Trusted(p) /\ DirAt(p) = d
  BY DEF CleanDir, Trusted
<1>2. e \in cloud /\ e.parent = Real(d) /\ e.name \notin Hidden
  BY DEF Visible, Contents
<1>3. e \in Entry /\ Holds(d, e)
  <2>1. Top \in DirIds /\ Ids \subseteq DirIds
    BY DEF DirIds
  <2>2. e \in Entry
    BY <1>0, <1>2, <2>1 DEF CloudOK, Entry
  <2> QED
    BY <1>2, <2>2 DEF Holds, Alike
<1>4. PICK c \in Kids(d) : Alike(c, e)
  BY <1>1, <1>2, <1>3, LoadedHolds
<1>5. d \in DirIds
  BY <1>0, FolderId
<1>6. CleanEntry(Append(p, c.name), c)
  BY <1>0, <1>5, KidEntry
<1>7. Append(p, c.name) \in DOMAIN path_map
  BY <1>6 DEF CleanEntry
<1>8. Append(p, Last(q)) = q
  BY FrontLast
<1> QED
  BY <1>4, <1>7, <1>8 DEF Alike

LEMMA OneComes ==
  ASSUME NEW A, NEW B, NEW n, DistinctNames(Visible(A)), B \subseteq A \cup {n},
         \A a \in Visible(A) : a.name # n.name
  PROVE  DistinctNames(Visible(B))
  BY DEF DistinctNames, Visible

\* A create has found its name free in a folder that was loaded, or the folder is
\* loosened.
LEMMA AddKeepsNames ==
  ASSUME NEW D \in SUBSET Ids, NsInv(D), Settled(D), AskSound, root # None, ServeAdd,
         NEW r \in {<< >>} \cup DOMAIN path_map, IsDir(r), Clean(r)',
         NEW d, d = DirAt(r), DistinctNames(Visible(Contents(cloud, d)))
  PROVE  DistinctNames(Visible(Contents(cloud', d)))
<1>0. IndexOK
  BY PartsOf
<1>1. PICK p : p = ask.path
  OBVIOUS
<1>2. PICK f : f = Front(p)
  OBVIOUS
<1>3. PICK t : t = ask.parent
  OBVIOUS
<1>4. /\ p \in Path /\ p # << >> /\ f \in Path /\ OnlyAt(t, f) /\ op = None
      /\ loose \subseteq loose'
      /\ Clean(f)' => CleanDir(f, t) /\ t \in loaded /\ p \notin DOMAIN path_map
  BY <1>1, <1>2, <1>3, AddedTo
<1>5. PICK n : cloud' = cloud \cup {n} /\ n.name = Last(p) /\ n.parent = Real(t)
  BY <1>1, <1>2, <1>3, AddedTo
<1>6. CleanDir(r, d) /\ r \in Path
  <2>1. << >> \in Path
    BY DEF Path
  <2> QED
    BY <1>0, <1>4, <2>1, CleanShrinks DEF CleanDir, IndexOK
<1>7. CASE n.parent # Real(d)
  <2>1. Contents(cloud', d) = Contents(cloud, d)
    BY <1>5, <1>7 DEF Contents
  <2> QED
    BY <2>1
<1>8. CASE n.parent = Real(d)
  <2>1. r = f /\ d = t
    BY <1>0, <1>4, <1>5, <1>6, <1>8, OnlyOnce
  <2>2. \A e \in Visible(Contents(cloud, d)) : e.name # n.name
    BY <1>2, <1>4, <1>5, <2>1, NameIsFree
  <2>3. Contents(cloud', d) \subseteq Contents(cloud, d) \cup {n}
    BY <1>5 DEF Contents
  <2> QED
    BY <2>2, <2>3, OneComes
<1> QED
  BY <1>7, <1>8

\* So has a rename.
LEMMA RenameKeepsNames ==
  ASSUME NEW D \in SUBSET Ids, NsInv(D), Settled(D), AskSound, root # None, ServeMove,
         NEW r \in {<< >>} \cup DOMAIN path_map, IsDir(r), Clean(r)',
         NEW d, d = DirAt(r), DistinctNames(Visible(Contents(cloud, d)))
  PROVE  DistinctNames(Visible(Contents(cloud', d)))
<1>0. IndexOK
  BY PartsOf
<1>1. PICK q : q = ask.to
  OBVIOUS
<1>2. PICK g : g = Front(q)
  OBVIOUS
<1>3. PICK i : i = ask.id
  OBVIOUS
<1>4. PICK t : t = ask.parent
  OBVIOUS
<1>5. /\ q \in Path /\ q # << >> /\ g \in Path /\ OnlyAt(t, g) /\ op = None
      /\ loose \subseteq loose'
      /\ Clean(g)' => CleanDir(g, t) /\ t \in loaded /\ q \notin DOMAIN path_map
  BY <1>1, <1>2, <1>3, <1>4, RenamedTo
<1>6. \A n \in cloud' : n \in cloud \/ MovedIn(n, i, Last(q), t)
  BY <1>1, <1>2, <1>3, <1>4, RenamedTo
<1>7. \A m, n \in cloud' : m.id = n.id => m = n
  BY <1>1, <1>2, <1>3, <1>4, RenamedTo
<1>8. CleanDir(r, d) /\ r \in Path
  <2>1. << >> \in Path
    BY DEF Path
  <2> QED
    BY <1>0, <1>5, <2>1, CleanShrinks DEF CleanDir, IndexOK
<1>9. CASE Real(t) # Real(d)
  <2>1. Contents(cloud', d) \subseteq Contents(cloud, d)
    BY <1>6, <1>9 DEF Contents, MovedIn
  <2> QED
    BY <2>1 DEF DistinctNames, Visible
<1>10. CASE Real(t) = Real(d)
  <2>1. r = g /\ d = t
    BY <1>0, <1>5, <1>8, <1>10, OnlyOnce
  <2>2. \A e \in Visible(Contents(cloud, d)) : e.name # Last(q)
    BY <1>2, <1>5, <2>1, NameIsFree
  <2>3. ASSUME NEW m \in Visible(Contents(cloud', d)), NEW n \in Visible(Contents(cloud', d)),
               m.name = n.name
        PROVE  m = n
    <3>1. m \in cloud' /\ n \in cloud'
      BY DEF Visible, Contents
    <3>2. \A x \in {m, n} : x \in Visible(Contents(cloud, d)) \/ (x.id = i /\ x.name = Last(q))
      BY <1>6, <3>1 DEF Visible, Contents, MovedIn
    <3>3. m \in Visible(Contents(cloud, d)) /\ n \in Visible(Contents(cloud, d)) => m = n
      BY <2>3 DEF DistinctNames
    <3> QED
      BY <1>7, <2>2, <2>3, <3>1, <3>2, <3>3
  <2> QED
    BY <2>3 DEF DistinctNames
<1> QED
  BY <1>9, <1>10

LEMMA NamesStep ==
  ASSUME MountInv, SettledInv, [Next]_vars, root # None,
         NEW r \in {<< >>} \cup DOMAIN path_map, IsDir(r), Clean(r)',
         NEW d, d = DirAt(r), DistinctNames(Visible(Contents(cloud, d)))
  PROVE  DistinctNames(Visible(Contents(cloud', d)))
<1>1. PICK D \in SUBSET Ids : NsInv(D) /\ Settled(D)
  BY DEF SettledInv
<1>2. CASE UNCHANGED cloud
  BY <1>2
<1>3. CASE NsNext
  <2>1. AskSound /\ Down
    BY <1>1 DEF SettledInv, NsInv
  <2>2. CASE ServeAdd
    BY <1>1, <2>1, <2>2, AddKeepsNames
  <2>3. CASE ServeMove
    BY <1>1, <2>1, <2>3, RenameKeepsNames
  <2>4. CASE ServeRemove
    <3>1. cloud' \subseteq cloud
      BY <2>4 DEF ServeRemove, DeleteEntry
    <3> QED
      BY <3>1 DEF DistinctNames, Visible, Contents
  <2> QED
    BY <1>2, <1>3, <2>1, <2>2, <2>3, <2>4, CloudSteps
<1> QED
  BY <1>2, <1>3, MountedSteps

\* A create and a rename look for their name in the index alone, before they send
\* their request.  Where the folder had been loaded when they looked, and is not
\* excepted, Drive Kit has no entry of that name when the request is served.
\* Nothing is said of a folder that was not loaded at the look-up, even if its
\* listing is merged before the request is sent.
THEOREM MountNamesStayDistinct == Spec => NamesStayDistinct
<1>1. MountInv /\ SettledInv /\ [Next]_vars =>
        [root # None =>
           \A p \in {<< >>} \cup DOMAIN path_map :
             LET d == DirAt(p) IN
             IsDir(p) /\ Clean(p)' /\ DistinctNames(Visible(Contents(cloud, d)))
               => DistinctNames(Visible(Contents(cloud', d)))]_nsVars
  BY NamesStep
<1> QED
  BY <1>1, SettledInvariant, PTL DEF Spec, NamesStayDistinct
==============================================================================
