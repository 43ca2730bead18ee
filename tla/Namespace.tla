------------------------------ MODULE Namespace ------------------------------
(***************************************************************************)
(* The directory tree of ClawFUSE and the operations that change it: the   *)
(* three maps of DirTree (clawfuse/dirtree.py), filled by listings and     *)
(* edited by create, mkdir, unlink, rmdir, rename and flush                *)
(* (clawfuse/fuse.py), beside the tree that Drive Kit holds.               *)
(*                                                                         *)
(* An operation looks its paths up in the maps, sends one request with the *)
(* ids that it found and, when the answer is there, edits the maps: three  *)
(* steps.  Listings are fetched by other threads at any time and merged    *)
(* under the lock when they arrive, also between these steps; which thread *)
(* fetches which folder is the subject of DirLoad, whose promise LoadOnce  *)
(* (absent, fetching, present) is used here.                               *)
(*                                                                         *)
(* A path is the sequence of its names, an entry the record that FileMeta  *)
(* is: id, name, whether it is a folder, the id of its parent, and in rev  *)
(* the size, which a flush changes.  A children list is a bag: its order   *)
(* only decides which of two entries with one id update_meta replaces.     *)
(***************************************************************************)
EXTENDS Naturals, SequencesExt, Bags

CONSTANTS
  Names,         \* file and folder names
  Hidden,        \* the names that start with a dot
  LocalOnly,     \* the names of editor and backup files
  None,          \* no folder, no operation
  Keyword,       \* "applicationData", the name of the container
  InitialClouds, \* what Drive Kit may hold at first, as sets of entries
  MaxId,         \* bound: ids the server gives out
  MaxDepth,      \* bound: names in a path that is created or renamed to
  MaxChanges,    \* bound: operations that change the tree
  MaxErrors      \* bound: listings and requests that fail

Top == 0         \* the id of the container's root folder
Ids == 1..MaxId
DirIds == Ids \cup {Top, Keyword}

ASSUME NameAssumption == Hidden \cup LocalOnly \subseteq Names
ASSUME SentinelAssumption == None \notin DirIds /\ Keyword \notin Nat
ASSUME BoundAssumption ==
  MaxId \in Nat /\ MaxDepth \in Nat /\ MaxChanges \in Nat /\ MaxErrors \in Nat

VARIABLES
  cloud,        \* Drive Kit: the entries
  lastId,       \* Drive Kit: the newest id
  root,         \* _root_folder, or None as long as nothing is mounted
  path_map,     \* _path_map
  id_map,       \* _id_map
  children_map, \* _children_map, as bags; no list and an empty one are the same
  loaded,       \* _loaded_dirs
  failed,       \* folders whose last listing failed
  listing,      \* folder -> the entries of its listing on the way, or None
  ask,          \* the operation that has looked its paths up, or None
  op,           \* the operation whose request the server has served, or None
  loose,        \* history: paths at and below which nothing is promised
  changes, errors

index   == <<path_map, id_map, children_map>>
loading == <<loaded, failed, listing>>
server  == <<cloud, lastId>>
nsVars  == <<server, root, index, loading, ask, op, loose, changes, errors>>

Entry == [id : Ids, name : Names, dir : BOOLEAN, parent : DirIds, rev : {0, 1}]
Path  == Seq(Names)

\* A request that is on its way: its paths, the folders whose entries it is to
\* change and the ids it is sent with, as the look-up found them.  And, for the
\* properties: whether at the look-up these folders were loaded and nothing was
\* loosened there, and whether a folder to be removed was loaded.
Request ==
  [kind : {"add"}, path : Path, dirs : SUBSET Path, parent : DirIds, dir : BOOLEAN, sure : BOOLEAN]
    \cup [kind : {"remove"}, path : Path, dirs : SUBSET Path, id : Ids,
          sure : BOOLEAN, listed : BOOLEAN]
    \cup [kind : {"move"}, path : Path, dirs : SUBSET Path, to : Path, id : Ids,
          parent : DirIds, sure : BOOLEAN]

\* A request that the server has served: its paths, the entry that is created,
\* and the folders whose entries change.
Operation ==
  [kind : {"add"}, path : Path, dirs : SUBSET Path, meta : Entry]
    \cup [kind : {"remove"}, path : Path, dirs : SUBSET Path]
    \cup [kind : {"move"}, path : Path, dirs : SUBSET Path, to : Path]

ASSUME OperationAssumption == None \notin Operation \cup Request

\* Drive Kit takes the container's name for its root folder.
Real(d) == IF d = Keyword THEN Top ELSE d

Folders(tree)    == {m.id : m \in {e \in tree : e.dir}}
Contents(tree, d) == {m \in tree : m.parent = Real(d)}

\* The server's own tree: ids are unique and every parent exists.
WellFormed(tree) ==
  /\ \A m, n \in tree : m.id = n.id => m = n
  /\ \A m \in tree : m.parent \in Folders(tree) \cup {Top}

\* The id and the ids of all that is below it: what every set of ids has that
\* holds the id and, with a folder, what is in the folder.
Inside(tree, i) ==
  LET Closed == {S \in SUBSET Ids : i \in S /\ \A m \in tree : m.parent \in S => m.id \in S}
  IN  {x \in Ids : \A S \in Closed : x \in S}

Acyclic(tree) == \A m \in tree : m.parent \notin Inside(tree, m.id)

\* At first the ids are numbered through and no size has changed.
ASSUME CloudAssumption ==
  \A tree \in InitialClouds :
    /\ tree \subseteq Entry /\ WellFormed(tree) /\ Acyclic(tree)
    /\ \A m \in tree : m.id <= Cardinality(tree) /\ m.rev = 0

EmptyMap == [x \in {} |-> x]

EmptyIndex ==
  /\ path_map = EmptyMap /\ id_map = EmptyMap
  /\ children_map = [d \in DirIds |-> EmptyBag]
  /\ loaded = {} /\ failed = {}
  /\ listing = [d \in DirIds |-> None]
  /\ ask = None /\ op = None /\ loose = {}

NsInit ==
  /\ cloud \in InitialClouds
  /\ lastId = Cardinality(cloud)
  /\ EmptyIndex
  /\ changes = 0 /\ errors = 0

-----------------------------------------------------------------------------
(* Looking up.                                                             *)

\* What a dict holds after del and after update.
Without(f, keys) == [x \in DOMAIN f \ keys |-> f[x]]
Updated(f, g) == [x \in DOMAIN f \cup DOMAIN g |-> IF x \in DOMAIN g THEN g[x] ELSE f[x]]
With(f, k, v) == Updated(f, [x \in {k} |-> v])

DirAt(p) == IF p = << >> THEN root ELSE path_map[p].id
IsDir(p) == p = << >> \/ (p \in DOMAIN path_map /\ path_map[p].dir)

\* ensure_loaded of the folder has returned: it is loaded, or a listing failed
\* a short while ago, or the wait for a listing on its way has timed out.
Tried(d) == d \in loaded \cup failed \/ listing[d] # None

\* The kernel has looked up every name on the way to p and a name below p.
Walked(p) ==
  \A k \in 0..Len(p) : LET q == SubSeq(p, 1, k) IN IsDir(q) /\ Tried(DirAt(q))

Kids(d) == BagToSet(children_map[d])

ListDir(p) == IF IsDir(p) THEN {c.name : c \in Kids(DirAt(p))} ELSE {}

-----------------------------------------------------------------------------
(* add_entry, update_meta, remove_entry and move_entry, each under the     *)
(* lock.                                                                   *)

\* Mutants: the children list is not looked at.
DroppedKept(kids, i) == kids

Dropped(kids, i) == [c \in {e \in BagToSet(kids) : e.id # i} |-> kids[c]]

Plus(kids, m)  == kids (+) SetToBag({m})
Minus(kids, m) == kids (-) SetToBag({m})

AddEntry(p, m) ==
  /\ path_map' = With(path_map, p, m)
  /\ id_map'   = With(id_map, m.id, p)
  /\ children_map' = [children_map EXCEPT ![m.parent] = Plus(@, m)]

RemoveEntry(p) ==
  LET m == path_map[p] IN
  /\ path_map' = Without(path_map, {p})
  /\ id_map'   = Without(id_map, {m.id})
  /\ children_map' = [children_map EXCEPT ![m.parent] = Dropped(@, m.id)]

\* Mutant: the new parent is not found.
MovedNowhere(p, q) == [path_map[p] EXCEPT !.name = Last(q), !.parent = None]

Moved(p, q) == [path_map[p] EXCEPT !.name = Last(q), !.parent = DirAt(Front(q))]

MoveEntry(p, q) ==
  LET m == path_map[p]
      n == Moved(p, q)
      kids == [children_map EXCEPT ![m.parent] = Dropped(@, m.id)] IN
  /\ path_map' = With(Without(path_map, {p}), q, n)
  /\ id_map'   = With(id_map, m.id, q)
  /\ children_map' = [kids EXCEPT ![n.parent] = Plus(@, n)]

UpdateMeta(p) ==
  LET m    == path_map[p]
      n    == [m EXCEPT !.rev = 1]
      same == {c \in Kids(m.parent) : c.id = m.id} IN
  /\ path_map' = [path_map EXCEPT ![p] = n]
  /\ IF same = {} THEN UNCHANGED children_map
     ELSE \E c \in same :
            children_map' = [children_map EXCEPT ![m.parent] = Plus(Minus(@, c), n)]
  /\ UNCHANGED id_map

-----------------------------------------------------------------------------
(* What the requests do to the tree of Drive Kit.  It gives out a new id   *)
(* for every create, allows two entries of one name, and deletes a folder  *)
(* with all it holds.                                                      *)

Exists(i) == Real(i) = Top \/ \E m \in cloud : m.id = i

\* create_file and create_folder
PostEntry(m) ==
  /\ m.id <= MaxId /\ Exists(m.parent)
  /\ cloud'  = cloud \cup {[m EXCEPT !.parent = Real(m.parent)]}
  /\ lastId' = m.id

\* delete_file
DeleteEntry(i) ==
  /\ Exists(i)
  /\ cloud' = {e \in cloud : e.id \notin Inside(cloud, i)}
  /\ UNCHANGED lastId

\* update_metadata
PatchEntry(i, name, d) ==
  /\ Exists(i) /\ Exists(d) /\ d \notin Inside(cloud, i)
  /\ cloud' = {IF e.id = i THEN [e EXCEPT !.name = name, !.parent = Real(d)] ELSE e : e \in cloud}
  /\ UNCHANGED lastId

\* list_files, all pages
ListFiles(d) == Contents(cloud, d)

-----------------------------------------------------------------------------
(* The operations look their paths up: the kernel by getattr, the handler  *)
(* by resolve and, in rmdir, list_dir.                                     *)

Paths == BoundedSeq(Names, MaxDepth) \ {<< >>}

Clean(p) == \A r \in loose : ~IsPrefix(r, p)

\* The entries of these folders are in the index, and reliably so.
Sure(dirs) == \A p \in dirs : Clean(p) /\ DirAt(p) \in loaded

Ask(r) == ask' = r /\ UNCHANGED <<server, root, index, loading, op, loose, errors>>

\* create and mkdir do not look again for the name that getattr did not find.
Add(p, isDir) ==
  /\ Walked(Front(p)) /\ p \notin DOMAIN path_map
  /\ Last(p) \notin LocalOnly    \* getattr has answered for it
  /\ Ask([kind |-> "add", path |-> p, dirs |-> {Front(p)}, parent |-> DirAt(Front(p)),
          dir |-> isDir, sure |-> Sure({Front(p)})])

Create(p) == Add(p, FALSE)
Mkdir(p)  == Add(p, TRUE)

Delete(p) ==
  LET m == path_map[p] IN
  /\ Walked(Front(p))
  /\ Ask([kind |-> "remove", path |-> p, dirs |-> {Front(p)}, id |-> m.id,
          sure |-> Sure({Front(p)}), listed |-> (m.dir => m.id \in loaded)])

\* Mutant: rmdir does not look whether the folder is empty.
MayRemoveAny(p) == TRUE

MayRemove(p) == ListDir(p) = {}

Unlink(p) == ~path_map[p].dir /\ Last(p) \notin LocalOnly /\ Delete(p)
Rmdir(p)  == path_map[p].dir /\ MayRemove(p) /\ Delete(p)

\* unlink of a name that is taken for a local file
Forget(p) ==
  /\ ~path_map[p].dir /\ Last(p) \in LocalOnly
  /\ Walked(Front(p))
  /\ RemoveEntry(p)
  /\ loose' = loose \cup {Front(p)}
  /\ UNCHANGED <<server, root, loading, ask, op, errors>>

Rename(p, q) ==
  LET m    == path_map[p]
      dirs == {Front(p), Front(q)} IN
  /\ ~IsPrefix(p, q)
  /\ Walked(Front(p)) /\ Walked(Front(q))
  /\ IF q \in DOMAIN path_map THEN path_map[q].dir = m.dir
     ELSE m.dir => Last(q) \notin LocalOnly    \* getattr shows a file there
  /\ Ask([kind |-> "move", path |-> p, dirs |-> dirs, to |-> q, id |-> m.id,
          parent |-> DirAt(Front(q)), sure |-> q \notin DOMAIN path_map /\ Sure(dirs)])

-----------------------------------------------------------------------------
(* The request is served, with the ids that the look-up found, and the     *)
(* answer comes back.                                                      *)

NewMeta(r) ==
  [id |-> lastId + 1, name |-> Last(r.path), dir |-> r.dir, parent |-> r.parent, rev |-> 0]

\* A change in folders whose entries were not, or not reliably, in the index.
Served ==
  /\ ask' = None
  /\ loose' = IF ask.sure THEN loose ELSE loose \cup ask.dirs
  /\ UNCHANGED <<root, index, loading, changes, errors>>

ServeAdd ==
  LET m == NewMeta(ask) IN
  /\ ask # None /\ ask.kind = "add"
  /\ PostEntry(m)
  /\ op' = [kind |-> "add", path |-> ask.path, meta |-> m, dirs |-> ask.dirs]
  /\ Served

ServeRemove ==
  /\ ask # None /\ ask.kind = "remove"
  /\ DeleteEntry(ask.id)
  /\ op' = [kind |-> "remove", path |-> ask.path, dirs |-> ask.dirs]
  /\ Served

ServeMove ==
  /\ ask # None /\ ask.kind = "move"
  /\ PatchEntry(ask.id, Last(ask.to), ask.parent)
  /\ op' = [kind |-> "move", path |-> ask.path, to |-> ask.to, dirs |-> ask.dirs]
  /\ Served

\* The request is refused, or does not reach the server: the operation raises.
RequestFails ==
  /\ ask # None
  /\ ask' = None
  /\ UNCHANGED <<server, root, index, loading, op, loose, changes, errors>>

\* What stays behind when p is renamed or removed: the paths below it, and what
\* nothing is promised about.
LeftBehind(p) == {r \in DOMAIN path_map : IsStrictPrefix(p, r)} \cup {r \in loose : IsPrefix(p, r)}

\* Where the entry has been, and where it has gone.
Ends(o) == {o.path} \cup (IF o.kind = "move" THEN {o.to} ELSE {})

\* The answer has arrived.
Finish ==
  /\ op # None
  /\ CASE op.kind = "add"    -> AddEntry(op.path, op.meta)
       [] op.kind = "remove" -> RemoveEntry(op.path)
       [] op.kind = "move"   -> MoveEntry(op.path, op.to)
  /\ op' = None
  /\ loose' = IF op.kind # "add" /\ LeftBehind(op.path) # {} THEN loose \cup Ends(op) ELSE loose
  /\ UNCHANGED <<server, root, loading, ask, changes, errors>>

\* The answer is lost: the operation raises and leaves the index alone.
AnswerLost ==
  /\ op # None /\ errors < MaxErrors
  /\ op' = None
  /\ errors' = errors + 1
  /\ loose' = loose \cup op.dirs
  /\ UNCHANGED <<server, root, index, loading, ask, changes>>

\* flush and truncate: the new size of a file
Flush(p) ==
  /\ p \in DOMAIN path_map /\ ~path_map[p].dir /\ path_map[p].rev = 0
  /\ changes < MaxChanges /\ changes' = changes + 1
  /\ UpdateMeta(p)
  /\ UNCHANGED <<server, root, loading, ask, op, loose, errors>>

-----------------------------------------------------------------------------
(* load_dir: fetched without the lock, merged under it.                    *)

Known == {root} \cup UNION {{c.id : c \in {e \in Kids(d) : e.dir}} : d \in DirIds}

Fetch(d) ==
  /\ root # None /\ d \in Known
  /\ d \notin loaded /\ listing[d] = None
  /\ listing' = [listing EXCEPT ![d] = ListFiles(d)]
  /\ UNCHANGED <<server, root, index, loaded, failed, ask, op, loose, changes, errors>>

\* Mutant: the folder counts as loaded whatever the listing did.
LoadedAnyway(d) == loaded \cup {d}

LoadedAfterFailure(d) == loaded

FetchFails(d) ==
  /\ listing[d] # None /\ errors < MaxErrors
  /\ listing' = [listing EXCEPT ![d] = None]
  /\ loaded'  = LoadedAfterFailure(d)
  /\ failed'  = failed \cup {d}
  /\ errors'  = errors + 1
  /\ UNCHANGED <<server, root, index, ask, op, loose, changes>>

\* The entries that _resolve_path_for finds a path for.
Placed(d) ==
  IF Real(d) = root \/ Real(d) \in DOMAIN id_map
  THEN {m \in listing[d] : m.name \notin Hidden} ELSE {}

DistinctNames(S) == \A m, n \in S : m.name = n.name => m = n

Merge(d) ==
  LET kept == Placed(d)
      at   == IF Real(d) = root THEN << >> ELSE id_map[Real(d)]
      PathOf(m) == Append(at, m.name)
      MetaAt(p) == CHOOSE m \in kept : PathOf(m) = p
      MetaOf(i) == CHOOSE m \in kept : m.id = i IN
  /\ listing[d] # None
  /\ path_map' = Updated(path_map, [p \in {PathOf(m) : m \in kept} |-> MetaAt(p)])
  /\ id_map'   = Updated(id_map, [i \in {m.id : m \in kept} |-> PathOf(MetaOf(i))])
  /\ children_map' = [children_map EXCEPT ![Real(d)] = @ (+) SetToBag(kept)]
  /\ loaded'  = loaded \cup {d}
  /\ failed'  = failed \ {d}
  /\ listing' = [listing EXCEPT ![d] = None]
  /\ loose' = IF DistinctNames(kept) THEN loose ELSE loose \cup {at}
  /\ UNCHANGED <<server, root, ask, op, changes, errors>>

-----------------------------------------------------------------------------
\* One request at a time: the kernel serialises the changes of one folder, and
\* changes of two folders touch different keys of the maps.  Left out is the
\* rename of a folder while a change inside it is under way.
Change ==
  /\ root # None /\ ask = None /\ op = None /\ changes < MaxChanges
  /\ changes' = changes + 1
  /\ \/ \E p \in Paths : Create(p) \/ Mkdir(p)
     \/ \E p \in DOMAIN path_map :
          Unlink(p) \/ Forget(p) \/ Rmdir(p) \/ \E q \in Paths : Rename(p, q)

Load == \E d \in DirIds : Fetch(d) \/ FetchFails(d) \/ Merge(d)

Answer == ServeAdd \/ ServeRemove \/ ServeMove \/ RequestFails \/ Finish \/ AnswerLost

NsNext == Change \/ Answer \/ (\E p \in DOMAIN path_map : Flush(p)) \/ Load

-----------------------------------------------------------------------------
(* Properties.                                                             *)

NsTypeOK ==
  /\ cloud \subseteq [id : Ids, name : Names, dir : BOOLEAN, parent : Ids \cup {Top}, rev : {0}]
  /\ WellFormed(cloud)
  /\ lastId \in 0..MaxId /\ \A m \in cloud : m.id <= lastId
  /\ root \in DirIds \cup {None}
  /\ \A p \in DOMAIN path_map : p \in Path /\ path_map[p] \in Entry
  /\ \A i \in DOMAIN id_map : i \in Ids /\ id_map[i] \in Path
  /\ DOMAIN children_map = DirIds
  /\ \A d \in DirIds : IsABag(children_map[d]) /\ Kids(d) \subseteq Entry
  /\ loaded \subseteq DirIds /\ failed \subseteq DirIds /\ loose \subseteq Path
  /\ \A d \in DirIds : listing[d] = None \/ listing[d] \subseteq Entry
  /\ ask \in Request \cup {None} /\ op \in Operation \cup {None}
  /\ changes \in 0..MaxChanges /\ errors \in 0..MaxErrors

Visible(S) == {m \in S : m.name \notin Hidden}

\* Neither the folder nor one above it has been loosened or is being changed.
Trusted(p) ==
  IsDir(p) /\ Clean(p) /\ (op # None => \A r \in op.dirs : ~IsPrefix(r, p))

AgreesAt(p) ==
  LET d    == DirAt(p)
      real == Visible(Contents(cloud, d)) IN
  /\ {<<m.id, m.name, m.dir>> : m \in real}
       = {<<c.id, c.name, c.dir>> : c \in Visible(Kids(d))}
  /\ \A c, e \in Kids(d) : c.id = e.id => c = e
  /\ \A c \in Kids(d) :
       LET q == Append(p, c.name) IN
       /\ children_map[d][c] = 1
       /\ q \in DOMAIN path_map /\ path_map[q] = c
       /\ c.id \in DOMAIN id_map /\ id_map[c.id] = q
  /\ {q \in DOMAIN path_map : Len(q) > 0 /\ Front(q) = p} = {Append(p, c.name) : c \in Kids(d)}

\* What a user sees in a loaded folder is what Drive Kit holds: the children
\* list, the paths and the ids agree with each other and with the cloud, also
\* when other folders are fetched and merged between an operation's look-up, its
\* request and its answer.  Excepted is what is at or below a folder that was
\* changed by a request whose look-up found it not loaded yet, whose operation
\* lost its answer, in which a rename replaced an entry, and from or to which a
\* folder was renamed that had been listed.
IndexAgrees ==
  root # None =>
    \A p \in {<< >>} \cup DOMAIN path_map :
      Trusted(p) /\ DirAt(p) \in loaded => AgreesAt(p)

\* rmdir deletes no entry of a folder but the folder itself, if the listing of
\* the folder had been merged when list_dir looked into it.  If it had not, then
\* list_dir shows nothing and the request deletes all that the folder holds, even
\* when the listing is merged before the request is sent.
RmdirOnlyEmpty ==
  [][root # None /\ (ask # None /\ ask.kind = "remove" => ask.listed) =>
       \A p \in {<< >>} \cup DOMAIN path_map, d \in loaded :
         Trusted(p) /\ DirAt(p) = d /\ Exists(d) /\ ~Exists(d)'
           => Visible(Contents(cloud, d)) = {}]_nsVars

\* No operation gives a folder two visible entries of one name, if the listing
\* of the folder had been merged when the look-up found the name free.  If it had
\* not, then create, mkdir and rename double a name that the folder has; there,
\* and where else the folder or one above it is loosened, nothing is said.
NamesStayDistinct ==
  [][root # None =>
       \A p \in {<< >>} \cup DOMAIN path_map :
         LET d == DirAt(p) IN
         IsDir(p) /\ Clean(p)' /\ DistinctNames(Visible(Contents(cloud, d)))
           => DistinctNames(Visible(Contents(cloud', d)))]_nsVars
=============================================================================
