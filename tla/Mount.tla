-------------------------------- MODULE Mount --------------------------------
(***************************************************************************)
(* The life of a mount (clawfuse/lifecycle.py, clawfuse/mount.py): the     *)
(* folder that cloud_folder names is found, or created, in Drive Kit, the  *)
(* directory tree starts empty under it, operations run, and the process   *)
(* ends by a signal or a crash and is started again.                       *)
(***************************************************************************)
EXTENDS Namespace

CONSTANTS
  Modes,     \* the kinds of cloud_folder: "container", "name", "id"
  Folder,    \* the name that mode "name" looks for
  GivenId,   \* the folder id of mode "id"
  PageSize,  \* entries per page of a listing
  MaxStarts  \* bound: starts of the process

ASSUME ModeAssumption == Modes \subseteq {"container", "name", "id"} /\ Folder \in Names
ASSUME PageAssumption == PageSize \in Nat \ {0} /\ MaxStarts \in Nat

VARIABLES
  mode,    \* the kind of cloud_folder
  phase,   \* "down", "discover", "lookup", "create" or "mounted"
  base,    \* what _discover_application_data_root has returned
  page,    \* the next page of the look-up
  first,   \* history: the folder that was mounted first
  starts

startVars == <<phase, base, page, first, starts>>
vars == <<nsVars, mode, startVars>>

Init ==
  /\ NsInit
  /\ root = None
  /\ mode \in Modes
  /\ mode = "id" => GivenId \in Folders(cloud)
  /\ phase = "down" /\ base = None /\ page = 0 /\ first = None /\ starts = 0

-----------------------------------------------------------------------------
(* pre_start                                                               *)

Start ==
  /\ phase = "down" /\ starts < MaxStarts
  /\ starts' = starts + 1
  /\ phase' = "discover"
  /\ UNCHANGED <<nsVars, mode, base, page, first>>

\* The tree, the cache and the write buffer are built, the background load and
\* the drain thread run, FUSE is mounted.
MountAt(r) ==
  /\ root' = r
  /\ first' = IF first = None THEN Real(r) ELSE first
  /\ phase' = "mounted"

NamedFolders(S) == {m \in S : m.name = Folder /\ m.dir}

\* The code takes any of several folders of that name: at first there are not two.
ASSUME FolderAssumption ==
  \A tree \in InitialClouds : Cardinality(NamedFolders(Contents(tree, Top))) <= 1

\* The parents of the entries that the container lists at its top.
DiscoverRoot ==
  LET found == IF ListFiles(Keyword) # {} THEN Top ELSE Keyword IN
  /\ phase = "discover"
  /\ \/ /\ mode = "container" /\ MountAt(found)
        /\ UNCHANGED <<base, page>>
     \/ /\ mode = "id" /\ MountAt(GivenId)
        /\ UNCHANGED <<base, page>>
     \/ /\ mode = "name"
        /\ base' = found /\ page' = 1
        /\ phase' = IF found = Top THEN "lookup" ELSE "create"
        /\ UNCHANGED <<root, first>>
  /\ UNCHANGED <<server, index, loading, ask, op, loose, changes, errors, mode, starts>>

\* The listing of the container's root folder is in the order of the ids.
Rank(m) == Cardinality({n \in ListFiles(Top) : n.id < m.id})
Page(k) == {m \in ListFiles(Top) : (k - 1) * PageSize <= Rank(m) /\ Rank(m) < k * PageSize}

\* Mutant: only the first page is read.
NoMorePages(k) == FALSE

MorePages(k) == k * PageSize < Cardinality(ListFiles(Top))

LookupPage ==
  /\ phase = "lookup"
  /\ IF NamedFolders(Page(page)) # {}
     THEN /\ \E m \in NamedFolders(Page(page)) : MountAt(m.id)
          /\ UNCHANGED page
     ELSE /\ phase' = IF MorePages(page) THEN "lookup" ELSE "create"
          /\ page'  = page + 1
          /\ UNCHANGED <<root, first>>
  /\ UNCHANGED <<server, index, loading, ask, op, loose, changes, errors, mode, base, starts>>

\* What create_folder is asked for.
CreatedFolder ==
  [id |-> lastId + 1, name |-> Folder, dir |-> TRUE, parent |-> base, rev |-> 0]

CreateRoot ==
  /\ phase = "create"
  /\ PostEntry(CreatedFolder)
  /\ MountAt(CreatedFolder.id)
  /\ UNCHANGED <<index, loading, ask, op, loose, changes, errors, mode, base, page, starts>>

\* A request of pre_start fails, or the answer of create_folder is lost: main
\* exits and the command is run again.
StartFails ==
  /\ phase \in {"discover", "lookup", "create"} /\ errors < MaxErrors
  /\ errors' = errors + 1
  /\ \/ UNCHANGED server
     \/ phase = "create" /\ PostEntry(CreatedFolder)
  /\ phase' = "down" /\ base' = None /\ page' = 0
  /\ UNCHANGED <<root, index, loading, ask, op, loose, changes, mode, first, starts>>

\* A signal, a mount error or a crash: the process ends and the maps are gone.
Stop ==
  /\ phase = "mounted"
  /\ phase' = "down" /\ root' = None
  /\ path_map' = EmptyMap /\ id_map' = EmptyMap
  /\ children_map' = [d \in DirIds |-> EmptyBag]
  /\ loaded' = {} /\ failed' = {}
  /\ listing' = [d \in DirIds |-> None]
  /\ ask' = None /\ op' = None /\ loose' = {}
  /\ base' = None /\ page' = 0
  /\ UNCHANGED <<server, changes, errors, mode, first, starts>>

Next ==
  \/ Start \/ DiscoverRoot \/ LookupPage \/ CreateRoot \/ StartFails \/ Stop
  \/ NsNext /\ UNCHANGED <<mode, startVars>>

Spec == Init /\ [][Next]_vars

-----------------------------------------------------------------------------
(* Properties.                                                             *)

TypeOK ==
  /\ NsTypeOK
  /\ mode \in Modes
  /\ phase \in {"down", "discover", "lookup", "create", "mounted"}
  /\ (phase = "mounted") = (root # None)
  /\ base \in {None, Top, Keyword}
  /\ page \in Nat /\ starts \in 0..MaxStarts
  /\ first \in Ids \cup {None, Top}

\* Every start mounts the folder that the first one mounted, and no start
\* creates a second folder of that name: not after a start that failed, not
\* when the answer of create_folder was lost.
SameFolder ==
  /\ root # None => Real(root) = first
  /\ mode = "name" => Cardinality(NamedFolders(Contents(cloud, Top))) <= 1
=============================================================================
