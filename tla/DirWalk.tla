------------------------------- MODULE DirWalk -------------------------------
(***************************************************************************)
(* The two callers of load_dir (clawfuse/dirtree.py): ensure_loaded, which *)
(* a FUSE thread runs before getattr and readdir and which walks down from *)
(* the root, and background_full_load, a breadth-first search that a pool  *)
(* of workers runs after the mount.                                        *)
(*                                                                         *)
(* A child directory is known once its parent's entries have been merged.  *)
(***************************************************************************)
EXTENDS DirLoad

CONSTANTS
  Walkers,  \* the threads that are FUSE threads; the others are workers
  Root,     \* the root folder
  Parent    \* directory -> its parent; the root is its own parent

ASSUME TreeAssumption ==
  /\ Walkers \subseteq Threads
  /\ Root \in Dirs
  /\ Parent \in [Dirs -> Dirs] /\ Parent[Root] = Root

\* Every directory lies below the root: there is no other set that contains the
\* root and, with a directory, its children.
ASSUME ReachedAssumption ==
  \A S \in SUBSET Dirs :
    Root \in S /\ (\A d \in Dirs : Parent[d] \in S => d \in S) => S = Dirs

VARIABLES
  goal,     \* walker -> the directory ensure_loaded was called for, or None
  last,     \* walker -> this is the last load_dir of the walk
  outcome,  \* walker -> how its last ensure_loaded ended
  batch,    \* next_batch
  todo,     \* submitted to the pool, not yet taken by a worker
  flying,   \* worker -> the directory whose future it runs, or None
  found,    \* new_subdirs
  bgDone    \* _bg_complete

walkVars == <<goal, last, outcome>>
bgVars   == <<batch, todo, flying, found, bgDone>>
vars     == <<loadVars, walkVars, bgVars>>

Workers == Threads \ Walkers

Children(d) == {c \in Dirs \ {Root} : Parent[c] = d}
Known(d)    == IF d \in loaded THEN Children(d) ELSE {}

WalkTypeOK ==
  /\ TypeOK
  /\ goal \in [Walkers -> Dirs \cup {None}]
  /\ last \in [Walkers -> BOOLEAN]
  /\ outcome \in [Walkers -> {"none", "returned", "raised"}]
  /\ batch \subseteq Dirs /\ todo \subseteq Dirs /\ found \subseteq Dirs
  /\ flying \in [Workers -> Dirs \cup {None}]
  /\ bgDone \in BOOLEAN

WalkInit ==
  /\ Init
  /\ goal = [t \in Walkers |-> None]
  /\ last = [t \in Walkers |-> FALSE]
  /\ outcome = [t \in Walkers |-> "none"]
  /\ batch = {Root} /\ todo = {} /\ found = {}
  /\ flying = [w \in Workers |-> None]
  /\ bgDone = FALSE

-----------------------------------------------------------------------------
(* ensure_loaded                                                           *)

\* The directories on the way from the root to d, both included.
PathTo[d \in Dirs] == IF d = Root THEN {Root} ELSE {d} \cup PathTo[Parent[d]]

WalkStart(t, g) ==
  /\ goal[t] = None /\ Call(t, Root)
  /\ goal' = [goal EXCEPT ![t] = g]
  /\ last' = [last EXCEPT ![t] = (g = Root)]
  /\ outcome' = [outcome EXCEPT ![t] = "none"]
  /\ UNCHANGED bgVars

\* load_dir has returned: look the child up in _path_map and go down, or stop
\* where it is unknown and load the directory reached so far once more.
WalkDown(t) ==
  /\ goal[t] # None /\ pc[t] = "idle" /\ result[t] # "raised" /\ ~last[t]
  /\ \/ /\ dir[t] \in loaded
        /\ \E c \in Children(dir[t]) \cap PathTo[goal[t]] :
             Call(t, c) /\ last' = [last EXCEPT ![t] = (c = goal[t])]
     \/ /\ dir[t] \notin loaded
        /\ Call(t, dir[t]) /\ last' = [last EXCEPT ![t] = TRUE]
  /\ UNCHANGED <<goal, outcome, bgVars>>

\* The walk is over, or load_dir has raised.
WalkEnd(t) ==
  /\ goal[t] # None /\ pc[t] = "idle"
  /\ last[t] \/ result[t] = "raised"
  /\ goal' = [goal EXCEPT ![t] = None]
  /\ last' = [last EXCEPT ![t] = FALSE]
  /\ outcome' = [outcome EXCEPT ![t] = IF result[t] = "raised" THEN "raised" ELSE "returned"]
  /\ UNCHANGED <<loadVars, bgVars>>

-----------------------------------------------------------------------------
(* background_full_load                                                    *)

\* Mutants: the directories that a FUSE thread has loaded are left out;
\* append instead of extend.
SubdirsOfNone(D)  == {}
SubdirsAppend(D)  == {Known(d) : d \in D}

SubdirsOf(D) == UNION {Known(d) : d \in D}

\* Filter the batch: what is loaded already only gives its sub-folders.  The
\* loop over the batch is one step, in which no other thread loads a folder: one
\* that is loaded after its test is only submitted for nothing.  The lists of the
\* code may name a folder twice; a set does not, and a second call would find the
\* folder marked or loaded.
BgSubmit ==
  /\ ~bgDone /\ batch # {}
  /\ found' = SubdirsOf(batch \cap loaded)
  /\ todo'  = batch \ loaded
  /\ batch' = {}
  /\ UNCHANGED <<loadVars, walkVars, flying, bgDone>>

BgTake(w) ==
  \E d \in todo :
    /\ flying[w] = None /\ Call(w, d)
    /\ todo' = todo \ {d}
    /\ flying' = [flying EXCEPT ![w] = d]
    /\ UNCHANGED <<walkVars, batch, found, bgDone>>

\* as_completed: collect the sub-folders, whether load_dir worked or not.
BgCollect(w) ==
  /\ flying[w] # None /\ pc[w] = "idle"
  /\ found' = found \cup Known(flying[w])
  /\ flying' = [flying EXCEPT ![w] = None]
  /\ UNCHANGED <<loadVars, walkVars, batch, todo, bgDone>>

BatchOver == batch = {} /\ todo = {} /\ \A w \in Workers : flying[w] = None

\* next_batch = new_subdirs
BgNext ==
  /\ ~bgDone /\ BatchOver /\ found # {}
  /\ batch' = found /\ found' = {}
  /\ UNCHANGED <<loadVars, walkVars, todo, flying, bgDone>>

BgComplete ==
  /\ ~bgDone /\ BatchOver /\ found = {}
  /\ bgDone' = TRUE
  /\ UNCHANGED <<loadVars, walkVars, batch, todo, flying, found>>

-----------------------------------------------------------------------------
Inside == UNCHANGED <<walkVars, bgVars>>

Walk(t) == WalkDown(t) \/ WalkEnd(t)
Background == BgSubmit \/ BgNext \/ BgComplete \/ \E w \in Workers : BgTake(w) \/ BgCollect(w)

WalkNext ==
  \/ \E t \in Threads : (LoadStep(t) \/ WaitTimeout(t)) /\ Inside
  \/ \E d \in Dirs : CooldownEnds(d) /\ Inside
  \/ \E t \in Walkers : Walk(t) \/ \E g \in Dirs : WalkStart(t, g)
  \/ Background

WalkSpec == WalkInit /\ [][WalkNext]_vars

\* A list_files call ends, with an answer, an error or its own time-out, and a
\* thread that is neither waiting nor idle goes on.  No waiter has to time out
\* and nobody has to call ensure_loaded.
FairWalkSpec ==
  /\ WalkSpec
  /\ \A t \in Threads : WF_vars(LoadStep(t) /\ Inside)
  /\ \A t \in Walkers : WF_vars(Walk(t))
  /\ WF_vars(Background)

-----------------------------------------------------------------------------
(* Properties.                                                             *)

\* Background loading ends, though fetches fail and FUSE threads load too.
BackgroundEnds == <>bgDone

\* When it ends without a failed fetch or a timed-out wait, it has loaded the
\* whole tree, whoever loaded which part.
BackgroundComplete ==
  bgDone /\ failures = 0 /\ timeouts = 0 => loaded = Dirs

\* ensure_loaded without a failure loads the directory and all its ancestors.
WalkReaches ==
  [][\A t \in Walkers :
       outcome'[t] = "returned" /\ outcome[t] = "none" /\ failures = 0 /\ timeouts = 0
         => PathTo[goal[t]] \subseteq loaded]_vars
=============================================================================
