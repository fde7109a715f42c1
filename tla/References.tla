------------------------------ MODULE References ------------------------------
(***************************************************************************)
(* Reference counts of H5VL_log in one process: the file objects, the VOL  *)
(* objects and wrap contexts that keep them, the connector below, and the  *)
(* scalar dataspace that all files share.                                  *)
(*                                                                         *)
(* Callbacks that create an object make the wrapper before or after they   *)
(* call the connector below; if that call fails they delete the wrapper    *)
(* again, which leaves everything as it was.  The library may run a user   *)
(* callback, and so any other operation, while it holds a wrap context.    *)
(***************************************************************************)
EXTENDS Integers, FiniteSets

CONSTANTS
  Files,      \* H5VL_log_file_t
  Objs,       \* H5VL_log_obj_t other than files
  None,       \* an object that does not exist
  MaxFails    \* bound: failures of the connector below

Kinds == {"ATTR", "GROUP", "DATATYPE", "DATASET"}
Objects == [fp : Files, type : Kinds \cup {"CTX", "LOST"}]

ASSUME Parameters ==
  IsFiniteSet(Files) /\ IsFiniteSet(Objs) /\ MaxFails \in Nat /\ None \notin Objects

VARIABLES
  state,     \* "none": does not exist; "open"; "broken": its close has failed
  refcnt,    \* fp->refcnt
  fileid,    \* does the program hold an ID of the file
  obj,       \* [Objs -> None or [fp, type]], type "CTX" for a wrap context,
             \* "LOST" for a context that nobody will delete
  connector, \* references to the connector below, 1 for its registration
  contig,    \* H5VL_log_dataspace_contig_ref
  sid,       \* is H5VL_log_dataspace_contig open
  crashed,   \* has a freed file object been used
  fails,     \* failures so far
  wrapped    \* history: file IDs handed out without a reference, by file

filevars == <<state, contig, sid>>
vars == <<filevars, refcnt, fileid, obj, connector, crashed, fails, wrapped>>

-----------------------------------------------------------------------------
Exists(o) == obj[o] # None
Holders(f) == {o \in Objs : Exists(o) /\ obj[o].fp = f}

\* The file can be reached through its ID or through one of its objects.
Reachable(f) ==
  /\ state[f] = "open"
  /\ fileid[f] \/ \E o \in Holders(f) : obj[o].type \in Kinds

Init ==
  /\ state = [f \in Files |-> "none"] /\ refcnt = [f \in Files |-> 0]
  /\ fileid = [f \in Files |-> FALSE]
  /\ obj = [o \in Objs |-> None]
  /\ connector = 1 /\ contig = 0 /\ sid = FALSE
  /\ crashed = FALSE /\ fails = 0
  /\ wrapped = [f \in Files |-> 0]

-----------------------------------------------------------------------------
(* Files *)

\* H5VL_NATIVE_FILE_POST_OPEN in H5VL_log_file_optional.
PostOpenUncounted == contig' = 1 /\ sid' = TRUE
PostOpen ==
  /\ contig' = contig + 1
  /\ sid' = (sid \/ contig = 0)

\* H5VL_log_file_create or _open, then the callback after opening.
H5Fopen(f) ==
  /\ state[f] = "none" /\ Holders(f) = {} /\ ~fileid[f]
  /\ state' = [state EXCEPT ![f] = "open"]
  /\ refcnt' = [refcnt EXCEPT ![f] = 1]
  /\ fileid' = [fileid EXCEPT ![f] = TRUE]
  /\ connector' = connector + 1
  /\ PostOpen
  /\ wrapped' = [wrapped EXCEPT ![f] = 0]
  /\ UNCHANGED <<obj, crashed, fails>>

\* H5VL_log_filei_close: the file object is freed, or the function returns on
\* an error before or after it drops the dataspace.
FileiClose(f, outcome) ==
  /\ state' = [state EXCEPT ![f] = IF outcome = "done" THEN "none" ELSE "broken"]
  /\ IF outcome = "early" THEN UNCHANGED <<contig, sid>>
                          ELSE contig' = contig - 1 /\ sid' = (contig # 1)

\* H5VL_log_filei_dec_ref.
DecRef(f, outcome) ==
  /\ refcnt' = [refcnt EXCEPT ![f] = @ - 1]
  /\ IF refcnt[f] = 1
     THEN outcome \in {"done", "early", "late"} /\ FileiClose(f, outcome)
     ELSE outcome = "held" /\ UNCHANGED filevars

Outcomes == {"held", "done", "early", "late"}
Failed(outcome) == outcome \in {"early", "late"}
CountFails(outcome) ==
  /\ Failed(outcome) => fails < MaxFails
  /\ fails' = IF Failed(outcome) THEN fails + 1 ELSE fails

\* References to the connector that a deleted file object gives back.
FreedTwice(outcome) == IF outcome = "done" THEN 2 ELSE 0
Freed(outcome) == IF outcome = "done" THEN 1 ELSE 0

\* H5VL_log_file_close.  The library keeps the ID when the callback fails.
FileCloseAtOnce(f, outcome) ==
  outcome # "held" /\ FileiClose(f, outcome) /\ refcnt' = [refcnt EXCEPT ![f] = @ - 1]
FileClose(f, outcome) == DecRef(f, outcome)
H5Fclose(f) ==
  /\ fileid[f] /\ state[f] # "none"
  /\ \E outcome \in Outcomes :
       /\ FileClose(f, outcome)
       /\ CountFails(outcome)
       /\ fileid' = [fileid EXCEPT ![f] = Failed(outcome)]
       /\ connector' = connector - Freed(outcome)
  /\ UNCHANGED <<obj, crashed, wrapped>>

\* The ID of a file object that was freed under it.
H5FcloseFreed(f) ==
  /\ fileid[f] /\ state[f] = "none"
  /\ fileid' = [fileid EXCEPT ![f] = FALSE]
  /\ crashed' \in BOOLEAN
  /\ UNCHANGED <<filevars, refcnt, obj, connector, fails, wrapped>>

-----------------------------------------------------------------------------
(* Objects *)

\* H5VL_log_obj_t::H5VL_log_obj_t (pp, type)
Constructor(f, o, type) ==
  /\ ~Exists(o)
  /\ obj' = [obj EXCEPT ![o] = [fp |-> f, type |-> type]]
  /\ refcnt' = [refcnt EXCEPT ![f] = @ + 1]
  /\ connector' = connector + 1
  /\ UNCHANGED <<filevars, fileid, crashed, wrapped>>

\* H5VL_log_obj_t::~H5VL_log_obj_t; of a freed file it counts down what the
\* memory has become.  An error of the file's close is dropped.
DestructorOfConnector(o) ==
  /\ connector' = connector - 1
  /\ obj' = [obj EXCEPT ![o] = None]
  /\ UNCHANGED <<filevars, refcnt, fileid, crashed, fails, wrapped>>
Destructor(o) ==
  LET f == obj[o].fp IN
  /\ \/ /\ state[f] # "none"
        /\ \E outcome \in Outcomes :
             /\ DecRef(f, outcome) /\ CountFails(outcome)
             /\ connector' = connector - 1 - Freed(outcome)
        /\ UNCHANGED crashed
     \/ /\ state[f] = "none"
        /\ crashed' \in BOOLEAN
        /\ connector' = connector - 1
        /\ UNCHANGED <<filevars, refcnt, fails>>
  /\ obj' = [obj EXCEPT ![o] = None]
  /\ UNCHANGED <<fileid, wrapped>>

\* The callbacks that create or open an object of a file.
Created(f, o, type) == Reachable(f) /\ Constructor(f, o, type) /\ UNCHANGED fails
H5Aopen(f, o) == Created(f, o, "ATTR")
H5Gopen(f, o) == Created(f, o, "GROUP")
H5Topen(f, o) == Created(f, o, "DATATYPE")
H5Dopen(f, o) == Created(f, o, "DATASET")
H5Oopen(f, o) ==
  \E type \in Kinds \ {"ATTR"} : Created(f, o, type)

\* The callbacks that close one; when the connector below fails they return
\* and the object stays.
Closes(o, type) == Exists(o) /\ obj[o].type = type /\ Destructor(o)
H5Aclose(o) == Closes(o, "ATTR")
H5Gclose(o) == Closes(o, "GROUP")
H5Tclose(o) == Closes(o, "DATATYPE")

\* A dataset whose merged request is gone ends the process (see Datasets).
H5Dclose(o) ==
  \/ Closes(o, "DATASET")
  \/ /\ Exists(o) /\ obj[o].type = "DATASET"
     /\ crashed' = TRUE
     /\ UNCHANGED <<filevars, refcnt, fileid, obj, connector, fails, wrapped>>

-----------------------------------------------------------------------------
(* Wrapping *)

\* A context that the connector below refuses is not deleted.
H5VL_log_get_wrap_ctx(f, o) ==
  /\ Reachable(f)
  /\ \/ Constructor(f, o, "CTX") /\ UNCHANGED fails
     \/ Constructor(f, o, "LOST") /\ CountFails("early")

\* Nor is one that it cannot free.
H5VL_log_free_wrap_ctx(o) ==
  /\ Exists(o) /\ obj[o].type = "CTX"
  /\ \/ Destructor(o)
     \/ /\ obj' = [obj EXCEPT ![o].type = "LOST"]
        /\ CountFails("early")
        /\ UNCHANGED <<filevars, refcnt, fileid, connector, crashed, wrapped>>

\* An object gets a wrapper of its own, a file its file object as it is.  The
\* library wraps a file only when there is no ID of it (any more).
WrapFile(f) ==
  /\ ~fileid[f] /\ wrapped[f] = 0
  /\ fileid' = [fileid EXCEPT ![f] = TRUE]
  /\ wrapped' = [wrapped EXCEPT ![f] = @ + 1]
  /\ UNCHANGED <<filevars, refcnt, obj, connector, crashed, fails>>
H5VL_log_wrap_object(c, o) ==
  /\ Exists(c) /\ obj[c].type = "CTX" /\ state[obj[c].fp] = "open"
  /\ \/ \E type \in Kinds : Constructor(obj[c].fp, o, type) /\ UNCHANGED fails
     \/ WrapFile(obj[c].fp)

\* The wrapper goes, the object below stays.
H5VL_log_unwrap_object(o) ==
  Exists(o) /\ obj[o].type \in Kinds /\ Destructor(o)

\* The program has closed all it can close, or has crashed.
Finished ==
  /\ \/ crashed
     \/ /\ \A f \in Files : ~fileid[f]
        /\ \A o \in Objs : Exists(o) => obj[o].type = "LOST"
  /\ UNCHANGED vars

Next ==
  \/ /\ ~crashed
     /\ \/ \E f \in Files :
             \/ H5Fopen(f) \/ H5Fclose(f) \/ H5FcloseFreed(f)
             \/ \E o \in Objs :
                  \/ H5Aopen(f, o) \/ H5Gopen(f, o) \/ H5Topen(f, o) \/ H5Dopen(f, o)
                  \/ H5Oopen(f, o) \/ H5VL_log_get_wrap_ctx(f, o)
        \/ \E o \in Objs :
             \/ H5Aclose(o) \/ H5Gclose(o) \/ H5Tclose(o) \/ H5Dclose(o)
             \/ H5VL_log_free_wrap_ctx(o) \/ H5VL_log_unwrap_object(o)
             \/ \E c \in Objs : H5VL_log_wrap_object(c, o)
  \/ Finished

Spec == Init /\ [][Next]_vars

-----------------------------------------------------------------------------
(* Properties *)

\* Every variable has its type.
TypeOK ==
  /\ state \in [Files -> {"none", "open", "broken"}]
  /\ refcnt \in [Files -> Int] /\ fileid \in [Files -> BOOLEAN]
  /\ obj \in [Objs -> Objects \cup {None}]
  /\ connector \in Nat /\ contig \in Nat /\ sid \in BOOLEAN
  /\ crashed \in BOOLEAN /\ fails \in 0 .. MaxFails
  /\ wrapped \in [Files -> Nat]

\* refcnt is the number of VOL objects that hold the file (file.hpp:48): its
\* ID, its objects and contexts, lost ones included, less what H5VL_log_
\* filei_wrap has handed out uncounted.
RefcntCountsHolders ==
  \A f \in Files : state[f] = "open" =>
    refcnt[f] = (IF fileid[f] THEN 1 ELSE 0) + Cardinality(Holders(f))
                - wrapped[f]

\* A file that was never wrapped is not closed under an object of it, in
\* whatever order the program closes its file IDs, objects and contexts.
FileOutlivesObjects ==
  \A f \in Files : wrapped[f] = 0 /\ Holders(f) # {} => state[f] = "open"

\* The last one to go closes the file: it stays open only while it has an ID,
\* an object or a lost context.
ClosedAfterLast ==
  \A f \in Files : state[f] = "open" => fileid[f] \/ Holders(f) # {}

\* The scalar dataspace that the flushes of all files use is open while any
\* file is, and no longer unless a close has failed.
DataspaceShared ==
  /\ (\E f \in Files : state[f] = "open") => sid
  /\ fails = 0 /\ (\A f \in Files : state[f] = "none") => ~sid

\* The connector below is held once by every wrapper that exists.
Present == {f \in Files : state[f] # "none"}
ConnectorHeld ==
  connector = 1 + Cardinality(Present) + Cardinality({o \in Objs : Exists(o)})
=============================================================================
