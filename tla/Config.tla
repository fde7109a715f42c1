------------------------------- MODULE Config -------------------------------
(***************************************************************************)
(* How H5VL_log is set up in a process and what becomes of its settings:   *)
(* the connector with MPI and its references to the connector below, the   *)
(* properties and the environment, the configuration of a file from        *)
(* session to session, and the entries written under it.                   *)
(*                                                                         *)
(* A process stands for all processes of a program, which have the same    *)
(* environment.  The environment lasts as long as the process; the files   *)
(* last longer.  Property lists are one of each class, made when first     *)
(* used.                                                                   *)
(***************************************************************************)
EXTENDS Integers, FiniteSets

CONSTANTS
  Files,
  Settings,     \* properties the program sets, a subset of Properties
  Zips, Encodings,  \* values of the environment
  Unset,        \* a variable the environment does not have
  MaxEntries,   \* bound: entries in a file
  MaxRefs       \* bound: references to the connector below

\* The properties that H5Pset_* of H5VL_log.cpp set, with their class.
ClassOf == [nonblocking |-> "dxpl", data_layout |-> "fcpl", subfiling |-> "fcpl",
            nb_buffer_size |-> "fapl", idx_buffer_size |-> "fapl", meta_merge |-> "fapl",
            meta_share |-> "fapl", meta_zip |-> "fapl", sel_encoding |-> "fapl"]
Properties == DOMAIN ClassOf
Classes == {"dxpl", "fcpl", "fapl"}

\* Setters that return in front of their first statement.
NoEffectOnBuffers == {"nb_buffer_size", "idx_buffer_size"}
NoEffectOnMetadata == {"meta_merge", "meta_share", "meta_zip", "sel_encoding"}
NoEffect == NoEffectOnBuffers \cup NoEffectOnMetadata

ASSUME Parameters ==
  /\ IsFiniteSet(Files)
  /\ Settings \subseteq Properties /\ MaxEntries \in Nat /\ MaxRefs \in Nat
  /\ Zips \subseteq {Unset, "0", "1"} /\ Encodings \subseteq {Unset, "canonical", "offset"}
  /\ Unset \notin {"1", "canonical"}
Environments == [zip : Zips, encoding : Encodings]
Flags == {"SEL_ENCODE", "SEL_DEFLATE"}

VARIABLES
  env,     \* H5VL_LOG_METADATA_ZIP, H5VL_LOG_SEL_ENCODING
  mpi,     \* "no", "running", or who has finalized it last
  lib,     \* the connector: its state, mpi_inited, and who began MPI (history)
  refs,    \* references to the connector below, 1 for its registration
  plists,  \* [Classes -> properties that were set to another value]
  vol,     \* the connector of the fapl: "native", "log", "log with info" or
           \* "default", the one HDF5_VOL_CONNECTOR names
  files,   \* on disk: the configuration in _int_att and the entries
  fp       \* in memory: state, config, and a dataset handle

vars == <<env, mpi, lib, refs, plists, vol, files, fp>>

Closed == [state |-> "closed", config |-> {}, handle |-> "none"]
NoFile == [exists |-> FALSE, config |-> {}, entries |-> {}]
Fresh ==
  [state |-> "unloaded", mpi_inited |-> FALSE, owner |-> "nobody"]

Init ==
  /\ env \in Environments
  /\ mpi = "no" /\ lib = Fresh /\ refs = 1 /\ vol = "native"
  /\ plists = [c \in Classes |-> {}]
  /\ files = [f \in Files |-> NoFile]
  /\ fp = [f \in Files |-> Closed]

\* The connector is registered once: H5VL_LOG_g is its ID.
Loaded == lib.state = "loaded"
Open(f) == fp[f].state = "open"
AllClosed == \A f \in Files : fp[f] = Closed

-----------------------------------------------------------------------------
(* The connector and MPI *)

\* A program either starts and ends MPI itself or leaves it alone.
MPI_Init ==
  /\ mpi = "no" /\ lib.state = "unloaded"
  /\ mpi' = "running" /\ lib' = [lib EXCEPT !.owner = "program"]
  /\ UNCHANGED <<env, refs, plists, vol, files, fp>>
MPI_Finalize ==
  /\ mpi = "running" /\ lib.owner = "program" /\ AllClosed
  /\ mpi' = "program"
  /\ UNCHANGED <<env, lib, refs, plists, vol, files, fp>>

\* HDF5_VOL_CONNECTOR="LOG under_vol=..;under_info={..}" is made into info,
\* which takes a reference to the connector below, for the default connector
\* of the library; the list copies that info.
StrToInfo == refs + 1

\* References held by the info of the list, and of the default connector.
InfoRefs(v) == CASE v = "log with info" -> 1 [] v = "default" -> 2 [] OTHER -> 0

\* MPI_Initialized: true for ever once MPI has begun.
Initialized == mpi # "no"
H5VL_log_init(named) ==
  /\ lib.state = "unloaded" /\ mpi \in {"no", "running"}
  /\ lib' = [state |-> "loaded", mpi_inited |-> Initialized,
             owner |-> IF Initialized THEN lib.owner ELSE "connector"]
  /\ mpi' = "running"
  /\ vol' = IF named THEN "default" ELSE vol
  /\ refs' = IF named THEN StrToInfo + 1 ELSE refs
  /\ UNCHANGED <<env, plists, files, fp>>

\* At the end of the program, which has closed its files, before or after it
\* finalizes MPI.  The list goes with the library; another program may start.
FinalizedByTermAlways == Initialized
FinalizedByTerm == ~lib.mpi_inited /\ Initialized
H5VL_log_obj_term ==
  /\ Loaded /\ AllClosed
  /\ lib' = [lib EXCEPT !.state = "ended"]
  /\ mpi' = IF FinalizedByTerm THEN "connector" ELSE mpi
  /\ vol' = "native" /\ refs' = refs - InfoRefs(vol)
  /\ UNCHANGED <<env, plists, files, fp>>
Restart(e) ==
  /\ lib.state = "ended" /\ mpi # "running"
  /\ env' = e /\ mpi' = "no" /\ lib' = Fresh /\ refs' = 1
  /\ plists' = [c \in Classes |-> {}]
  /\ UNCHANGED <<vol, files, fp>>

-----------------------------------------------------------------------------
(* Property lists *)

\* H5Pset_vol on a list that has the native connector: a program may pass no
\* info, as README.md does, or info, which the list copies.
InfoCopyUncounted == refs
InfoCopy == refs + 1
H5Pset_vol(info) ==
  /\ Loaded /\ vol = "native"
  /\ vol' = IF info THEN "log with info" ELSE "log"
  /\ refs' = IF info THEN InfoCopy ELSE refs
  /\ UNCHANGED <<env, mpi, lib, plists, files, fp>>

\* H5Pset_vol_log asks the list for its connector, which counts a reference
\* that nobody drops, and has the list copy the info made of it.
H5Pset_vol_log ==
  /\ Loaded /\ vol = "native" /\ refs + 2 <= MaxRefs
  /\ vol' = "log with info"
  /\ refs' = InfoCopy + 1
  /\ UNCHANGED <<env, mpi, lib, plists, files, fp>>

\* The list is closed and will be made anew: H5VL_log_info_free, and a copy of
\* the info of the default connector.
H5Pclose ==
  /\ vol # "native"
  /\ vol' = IF vol = "default" THEN vol ELSE "native"
  /\ refs' = IF vol = "default" THEN refs ELSE refs - InfoRefs(vol)
  /\ plists' = [plists EXCEPT !["fapl"] = {}]
  /\ UNCHANGED <<env, mpi, lib, files, fp>>

\* H5Pset_* of a property of this connector, on a list of some class, to
\* another value than the default.
H5Pset(p, class) ==
  /\ p \in Settings
  /\ IF p \in NoEffect \/ class # ClassOf[p] THEN UNCHANGED plists
     ELSE plists' = [plists EXCEPT ![class] = @ \cup {p}]
  /\ UNCHANGED <<env, mpi, lib, refs, vol, files, fp>>

\* H5Pget_* gives the default for a list of another class or without the
\* property: no compression, offsets.
IsSet(p) == p \in plists[ClassOf[p]]

-----------------------------------------------------------------------------
(* Files *)

\* H5VL_log_filei_parse_fapl.  H5VL_log_filei_parse_fcpl reads nothing: its
\* body is commented out.
Deflates(config, e) ==
  IF e.zip # Unset THEN e.zip = "1" ELSE IsSet("meta_zip") \/ "SEL_DEFLATE" \in config
Encodes(config, e) ==
  IF e.encoding # Unset THEN e.encoding # "canonical"
                        ELSE ~IsSet("sel_encoding") \/ "SEL_ENCODE" \in config
ParseFapl(config, e) ==
  (IF Deflates(config, e) THEN {"SEL_DEFLATE"} ELSE {})
    \cup (IF Encodes(config, e) THEN {"SEL_ENCODE"} ELSE {})

\* H5Pget_vol_info copies the info of the list; only its memory is freed.
Leaked == IF InfoRefs(vol) > 0 THEN 1 ELSE 0

\* A file object holds the connector below; if that refuses to make or open
\* the file, the object's reference is given back, and not that of the info.
H5Fcreate(f, done) ==
  /\ Loaded /\ mpi = "running" /\ vol # "native"
  /\ fp[f] = Closed /\ ~files[f].exists /\ refs + Leaked + 1 <= MaxRefs
  /\ LET config == ParseFapl({}, env)
     IN  IF done
         THEN /\ refs' = refs + Leaked + 1
              /\ files' = [files EXCEPT ![f] = [exists |-> TRUE, config |-> config,
                                                entries |-> {}]]
              /\ fp' = [fp EXCEPT ![f] = [state |-> "open", config |-> config,
                                          handle |-> "none"]]
         ELSE refs' = refs + Leaked /\ UNCHANGED <<files, fp>>
  /\ UNCHANGED <<env, mpi, lib, plists, vol>>
H5Fopen(f, done) ==
  /\ Loaded /\ mpi = "running" /\ vol # "native"
  /\ fp[f] = Closed /\ files[f].exists /\ refs + Leaked + 1 <= MaxRefs
  /\ IF done
     THEN /\ refs' = refs + Leaked + 1
          /\ fp' = [fp EXCEPT ![f] = [state |-> "opening", config |-> ParseFapl({}, env),
                                      handle |-> "none"]]
     ELSE refs' = refs + Leaked /\ UNCHANGED fp
  /\ UNCHANGED <<env, mpi, lib, plists, vol, files>>

\* H5VL_log_filei_post_open: the configuration comes from the file, whatever
\* H5VL_log_filei_parse_fapl made of the settings before.
PostOpen(f) ==
  /\ fp[f].state = "opening"
  /\ fp' = [fp EXCEPT ![f].state = "open", ![f].config = files[f].config]
  /\ UNCHANGED <<env, mpi, lib, refs, plists, vol, files>>

H5Fclose(f) ==
  /\ Open(f) /\ fp[f].handle = "none"
  /\ fp' = [fp EXCEPT ![f] = Closed]
  /\ files' = [files EXCEPT ![f].config = fp[f].config]
  /\ refs' = refs - 1
  /\ UNCHANGED <<env, mpi, lib, plists, vol>>

\* H5Fis_accessible and H5Fdelete copy the info in the same way, and leave a
\* list behind, which holds the connector below, if the call fails.
H5VL_log_file_specific(f, outcome) ==
  /\ Loaded /\ vol # "native" /\ fp[f] = Closed /\ files[f].exists
  /\ refs + Leaked + 1 <= MaxRefs
  /\ refs' = refs + Leaked + (IF outcome = "failed" THEN 1 ELSE 0)
  /\ files' = IF outcome = "deleted" THEN [files EXCEPT ![f] = NoFile] ELSE files
  /\ UNCHANGED <<env, mpi, lib, plists, vol, fp>>

-----------------------------------------------------------------------------
(* Datasets *)

\* H5Dcreate and H5Dopen compute the steps of the dataset if selections are
\* encoded; H5Oopen and the wrapping of a dataset never do.
StepsForgotten(f) == FALSE
Steps(f) == "SEL_ENCODE" \in fp[f].config
H5Dopen(f) ==
  /\ Open(f) /\ fp[f].handle = "none"
  /\ fp' = [fp EXCEPT ![f].handle = IF Steps(f) THEN "steps" ELSE "no steps"]
  /\ UNCHANGED <<env, mpi, lib, refs, plists, vol, files>>
H5Oopen(f) ==
  /\ Open(f) /\ fp[f].handle = "none"
  /\ fp' = [fp EXCEPT ![f].handle = "object"]
  /\ UNCHANGED <<env, mpi, lib, refs, plists, vol, files>>
H5Dclose(f) ==
  /\ fp[f].handle # "none"
  /\ fp' = [fp EXCEPT ![f].handle = "none"]
  /\ UNCHANGED <<env, mpi, lib, refs, plists, vol, files>>

\* A write of several blocks, and where its entry takes the steps from.  If
\* compression does not pay, the flag of the encoding is cleared.
EntryOf(f, pays) ==
  LET config == fp[f].config
  IN  [flags |-> IF "SEL_DEFLATE" \in config /\ ~pays THEN config \ {"SEL_ENCODE"} ELSE config,
       encoded |-> "SEL_ENCODE" \in config, pays |-> pays, by |-> fp[f].handle]
H5Dwrite(f, pays) ==
  /\ fp[f].handle # "none" /\ Cardinality(files[f].entries) < MaxEntries
  /\ files' = [files EXCEPT ![f].entries = @ \cup {EntryOf(f, pays)}]
  /\ UNCHANGED <<env, mpi, lib, refs, plists, vol, fp>>

-----------------------------------------------------------------------------
FileNext(f) ==
  \/ \E done \in BOOLEAN : H5Fcreate(f, done)
  \/ \E done \in BOOLEAN : H5Fopen(f, done)
  \/ \E o \in {"accessible", "deleted", "failed"} : H5VL_log_file_specific(f, o)
  \/ PostOpen(f) \/ H5Fclose(f)
  \/ H5Dopen(f) \/ H5Oopen(f) \/ H5Dclose(f)
  \/ \E pays \in BOOLEAN : H5Dwrite(f, pays)
Next ==
  \/ MPI_Init \/ MPI_Finalize \/ H5VL_log_obj_term
  \/ \E named \in BOOLEAN : H5VL_log_init(named)
  \/ \E e \in Environments : Restart(e)
  \/ \E info \in BOOLEAN : H5Pset_vol(info)
  \/ H5Pset_vol_log \/ H5Pclose
  \/ \E p \in Settings, class \in Classes : H5Pset(p, class)
  \/ \E f \in Files : FileNext(f)
Spec == Init /\ [][Next]_vars

-----------------------------------------------------------------------------
(* Properties *)

TypeOK ==
  /\ env \in Environments /\ mpi \in {"no", "running", "program", "connector"}
  /\ lib \in [state : {"unloaded", "loaded", "ended"}, mpi_inited : BOOLEAN,
              owner : {"nobody", "program", "connector"}]
  /\ refs \in Nat \ {0}
  /\ plists \in [Classes -> SUBSET Settings]
  /\ vol \in {"native", "log", "log with info", "default"}
  /\ files \in [Files -> [exists : BOOLEAN, config : SUBSET Flags,
                         entries : SUBSET [flags : SUBSET Flags, encoded : BOOLEAN,
                                           pays : BOOLEAN, by : {"steps", "no steps", "object"}]]]
  /\ fp \in [Files -> [state : {"closed", "opening", "open"}, config : SUBSET Flags,
                      handle : {"none", "steps", "no steps", "object"}]]

\* The connector below has a reference for each file, for the list that was
\* given its info and for the default connector, whichever calls failed: it is
\* never unloaded under them.
ConnectorCovers ==
  refs >= 1 + Cardinality({f \in Files : fp[f] # Closed}) + InfoRefs(vol)

\* MPI is finalized by the one who began it, and by the connector at the latest
\* when it is unloaded.
MpiEndedByItsOwner ==
  /\ mpi \in {"program", "connector"} => mpi = lib.owner
  /\ lib.state = "ended" /\ lib.owner = "connector" => mpi = "connector"

\* An entry encoded by a handle of H5Dcreate or H5Dopen was encoded with steps
\* that were computed, though the configuration of an open file changes.
EncodedWithSteps ==
  \A f \in Files : \A entry \in files[f].entries :
    entry.encoded /\ entry.by # "object" => entry.by = "steps"

-----------------------------------------------------------------------------
(* What a comment of the source says, and the code does not do *)

\* H5VL_log_file.cpp:349, "Fapl property can overwrite config in file, parse
\* after loading config": what H5VL_log_filei_parse_fapl finds set when a file
\* is opened decides how the file is encoded, whatever _int_att says.
SettingsOverwriteConfig ==
  \A f \in Files : Open(f) =>
    /\ env.zip # Unset => ("SEL_DEFLATE" \in fp[f].config) = (env.zip = "1")
    /\ env.encoding # Unset =>
         ("SEL_ENCODE" \in fp[f].config) = (env.encoding # "canonical")
=============================================================================
