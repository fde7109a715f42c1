---------------------------- MODULE ConfigProofs ----------------------------
(***************************************************************************)
(* Theorems about Config: for any files, properties and environments, and  *)
(* any number of sessions and failed calls.                                *)
(*                                                                         *)
(* Entries are encoded with the steps of their dataset because handles live *)
(* only on open files, whose configuration no longer changes (Handles).    *)
(* Who ends MPI follows from who began it (Began), and the references from *)
(* a count of the files that are open, none of which outlives the          *)
(* connector (Gone).                                                       *)
(***************************************************************************)
EXTENDS Config, FiniteSetTheorems, TLAPS

Held == {f \in Files : fp[f] # Closed}
InfoHeld == InfoRefs(vol)

Gone == ~Loaded => vol = "native" /\ AllClosed
Began ==
  /\ lib.state = "unloaded" =>
       \/ mpi = "no" /\ lib.owner = "nobody"
       \/ mpi \in {"running", "program"} /\ lib.owner = "program"
  /\ lib.state # "unloaded" =>
       /\ mpi # "no" /\ lib.owner \in {"program", "connector"}
       /\ lib.mpi_inited = (lib.owner = "program")
  /\ mpi \in {"program", "connector"} => mpi = lib.owner
  /\ mpi = "connector" => lib.state = "ended"
Entry == [flags : SUBSET Flags, encoded : BOOLEAN, pays : BOOLEAN,
          by : {"steps", "no steps", "object"}]
File == [exists : BOOLEAN, config : SUBSET Flags, entries : SUBSET Entry]
Fp == [state : {"closed", "opening", "open"}, config : SUBSET Flags,
       handle : {"none", "steps", "no steps", "object"}]

Ended == lib.state = "ended" /\ lib.owner = "connector" => mpi = "connector"

\* What holds of a file on disk and in memory.
Good(file, o) ==
  /\ file \in File /\ o \in Fp
  /\ o # Closed => file.exists /\ o.state \in {"opening", "open"}
  /\ o.handle # "none" => o.state = "open"
  /\ o.handle = "steps" => "SEL_ENCODE" \in o.config
  /\ o.handle = "no steps" => "SEL_ENCODE" \notin o.config
  /\ file.exists =>
       /\ o.state = "open" => o.config = file.config
       /\ \A entry \in file.entries : entry.encoded = ("SEL_ENCODE" \in file.config)
  /\ \A entry \in file.entries : entry.encoded /\ entry.by # "object" => entry.by = "steps"
Handles ==
  /\ files \in [Files -> File] /\ fp \in [Files -> Fp]
  /\ \A f \in Files : Good(files[f], fp[f])

Process ==
  /\ env \in Environments /\ mpi \in {"no", "running", "program", "connector"}
  /\ lib \in [state : {"unloaded", "loaded", "ended"}, mpi_inited : BOOLEAN,
              owner : {"nobody", "program", "connector"}]
  /\ refs \in Int
  /\ plists \in [Classes -> SUBSET Settings]
  /\ vol \in {"native", "log", "log with info", "default"}

IInv == Process /\ Handles /\ ConnectorCovers /\ Gone /\ Began /\ Ended

-----------------------------------------------------------------------------
(* Configurations *)

\* What is parsed is a configuration.
LEMMA Parsed == ParseFapl({}, env) \in SUBSET Flags
BY DEF ParseFapl, Flags

-----------------------------------------------------------------------------
(* References to the connector below *)

\* The open files are finitely many.
LEMMA HeldFinite == IsFiniteSet(Held) /\ Cardinality(Held) \in Nat
<1>1. Held \subseteq Files BY DEF Held
<1> QED BY <1>1, Parameters, FS_Subset, FS_CardinalityType

\* A file opened is one more.
LEMMA Opened ==
  ASSUME NEW f \in Files, f \notin Held, Held' = Held \cup {f}
  PROVE  Cardinality(Held') = Cardinality(Held) + 1
BY HeldFinite, FS_AddElement

\* A file closed is one less.
LEMMA ClosedOne ==
  ASSUME NEW f \in Files, f \in Held, Held' = Held \ {f}
  PROVE  Cardinality(Held') = Cardinality(Held) - 1
BY HeldFinite, FS_RemoveElement

\* The property as an inequality.
LEMMA Covers == ConnectorCovers <=> refs >= 1 + Cardinality(Held) + InfoHeld
BY DEF ConnectorCovers, Held, InfoHeld

\* The numbers in it, and the inequality.
LEMMA Counted ==
  ASSUME IInv
  PROVE  /\ refs \in Int /\ InfoHeld \in Int /\ InfoHeld >= 0 /\ Cardinality(Held) \in Nat
         /\ refs >= 1 + Cardinality(Held) + InfoHeld
<1>1. refs \in Int /\ ConnectorCovers BY DEF IInv, Process
<1>2. InfoHeld \in Int /\ InfoHeld >= 0 BY DEF InfoHeld, InfoRefs
<1>3. Cardinality(Held) \in Nat BY HeldFinite
<1>4. refs >= 1 + Cardinality(Held) + InfoHeld BY <1>1, Covers
<1> QED BY <1>1, <1>2, <1>3, <1>4

\* The invariants follow.
LEMMA Consequences ==
  ASSUME IInv
  PROVE  /\ TypeOK /\ ConnectorCovers /\ MpiEndedByItsOwner /\ EncodedWithSteps
<1>1. refs \in Nat \ {0}
  BY Counted
<1>2. TypeOK
  BY <1>1 DEF IInv, Process, Handles, TypeOK, File, Fp, Entry
<1>3. MpiEndedByItsOwner
  <2>1. lib.state = "ended" /\ lib.owner = "connector" => mpi = "connector"
    BY DEF IInv, Ended
  <2> QED BY <2>1 DEF IInv, Began, MpiEndedByItsOwner
<1>4. EncodedWithSteps
  BY DEF IInv, Handles, Good, EncodedWithSteps
<1> QED BY <1>2, <1>3, <1>4 DEF IInv

-----------------------------------------------------------------------------
(* What the actions on a file do *)

\* A call on one file: what must hold of that file afterwards, and of the
\* references if it is opened, closed, or stays as it was.
LEMMA OneFile ==
  ASSUME IInv, NEW f \in Files, NEW file, NEW o, Good(file, o),
         files' = [files EXCEPT ![f] = file], fp' = [fp EXCEPT ![f] = o],
         refs' \in Int,
         o # Closed => Loaded,
         \/ fp[f] = Closed /\ o # Closed /\ refs' >= refs + 1
         \/ fp[f] # Closed /\ o = Closed /\ refs' >= refs - 1
         \/ (fp[f] = Closed <=> o = Closed) /\ refs' >= refs,
         UNCHANGED <<env, mpi, lib, plists, vol>>
  PROVE  IInv'
<1>1. Handles'
  BY DEF IInv, Handles, Good
<1>2. /\ fp'[f] = o /\ \A g \in Files \ {f} : fp'[g] = fp[g]
      /\ fp \in [Files -> Fp]
  BY DEF IInv, Handles
<1>3. refs \in Int /\ InfoHeld \in Int /\ InfoHeld' = InfoHeld /\ Cardinality(Held) \in Nat
      /\ refs >= 1 + Cardinality(Held) + InfoHeld
  <2>1. InfoHeld' = InfoHeld BY DEF InfoHeld
  <2> QED BY <2>1, Counted
<1>4. refs' >= 1 + Cardinality(Held') + InfoHeld'
  <2>1. CASE fp[f] = Closed /\ o # Closed /\ refs' >= refs + 1
    <3>1. f \notin Held /\ Held' = Held \cup {f} BY <2>1, <1>2 DEF Held, Closed
    <3>2. Cardinality(Held') = Cardinality(Held) + 1 BY <3>1, Opened
    <3> QED BY <2>1, <3>2, <1>3
  <2>2. CASE fp[f] # Closed /\ o = Closed /\ refs' >= refs - 1
    <3>1. f \in Held /\ Held' = Held \ {f} BY <2>2, <1>2 DEF Held, Closed
    <3>2. Cardinality(Held') = Cardinality(Held) - 1 BY <3>1, ClosedOne
    <3> QED BY <2>2, <3>2, <1>3
  <2>3. CASE (fp[f] = Closed <=> o = Closed) /\ refs' >= refs
    <3>1. Held' = Held BY <2>3, <1>2 DEF Held, Closed
    <3> QED BY <2>3, <3>1, <1>3
  <2> QED BY <2>1, <2>2, <2>3
<1>5. ConnectorCovers'
  BY <1>4 DEF ConnectorCovers, Held, InfoHeld
<1>6. Process' BY DEF IInv, Process
<1>7. Began' /\ Ended' BY DEF IInv, Began, Ended
<1>8. Gone'
  <2>1. ASSUME ~Loaded PROVE vol = "native" /\ AllClosed /\ o = Closed
    BY <2>1 DEF IInv, Gone
  <2> QED BY <2>1, <1>2 DEF Gone, AllClosed, Loaded, Closed
<1> QED BY <1>1, <1>5, <1>6, <1>7, <1>8 DEF IInv

\* A call on no file: no reference is dropped but those of the info.
Kept == refs' - InfoHeld' >= refs - InfoHeld
\* Such a call keeps the invariant.
LEMMA NoFileChanged ==
  ASSUME IInv, UNCHANGED <<files, fp>>, Process', Gone', Began', Ended', Kept
  PROVE  IInv'
<1>1. Handles' BY DEF IInv, Handles
<1>2. Held' = Held BY DEF Held
<1>3. refs' \in Int /\ InfoHeld' \in Int
  <2>1. refs' \in Int BY DEF Process
  <2>2. InfoHeld' \in Int BY DEF InfoHeld, InfoRefs
  <2> QED BY <2>1, <2>2
<1>4. refs' >= 1 + Cardinality(Held') + InfoHeld'
  <2>1. PICK c \in Nat : c = Cardinality(Held) BY Counted
  <2>2. refs >= 1 + c + InfoHeld /\ refs \in Int /\ InfoHeld \in Int BY <2>1, Counted
  <2>3. PICK r \in Int, s \in Int, x \in Int, y \in Int :
          r = refs /\ s = refs' /\ x = InfoHeld /\ y = InfoHeld'
    BY <1>3, <2>2
  <2>4. r >= 1 + c + x BY <2>2, <2>3
  <2>5. s - y >= r - x BY <2>3 DEF Kept
  <2>6. s >= 1 + c + y BY <2>1, <2>4, <2>5
  <2> QED BY <2>1, <2>3, <2>6, <1>2
<1>5. ConnectorCovers'
  BY <1>4 DEF ConnectorCovers, Held, InfoHeld
<1> QED BY <1>1, <1>5 DEF IInv

-----------------------------------------------------------------------------
(* The invariant *)

\* Without open files none is held.
LEMMA NoneHeld ==
  ASSUME IInv, ~Loaded
  PROVE  Held = {} /\ Cardinality(Held) = 0 /\ InfoHeld = 0
<1>1. vol = "native" /\ AllClosed BY DEF IInv, Gone
<1>2. Held = {} BY <1>1 DEF Held, AllClosed
<1>3. InfoHeld = 0 BY <1>1 DEF InfoHeld, InfoRefs
<1> QED BY <1>2, <1>3, FS_EmptySet

\* It holds before the program does anything.
LEMMA InitIInv == ASSUME Init PROVE IInv
<1>1. Process
  <2>1. lib \in [state : {"unloaded", "loaded", "ended"}, mpi_inited : BOOLEAN,
                 owner : {"nobody", "program", "connector"}]
    BY DEF Init, Fresh
  <2>2. plists \in [Classes -> SUBSET Settings] BY DEF Init
  <2> QED BY <2>1, <2>2 DEF Init, Process
<1>2. Handles
  <2>1. NoFile \in File /\ Closed \in Fp
    BY DEF NoFile, Closed, File, Fp
  <2>2. Good(NoFile, Closed)
    BY <2>1 DEF Good, NoFile, Closed
  <2>3. \A f \in Files : files[f] = NoFile /\ fp[f] = Closed BY DEF Init
  <2>4. files \in [Files -> File] /\ fp \in [Files -> Fp] BY <2>1 DEF Init
  <2> QED BY <2>2, <2>3, <2>4 DEF Handles
<1>3. ConnectorCovers
  <2>1. Held = {} /\ InfoHeld = 0 BY DEF Init, Held, InfoHeld, InfoRefs
  <2>2. refs >= 1 + Cardinality(Held) + InfoHeld
    BY <2>1, FS_EmptySet DEF Init
  <2> QED BY <2>2, Covers
<1>5. Gone /\ Began /\ Ended BY DEF Init, Gone, AllClosed, Began, Ended, Fresh
<1> QED BY <1>1, <1>2, <1>3, <1>5 DEF IInv

\* The calls on no file.
LEMMA MPI_InitStep == ASSUME IInv, MPI_Init PROVE IInv'
<1> USE DEF IInv, MPI_Init
<1>0. refs \in Int /\ InfoHeld \in Int BY Counted
<1>1. Process' BY DEF Process
<1>2. Began' /\ Ended' BY DEF Began, Ended, Process
<1>3. Gone' BY DEF Gone, Loaded, AllClosed
<1>4. Kept
  <2>1. refs' = refs /\ InfoHeld' = InfoHeld BY DEF InfoHeld
  <2> QED BY <1>0, <2>1 DEF Kept
<1> QED BY <1>1, <1>2, <1>3, <1>4, NoFileChanged

\* The program ends MPI: no count changes.
LEMMA MPI_FinalizeStep == ASSUME IInv, MPI_Finalize PROVE IInv'
<1> USE DEF IInv, MPI_Finalize
<1>0. refs \in Int /\ InfoHeld \in Int BY Counted
<1>1. Process' BY DEF Process
<1>2. Began' /\ Ended' BY DEF Began, Ended, Process
<1>3. Gone' BY DEF Gone, Loaded, AllClosed
<1>4. Kept
  <2>1. refs' = refs /\ InfoHeld' = InfoHeld BY DEF InfoHeld
  <2> QED BY <1>0, <2>1 DEF Kept
<1> QED BY <1>1, <1>2, <1>3, <1>4, NoFileChanged

\* Registration, with the reference of the default connector.
LEMMA H5VL_log_initStep ==
  ASSUME IInv, NEW named \in BOOLEAN, H5VL_log_init(named)
  PROVE  IInv'
<1> USE DEF IInv, H5VL_log_init
<1>0. refs \in Int BY DEF Process
<1>1. vol = "native" BY DEF Gone, Loaded
<1>2. \/ vol' = "native" /\ refs' = refs
      \/ vol' = "default" /\ refs' = refs + 1 + 1
  BY <1>1 DEF StrToInfo
<1>3. refs' \in Int BY <1>0, <1>2
<1>4. Process' BY <1>2, <1>3 DEF Process, Initialized
<1>5. Began' /\ Ended' BY DEF Began, Ended, Process, Initialized
<1>6. Gone' BY DEF Gone, Loaded, AllClosed
<1>7. Kept
  <2>1. InfoHeld = 0 BY <1>1 DEF InfoHeld, InfoRefs
  <2>2. CASE vol' = "native" /\ refs' = refs
    <3>1. InfoHeld' = 0 BY <2>2 DEF InfoHeld, InfoRefs
    <3> QED BY <1>0, <2>1, <2>2, <3>1 DEF Kept
  <2>3. CASE vol' = "default" /\ refs' = refs + 1 + 1
    <3>1. InfoHeld' = 2 BY <2>3 DEF InfoHeld, InfoRefs
    <3>2. \A r, t \in Int : t = r + 1 + 1 => t - 2 >= r - 0 OBVIOUS
    <3>3. refs' - 2 >= refs - 0 BY <1>0, <1>3, <2>3, <3>2
    <3> QED BY <2>1, <3>1, <3>3 DEF Kept
  <2> QED BY <1>2, <2>2, <2>3
<1> QED BY <1>4, <1>5, <1>6, <1>7, NoFileChanged

\* Termination ends MPI if the connector began it.
LEMMA H5VL_log_obj_termStep == ASSUME IInv, H5VL_log_obj_term PROVE IInv'
<1>0. refs \in Int /\ InfoHeld \in Int BY Counted
<1>1. UNCHANGED <<env, plists, files, fp>> /\ AllClosed BY DEF H5VL_log_obj_term
<1>2. vol' = "native" /\ refs' = refs - InfoHeld BY DEF H5VL_log_obj_term, InfoHeld
<1>3. refs' \in Int BY <1>0, <1>2
<1>4. lib' \in [state : {"unloaded", "loaded", "ended"}, mpi_inited : BOOLEAN,
                owner : {"nobody", "program", "connector"}]
  BY DEF IInv, Process, H5VL_log_obj_term
<1>5. mpi' \in {"no", "running", "program", "connector"}
  BY DEF IInv, Process, H5VL_log_obj_term
<1>6. Process' BY <1>1, <1>2, <1>3, <1>4, <1>5 DEF IInv, Process
<1>7. Gone' BY <1>1, <1>2 DEF IInv, Gone, AllClosed
<1>8. Began' /\ Ended'
  BY DEF IInv, Process, Began, Ended, H5VL_log_obj_term, FinalizedByTerm, Initialized, Loaded
<1>9. Kept
  <2>1. InfoHeld' = 0 BY <1>2 DEF InfoHeld, InfoRefs
  <2> QED BY <1>0, <1>2, <2>1 DEF Kept
<1> QED BY <1>1, <1>6, <1>7, <1>8, <1>9, NoFileChanged

\* The info of the list is replaced.
LEMMA H5Pset_volStep == ASSUME IInv, NEW info \in BOOLEAN, H5Pset_vol(info) PROVE IInv'
<1>0. refs \in Int BY DEF IInv, Process
<1>1. UNCHANGED <<env, mpi, lib, plists, files, fp>> BY DEF H5Pset_vol
<1>2. Loaded /\ Loaded' BY <1>1 DEF H5Pset_vol, Loaded
<1>3. vol' \in {"native", "log", "log with info"} BY DEF H5Pset_vol
<1>4. \/ refs' = InfoCopy
      \/ refs' = refs /\ vol' # "log with info"
  BY DEF H5Pset_vol
<1>5. refs' \in Int
  <2>1. refs' = InfoCopy \/ refs' = refs BY <1>4
  <2> QED BY <2>1, <1>0 DEF InfoCopy
<1>6. Process' BY <1>1, <1>3, <1>5 DEF IInv, Process
<1>7. Gone' /\ Began' /\ Ended'
  BY <1>1, <1>2 DEF IInv, Gone, Began, Ended
<1>8. Kept
  <2>1. InfoHeld = 0 BY DEF H5Pset_vol, InfoHeld, InfoRefs
  <2>2. CASE info
    <3>1. refs' = refs + 1 /\ InfoHeld' = 1
      BY <2>2 DEF H5Pset_vol, InfoCopy, InfoHeld, InfoRefs
    <3> QED BY <1>0, <2>1, <3>1 DEF Kept
  <2>3. CASE ~info
    <3>1. refs' = refs /\ InfoHeld' = 0 BY <2>3 DEF H5Pset_vol, InfoHeld, InfoRefs
    <3> QED BY <1>0, <2>1, <3>1 DEF Kept
  <2> QED BY <2>2, <2>3
<1> QED BY <1>1, <1>6, <1>7, <1>8, NoFileChanged DEF IInv

\* So it is by the function of the connector.
LEMMA H5Pset_vol_logStep == ASSUME IInv, H5Pset_vol_log PROVE IInv'
<1>0. refs \in Int BY DEF IInv, Process
<1>1. UNCHANGED <<env, mpi, lib, plists, files, fp>> BY DEF H5Pset_vol_log
<1>2. Loaded /\ Loaded' BY <1>1 DEF H5Pset_vol_log, Loaded
<1>3. vol' = "log with info" BY DEF H5Pset_vol_log
<1>4. refs' = InfoCopy + 1 BY DEF H5Pset_vol_log
<1>5. refs' \in Int /\ refs' >= refs + 1 BY <1>0, <1>4 DEF InfoCopy
<1>6. Process' BY <1>1, <1>3, <1>5 DEF IInv, Process
<1>7. Gone' /\ Began' /\ Ended'
  BY <1>1, <1>2 DEF IInv, Gone, Began, Ended
<1>8. Kept
  <2>1. InfoHeld = 0 /\ InfoHeld' = 1 BY <1>3 DEF H5Pset_vol_log, InfoHeld, InfoRefs
  <2>2. \A r, t \in Int : t >= r + 1 => t - 1 >= r - 0 OBVIOUS
  <2>3. refs' - 1 >= refs - 0 BY <1>0, <1>5, <2>2
  <2> QED BY <2>1, <2>3 DEF Kept
<1> QED BY <1>1, <1>6, <1>7, <1>8, NoFileChanged DEF IInv

\* A closed list gives its info back.
LEMMA H5PcloseStep == ASSUME IInv, H5Pclose PROVE IInv'
<1>0. refs \in Int /\ InfoHeld \in Int BY Counted
<1>1. UNCHANGED <<env, mpi, lib, files, fp>> BY DEF H5Pclose
<1>2. \/ vol' = "native" /\ refs' = refs - InfoHeld
      \/ vol' = vol /\ vol = "default" /\ refs' = refs
  BY DEF H5Pclose, InfoHeld
<1>3. refs' \in Int BY <1>0, <1>2
<1>4. plists' \in [Classes -> SUBSET Settings]
  <2>1. plists \in [Classes -> SUBSET Settings] BY DEF IInv, Process
  <2>2. plists' = [plists EXCEPT !["fapl"] = {}] BY DEF H5Pclose
  <2> QED BY <2>1, <2>2 DEF Classes
<1>5. Process'
  <2>1. vol' \in {"native", "log", "log with info", "default"} BY <1>2
  <2> QED BY <1>1, <2>1, <1>3, <1>4 DEF IInv, Process
<1>7. Gone' /\ Began' /\ Ended'
  <2>1. ~Loaded => vol' = "native" BY <1>2 DEF IInv, Gone
  <2> QED BY <1>1, <2>1 DEF IInv, Gone, Loaded, AllClosed, Began, Ended
<1>8. Kept
  <2>1. CASE vol' = "native" /\ refs' = refs - InfoHeld
    <3>1. InfoHeld' = 0 BY <2>1 DEF InfoHeld, InfoRefs
    <3> QED BY <1>0, <2>1, <3>1 DEF Kept
  <2>2. CASE vol' = vol /\ refs' = refs
    <3>1. InfoHeld' = InfoHeld BY <2>2 DEF InfoHeld
    <3> QED BY <1>0, <2>2, <3>1 DEF Kept
  <2> QED BY <1>2, <2>1, <2>2
<1> QED BY <1>1, <1>5, <1>7, <1>8, NoFileChanged

\* Properties of a list change no count.
LEMMA H5PsetStep ==
  ASSUME IInv, NEW p \in Settings, NEW class \in Classes, H5Pset(p, class)
  PROVE  IInv'
<1>1. UNCHANGED <<env, mpi, lib, refs, vol, files, fp>> BY DEF H5Pset
<1>2. plists \in [Classes -> SUBSET Settings] BY DEF IInv, Process
<1>3. plists' \in [Classes -> SUBSET Settings]
  <2>1. plists' = plists \/ plists' = [plists EXCEPT ![class] = @ \cup {p}]
    BY DEF H5Pset
  <2>2. plists[class] \cup {p} \in SUBSET Settings BY <1>2
  <2> QED BY <2>1, <2>2, <1>2
<1>4. Process' BY <1>1, <1>3 DEF IInv, Process
<1>6. Gone' /\ Began' /\ Ended' BY <1>1 DEF IInv, Gone, Loaded, AllClosed, Began, Ended
<1>7. Kept
  <2>1. refs' = refs /\ InfoHeld' = InfoHeld BY <1>1 DEF InfoHeld
  <2> QED BY <2>1, Counted DEF Kept
<1> QED BY <1>1, <1>4, <1>6, <1>7, NoFileChanged

\* The program ends and another one starts, with the files there are.
LEMMA RestartStep ==
  ASSUME IInv, NEW e \in Environments, Restart(e)
  PROVE  IInv'
<1> USE DEF IInv, Restart
<1>1. Process'
  <2>1. plists' \in [Classes -> SUBSET Settings] OBVIOUS
  <2>2. lib' \in [state : {"unloaded", "loaded", "ended"}, mpi_inited : BOOLEAN,
                  owner : {"nobody", "program", "connector"}]
    BY DEF Fresh
  <2>3. refs' \in Int /\ mpi' = "no" /\ env' \in Environments OBVIOUS
  <2>4. vol' \in {"native", "log", "log with info", "default"} BY DEF Process
  <2> QED BY <2>1, <2>2, <2>3, <2>4 DEF Process
<1>2. Handles' BY DEF Handles
<1>3. vol = "native" /\ AllClosed BY DEF Gone, Loaded
<1>4. ConnectorCovers'
  <2>1. Held = {} /\ Cardinality(Held) = 0 /\ InfoHeld = 0 BY NoneHeld DEF Loaded
  <2>2. Held' = {} /\ InfoHeld' = 0 BY <1>3, <2>1 DEF Held, InfoHeld, AllClosed
  <2>3. Cardinality(Held') = 0 BY <2>2, FS_EmptySet
  <2>4. refs' >= 1 + Cardinality(Held') + InfoHeld' BY <2>2, <2>3
  <2> QED BY <2>4 DEF ConnectorCovers, Held, InfoHeld
<1>6. Gone' /\ Began' /\ Ended' BY <1>3 DEF Gone, AllClosed, Began, Ended, Fresh
<1> QED BY <1>1, <1>2, <1>4, <1>6

(* The calls on a file *)

\* A file and its object, by their types.
LEMMA Settled ==
  ASSUME IInv, NEW f \in Files
  PROVE  /\ files \in [Files -> File] /\ fp \in [Files -> Fp] /\ Good(files[f], fp[f])
         /\ files[f] \in File /\ fp[f] \in Fp
         /\ files = [files EXCEPT ![f] = files[f]] /\ fp = [fp EXCEPT ![f] = fp[f]]
         /\ fp[f] # Closed => Loaded
         /\ refs \in Int /\ Leaked \in {0, 1}
<1>1. files \in [Files -> File] /\ fp \in [Files -> Fp] /\ Good(files[f], fp[f])
  BY DEF IInv, Handles
<1>2. fp[f] # Closed => Loaded BY DEF IInv, Gone, AllClosed
<1>3. refs \in Int BY DEF IInv, Process
<1>4. Leaked \in {0, 1} BY DEF Leaked
<1> QED BY <1>1, <1>2, <1>3, <1>4

\* One more reference, or as many, or none.
LEMMA Arithmetic ==
  ASSUME NEW r \in Int, NEW x \in {0, 1}
  PROVE  /\ r + x + 1 \in Int /\ r + x + 1 >= r + 1 /\ r + x + 1 >= r
         /\ r + x \in Int /\ r + x >= r /\ r + x + 0 \in Int /\ r + x + 0 >= r
         /\ r - 1 \in Int /\ r - 1 >= r - 1 /\ r >= r
OBVIOUS

\* A call that leaves the files on disk and in memory as they are.
LEMMA NothingDone ==
  ASSUME IInv, NEW f \in Files, UNCHANGED <<files, fp>>, refs' \in Int, refs' >= refs,
         UNCHANGED <<env, mpi, lib, plists, vol>>
  PROVE  IInv'
<1>1. files' = [files EXCEPT ![f] = files[f]] /\ fp' = [fp EXCEPT ![f] = fp[f]]
  BY Settled
<1> QED BY <1>1, Settled, OneFile

\* A file created.
LEMMA H5FcreateStep ==
  ASSUME IInv, NEW f \in Files, NEW done \in BOOLEAN, H5Fcreate(f, done)
  PROVE  IInv'
<1> DEFINE config == ParseFapl({}, env)
           file == [exists |-> TRUE, config |-> config, entries |-> {}]
           o == [state |-> "open", config |-> config,
                 handle |-> "none"]
<1>1. UNCHANGED <<env, mpi, lib, plists, vol>> /\ Loaded /\ fp[f] = Closed
  BY DEF H5Fcreate
<1>2. CASE done
  <2>1. /\ refs' = refs + Leaked + 1
        /\ files' = [files EXCEPT ![f] = file] /\ fp' = [fp EXCEPT ![f] = o]
    BY <1>2 DEF H5Fcreate
  <2>2. refs' \in Int /\ refs' >= refs + 1 BY <2>1, Settled, Arithmetic
  <2>3. Good(file, o)
    <3>1. config \in SUBSET Flags BY Parsed
    <3> HIDE DEF config
    <3>2. file \in File /\ o \in Fp BY <3>1 DEF File, Fp
    <3> QED BY <3>1, <3>2 DEF Good
  <2>4. o # Closed BY DEF Closed
  <2> HIDE DEF file, o
  <2> QED BY <1>1, <2>1, <2>2, <2>3, <2>4, OneFile
<1>3. CASE ~done
  <2>1. refs' = refs + Leaked /\ UNCHANGED <<files, fp>> BY <1>3 DEF H5Fcreate
  <2>2. refs' \in Int /\ refs' >= refs BY <2>1, Settled, Arithmetic
  <2> QED BY <1>1, <2>1, <2>2, NothingDone
<1> QED BY <1>2, <1>3

\* A file opened.
LEMMA H5FopenStep ==
  ASSUME IInv, NEW f \in Files, NEW done \in BOOLEAN, H5Fopen(f, done)
  PROVE  IInv'
<1> DEFINE config == ParseFapl({}, env)
           o == [state |-> "opening", config |-> config,
                 handle |-> "none"]
<1>1. /\ UNCHANGED <<env, mpi, lib, plists, vol, files>> /\ Loaded
      /\ fp[f] = Closed /\ files[f].exists
  BY DEF H5Fopen
<1>2. CASE done
  <2>1. refs' = refs + Leaked + 1 /\ fp' = [fp EXCEPT ![f] = o] BY <1>2 DEF H5Fopen
  <2>2. refs' \in Int /\ refs' >= refs + 1 BY <2>1, Settled, Arithmetic
  <2>3. files' = [files EXCEPT ![f] = files[f]] BY <1>1, Settled
  <2>4. Good(files[f], o)
    <3>1. config \in SUBSET Flags BY Parsed
    <3> HIDE DEF config
    <3>2. o \in Fp BY <3>1 DEF Fp
    <3>3. Good(files[f], fp[f]) BY Settled
    <3> QED BY <1>1, <3>2, <3>3 DEF Good
  <2>5. o # Closed BY DEF Closed
  <2> HIDE DEF o
  <2> QED BY <1>1, <2>1, <2>2, <2>3, <2>4, <2>5, OneFile
<1>3. CASE ~done
  <2>1. refs' = refs + Leaked /\ UNCHANGED <<files, fp>> BY <1>1, <1>3 DEF H5Fopen
  <2>2. refs' \in Int /\ refs' >= refs BY <2>1, Settled, Arithmetic
  <2> QED BY <1>1, <2>1, <2>2, NothingDone
<1> QED BY <1>2, <1>3

\* The other calls on files.
LEMMA FileSpecificStep ==
  ASSUME IInv, NEW f \in Files, NEW outcome \in {"accessible", "deleted", "failed"},
         H5VL_log_file_specific(f, outcome)
  PROVE  IInv'
<1>1. UNCHANGED <<env, mpi, lib, plists, vol, fp>> /\ fp[f] = Closed
  BY DEF H5VL_log_file_specific
<1>2. refs' \in Int /\ refs' >= refs
  <2>1. refs' = refs + Leaked + 1 \/ refs' = refs + Leaked + 0
    BY DEF H5VL_log_file_specific
  <2> QED BY <2>1, Settled, Arithmetic
<1>3. CASE outcome = "deleted"
  <2>1. files' = [files EXCEPT ![f] = NoFile] /\ fp' = [fp EXCEPT ![f] = Closed]
    BY <1>1, <1>3, Settled DEF H5VL_log_file_specific
  <2>2. Good(NoFile, Closed)
    BY <1>1, Settled DEF Good, NoFile, File, Closed
  <2> QED BY <1>1, <1>2, <2>1, <2>2, OneFile
<1>4. CASE outcome # "deleted"
  <2>1. UNCHANGED files BY <1>4 DEF H5VL_log_file_specific
  <2> QED BY <1>1, <1>2, <2>1, NothingDone
<1> QED BY <1>3, <1>4

\* A call on a file that is open or being opened, and stays so.
LEMMA StaysOpen ==
  ASSUME IInv, NEW f \in Files, NEW file, NEW o, fp[f] # Closed, o # Closed, Good(file, o),
         files' = [files EXCEPT ![f] = file], fp' = [fp EXCEPT ![f] = o],
         UNCHANGED <<env, mpi, lib, refs, plists, vol>>
  PROVE  IInv'
<1>1. Loaded /\ refs \in Int BY Settled
<1>2. refs' \in Int /\ refs' >= refs BY <1>1, Arithmetic
<1> QED BY <1>1, <1>2, OneFile

\* The second half of opening a file.
LEMMA PostOpenStep == ASSUME IInv, NEW f \in Files, PostOpen(f) PROVE IInv'
<1> DEFINE o == [fp[f] EXCEPT !.state = "open", !.config = files[f].config]
<1>1. UNCHANGED <<env, mpi, lib, refs, plists, vol, files>> /\ fp[f].state = "opening"
  BY DEF PostOpen
<1>2. Good(files[f], fp[f]) /\ files[f] \in File /\ fp[f] \in Fp BY Settled
<1>3. fp[f] # Closed BY <1>1 DEF Closed
<1>4. fp' = [fp EXCEPT ![f] = o]
  <2>1. fp \in [Files -> Fp] BY Settled
  <2> QED BY <2>1 DEF PostOpen, Fp
<1>5. o \in Fp /\ o.state = "open" /\ o.config = files[f].config /\ o.handle = fp[f].handle
  BY <1>2 DEF Fp, File
<1>6. Good(files[f], o) BY <1>1, <1>2, <1>3, <1>5 DEF Good
<1>7. o # Closed BY <1>5 DEF Closed
<1>8. files' = [files EXCEPT ![f] = files[f]] BY <1>1, Settled
<1> HIDE DEF o
<1> QED BY <1>1, <1>3, <1>4, <1>6, <1>7, <1>8, StaysOpen

\* A closed file gives its reference back.
LEMMA H5FcloseStep == ASSUME IInv, NEW f \in Files, H5Fclose(f) PROVE IInv'
<1> DEFINE file == [files[f] EXCEPT !.config = fp[f].config]
<1>1. UNCHANGED <<env, mpi, lib, plists, vol>> /\ Open(f) BY DEF H5Fclose
<1>2. /\ Good(files[f], fp[f]) /\ files[f] \in File /\ fp[f] \in Fp
      /\ files \in [Files -> File]
  BY Settled
<1>3. fp[f] # Closed BY <1>1 DEF Open, Closed
<1>4. files' = [files EXCEPT ![f] = file] /\ fp' = [fp EXCEPT ![f] = Closed]
  BY <1>2 DEF H5Fclose, File
<1>5. file = files[f]
  <2>1. fp[f].config = files[f].config BY <1>1, <1>2, <1>3 DEF Good, Open
  <2> QED BY <1>2, <2>1 DEF File
<1>6. Good(file, Closed)
  <2>1. Closed \in Fp BY DEF Closed, Fp
  <2> HIDE DEF file
  <2> QED BY <1>2, <1>5, <2>1 DEF Good, Closed
<1>7. refs' = refs - 1 BY DEF H5Fclose
<1>8. refs' \in Int /\ refs' >= refs - 1 BY <1>7, Settled, Arithmetic
<1> HIDE DEF file
<1> QED BY <1>1, <1>3, <1>4, <1>6, <1>8, OneFile

\* Opening and closing a dataset, and the steps it is opened with.
LEMMA HandleStep ==
  ASSUME IInv, NEW f \in Files, H5Dopen(f) \/ H5Oopen(f) \/ H5Dclose(f)
  PROVE  IInv'
<1>1. UNCHANGED <<env, mpi, lib, refs, plists, vol, files>>
  BY DEF H5Dopen, H5Oopen, H5Dclose
<1>2. Good(files[f], fp[f]) /\ files[f] \in File /\ fp[f] \in Fp BY Settled
<1>3. fp[f].state = "open" BY <1>2 DEF H5Dopen, H5Oopen, H5Dclose, Open, Good
<1>4. PICK h \in {"none", "steps", "no steps", "object"} :
        /\ fp' = [fp EXCEPT ![f].handle = h]
        /\ h = "steps" => "SEL_ENCODE" \in fp[f].config
        /\ h = "no steps" => "SEL_ENCODE" \notin fp[f].config
  <2>1. CASE H5Dopen(f)
    <3>1. CASE Steps(f) BY <2>1, <3>1 DEF H5Dopen, Steps
    <3>2. CASE ~Steps(f) BY <2>1, <3>2 DEF H5Dopen, Steps
    <3> QED BY <3>1, <3>2
  <2>2. CASE H5Oopen(f) BY <2>2 DEF H5Oopen
  <2>3. CASE H5Dclose(f) BY <2>3 DEF H5Dclose
  <2> QED BY <2>1, <2>2, <2>3
<1> DEFINE o == [fp[f] EXCEPT !.handle = h]
<1>5. fp' = [fp EXCEPT ![f] = o]
  <2>1. fp \in [Files -> Fp] BY Settled
  <2> QED BY <1>4, <2>1 DEF Fp
<1>6. /\ o \in Fp /\ o.state = "open" /\ o.config = fp[f].config /\ o.handle = h
  BY <1>2, <1>3 DEF Fp
<1> HIDE DEF o
<1>7. o # Closed /\ fp[f] # Closed
  <2>1. o.state = "open" BY <1>6
  <2>2. Closed.state = "closed" BY DEF Closed
  <2> QED BY <1>3, <2>1, <2>2
<1>8. Good(files[f], o) BY <1>2, <1>3, <1>4, <1>6, <1>7 DEF Good
<1>9. files' = [files EXCEPT ![f] = files[f]] BY <1>1, Settled
<1> QED BY <1>1, <1>5, <1>7, <1>8, <1>9, StaysOpen

\* An entry of an open file.
LEMMA EntryTyped ==
  ASSUME NEW flags \in SUBSET Flags, NEW encoded \in BOOLEAN, NEW pays \in BOOLEAN,
         NEW by \in {"steps", "no steps", "object"}
  PROVE  [flags |-> flags, encoded |-> encoded, pays |-> pays, by |-> by] \in Entry
BY DEF Entry

\* A write adds one.
LEMMA H5DwriteStep ==
  ASSUME IInv, NEW f \in Files, NEW pays \in BOOLEAN, H5Dwrite(f, pays)
  PROVE  IInv'
<1> DEFINE file == [files[f] EXCEPT !.entries = @ \cup {EntryOf(f, pays)}]
<1>1. UNCHANGED <<env, mpi, lib, refs, plists, vol, fp>> /\ fp[f].handle # "none"
  BY DEF H5Dwrite
<1>2. /\ Good(files[f], fp[f]) /\ files[f] \in File /\ fp[f] \in Fp
      /\ files \in [Files -> File]
  BY Settled
<1>3. /\ fp[f].state = "open" /\ fp[f] # Closed
      /\ files[f].exists /\ fp[f].config = files[f].config
  <2>1. fp[f].state = "open" BY <1>1, <1>2 DEF Good
  <2>2. Closed.state = "closed" BY DEF Closed
  <2>3. fp[f] # Closed BY <2>1, <2>2
  <2>4. files[f].exists BY <1>2, <2>3 DEF Good
  <2>5. fp[f].config = files[f].config BY <1>2, <2>1, <2>4 DEF Good
  <2> QED BY <2>1, <2>3, <2>4, <2>5
<1>4. files' = [files EXCEPT ![f] = file] BY <1>2 DEF H5Dwrite, File
<1>5. /\ EntryOf(f, pays) \in Entry /\ EntryOf(f, pays).by = fp[f].handle
      /\ EntryOf(f, pays).encoded = ("SEL_ENCODE" \in files[f].config)
  <2> DEFINE flags == IF "SEL_DEFLATE" \in fp[f].config /\ ~pays
                      THEN fp[f].config \ {"SEL_ENCODE"} ELSE fp[f].config
  <2>1. flags \in SUBSET Flags BY <1>2 DEF Fp
  <2>2. fp[f].handle \in {"steps", "no steps", "object"} BY <1>1, <1>2 DEF Fp
  <2>3. EntryOf(f, pays) = [flags |-> flags, encoded |-> "SEL_ENCODE" \in fp[f].config,
                            pays |-> pays, by |-> fp[f].handle]
    BY DEF EntryOf
  <2> HIDE DEF flags
  <2>4. ("SEL_ENCODE" \in fp[f].config) \in BOOLEAN OBVIOUS
  <2>5. EntryOf(f, pays).encoded = ("SEL_ENCODE" \in fp[f].config) BY <2>3
  <2>6. EntryOf(f, pays).by = fp[f].handle BY <2>3
  <2>7. EntryOf(f, pays) \in Entry
    <3> DEFINE encoded == "SEL_ENCODE" \in fp[f].config
    <3>1. encoded \in BOOLEAN BY <2>4
    <3>2. EntryOf(f, pays) = [flags |-> flags, encoded |-> encoded, pays |-> pays,
                              by |-> fp[f].handle]
      BY <2>3
    <3> HIDE DEF encoded
    <3> QED BY <2>1, <2>2, <3>1, <3>2, EntryTyped
  <2> QED BY <2>5, <2>6, <2>7, <1>3
<1>6. /\ file \in File /\ file.exists
      /\ file.config = files[f].config
      /\ file.entries = files[f].entries \cup {EntryOf(f, pays)}
  BY <1>2, <1>3, <1>5 DEF File
<1> HIDE DEF file
<1>7. EntryOf(f, pays).encoded /\ EntryOf(f, pays).by # "object"
        => EntryOf(f, pays).by = "steps"
  <2>1. fp[f].handle \in {"steps", "no steps", "object"} BY <1>1, <1>2 DEF Fp
  <2>2. ASSUME fp[f].handle = "no steps" PROVE "SEL_ENCODE" \notin files[f].config
    <3>1. "SEL_ENCODE" \notin fp[f].config BY <1>2, <2>2 DEF Good
    <3> QED BY <3>1, <1>3
  <2>3. EntryOf(f, pays).encoded => fp[f].handle # "no steps" BY <2>2, <1>5
  <2> QED BY <2>1, <2>3, <1>5
<1>8. Good(file, fp[f]) BY <1>2, <1>3, <1>5, <1>6, <1>7 DEF Good
<1>9. fp' = [fp EXCEPT ![f] = fp[f]] BY <1>1, Settled
<1> QED BY <1>1, <1>3, <1>4, <1>8, <1>9, StaysOpen

-----------------------------------------------------------------------------
(* Theorems *)

\* Every step keeps it.
LEMMA StepIInv == IInv /\ [Next]_vars => IInv'
<1> SUFFICES ASSUME IInv, [Next]_vars PROVE IInv' OBVIOUS
<1>1. CASE MPI_Init BY <1>1, MPI_InitStep
<1>2. CASE MPI_Finalize BY <1>2, MPI_FinalizeStep
<1>3. CASE \E named \in BOOLEAN : H5VL_log_init(named) BY <1>3, H5VL_log_initStep
<1>4. CASE H5VL_log_obj_term BY <1>4, H5VL_log_obj_termStep
<1>5. CASE \E e \in Environments : Restart(e) BY <1>5, RestartStep
<1>6. CASE \E info \in BOOLEAN : H5Pset_vol(info) BY <1>6, H5Pset_volStep
<1>7. CASE H5Pset_vol_log BY <1>7, H5Pset_vol_logStep
<1>8. CASE H5Pclose BY <1>8, H5PcloseStep
<1>9. CASE \E p \in Settings, class \in Classes : H5Pset(p, class) BY <1>9, H5PsetStep
<1>10. ASSUME NEW f \in Files, FileNext(f) PROVE IInv'
  <2>1. CASE \E done \in BOOLEAN : H5Fcreate(f, done) BY <2>1, H5FcreateStep
  <2>2. CASE \E done \in BOOLEAN : H5Fopen(f, done) BY <2>2, H5FopenStep
  <2>3. CASE \E o \in {"accessible", "deleted", "failed"} : H5VL_log_file_specific(f, o)
    BY <2>3, FileSpecificStep
  <2>4. CASE PostOpen(f) BY <2>4, PostOpenStep
  <2>5. CASE H5Fclose(f) BY <2>5, H5FcloseStep
  <2>6. CASE H5Dopen(f) \/ H5Oopen(f) \/ H5Dclose(f) BY <2>6, HandleStep
  <2>7. CASE \E pays \in BOOLEAN : H5Dwrite(f, pays) BY <2>7, H5DwriteStep
  <2> QED BY <1>10, <2>1, <2>2, <2>3, <2>4, <2>5, <2>6, <2>7 DEF FileNext
<1>11. CASE UNCHANGED vars
  BY <1>11 DEF vars, IInv, Process, Handles, Good, ConnectorCovers, Gone, Loaded,
               AllClosed, Began, Ended
<1> QED BY <1>1, <1>2, <1>3, <1>4, <1>5, <1>6, <1>7, <1>8, <1>9, <1>10, <1>11 DEF Next

\* In every session, whatever calls failed: what is set, who began MPI, and
\* what the files say agree with what is open.
THEOREM Inductive == Spec => []IInv
<1>1. Init => IInv BY InitIInv
<1> QED BY <1>1, StepIInv, PTL DEF Spec

\* Every variable keeps its type, and the registration of the connector below
\* is never given back: refs stays positive.
THEOREM Typed == Spec => []TypeOK
<1>1. IInv => TypeOK BY Consequences
<1> QED BY <1>1, Inductive, PTL

\* The connector below is held by every open file and by the list that was
\* given its info: H5VL_log_filei_dec_ref and H5VL_log_info_free never drop the
\* last reference under a user.
THEOREM Covered == Spec => []ConnectorCovers
<1>1. IInv => ConnectorCovers BY Consequences
<1> QED BY <1>1, Inductive, PTL

\* H5VL_log_obj_term finalizes MPI exactly if H5VL_log_init started it.
THEOREM MpiOwner == Spec => []MpiEndedByItsOwner
<1>1. IInv => MpiEndedByItsOwner BY Consequences
<1> QED BY <1>1, Inductive, PTL

\* No encoded entry of a handle of H5Dcreate or H5Dopen was encoded without
\* the steps of its dataset.
THEOREM Stepped == Spec => []EncodedWithSteps
<1>1. IInv => EncodedWithSteps BY Consequences
<1> QED BY <1>1, Inductive, PTL
=============================================================================
