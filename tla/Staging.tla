------------------------------ MODULE Staging -------------------------------
(***************************************************************************)
(* prepare_image_sequence (src/programs/prepare_image_sequence.cpp): select  *)
(* images, inspect them, link or copy them into a new directory, and then    *)
(* describe the selection in selection.json. The program is run again after  *)
(* a failure or after it was killed, on a directory the earlier run may have  *)
(* begun to fill; other programs remove sources and create entries meanwhile. *)
(*                                                                         *)
(* The choice of the images is the Sampling module, whose variables are the   *)
(* local variables of the call. A file is its position in the ordered         *)
(* listing, which is read once and has distinct names.                      *)
(***************************************************************************)
EXTENDS EvenSelection, FiniteSets

CONSTANTS MaxRuns,      \* how often the program is run on one directory
          Absent        \* no entry, no exit status

ASSUME StagingAssumption ==
  /\ MaxRuns \in Nat \ {0}
  /\ Absent \notin Nat
  /\ Absent \notin [run : Nat, whole : BOOLEAN]
  /\ Absent \notin [run : Nat, files : SUBSET Nat, whole : BOOLEAN]

VARIABLES
  element_count, sample_count, selected_indices, selected_index,
  accumulated_remainder, returned,
  phase,      \* where main is
  run,        \* number of the run in progress, from 1
  mode,       \* "symlink" or "copy"
  status,     \* exit status of the run, -1 when it was killed
  position,   \* next file CopyOrLinkFiles creates
  sources,    \* source files that still exist
  images,     \* entries of <output>/images and what created each of them
  manifest    \* selection.json

sampling == <<element_count, sample_count, selected_indices, selected_index,
              accumulated_remainder, returned>>
directory == <<images, manifest>>
vars == <<sampling, phase, run, mode, status, position, sources, directory>>

Selecting == INSTANCE Sampling

Files == 0 .. element_count - 1
Selected == {selected_indices[k] : k \in 1 .. Len(selected_indices)}
Running == phase # "ended"

\* An entry remembers the run that created it (0: another program) and
\* whether its contents are all there; a link is whole at once.
Entry(r, whole) == [run |-> r, whole |-> whole]
Entries == {f \in DOMAIN images : images[f] # Absent}

Init ==
  /\ Selecting!Init
  /\ phase = "select"
  /\ run = 1
  /\ mode \in {"symlink", "copy"}
  /\ status = Absent
  /\ position = 1
  /\ sources = Files
  /\ images = [f \in Files |-> Absent]
  /\ manifest = Absent

End(code) ==
  /\ phase' = "ended"
  /\ status' = code

-----------------------------------------------------------------------------
(* The program *)

\* SelectFrames has listed the directory; the indices are chosen before the
\* output is looked at.
SelectIndices ==
  /\ phase = "select"
  /\ Selecting!Next
  /\ phase' = IF returned' THEN "prepare" ELSE "select"
  /\ UNCHANGED <<run, mode, status, position, sources, directory>>

\* PrepareOutput refuses a directory with any entry and creates a missing one.
OutputIsUsable == Entries = {} /\ manifest = Absent

PrepareOutput ==
  /\ phase = "prepare"
  /\ OutputIsUsable
  /\ phase' = "inspect"
  /\ UNCHANGED <<sampling, run, mode, status, position, sources, directory>>

RefuseOutput ==
  /\ phase = "prepare"
  /\ ~OutputIsUsable
  /\ End(1)
  /\ UNCHANGED <<sampling, run, mode, position, sources, directory>>

\* Every selected image is decoded once before anything is created.
InspectImages ==
  /\ phase = "inspect"
  /\ Selected \subseteq sources
  /\ phase' = "validate"
  /\ UNCHANGED <<sampling, run, mode, status, position, sources, directory>>

\* CopyOrLinkFiles checks the destination and all sources, then creates the
\* directory.
ValidateSources ==
  /\ phase = "validate"
  /\ Entries = {}
  /\ Selected \subseteq sources
  /\ phase' = "create"
  /\ UNCHANGED <<sampling, run, mode, status, position, sources, directory>>

RefuseSources ==
  /\ phase = "validate"
  /\ ~(Entries = {} /\ Selected \subseteq sources)
  /\ End(1)
  /\ UNCHANGED <<sampling, run, mode, position, sources, directory>>

NextFile == selected_indices[position]

\* A bug the properties must notice: copy_options::overwrite_existing.
CreateOverwriting(f, whole) ==
  /\ mode = "copy" => f \in sources
  /\ images' = [images EXCEPT ![f] = Entry(run, whole)]

\* Both calls create an entry that did not exist; a link needs no source.
CreateExclusively(f, whole) ==
  /\ images[f] = Absent
  /\ mode = "copy" => f \in sources
  /\ images' = [images EXCEPT ![f] = Entry(run, whole)]

CreateFile ==
  /\ phase = "create"
  /\ position <= sample_count
  /\ CreateExclusively(NextFile, TRUE)
  /\ position' = position + 1
  /\ UNCHANGED <<sampling, phase, run, mode, status, sources, manifest>>

\* A copy that fails half-way leaves what it wrote; nothing is taken back.
CreateFileFails ==
  /\ phase = "create"
  /\ position <= sample_count
  /\ \/ UNCHANGED images
     \/ mode = "copy" /\ CreateExclusively(NextFile, FALSE)
  /\ End(1)
  /\ UNCHANGED <<sampling, run, mode, position, sources, manifest>>

\* A bug the properties must notice: the last file is not waited for.
FilesAreAlmostCreated == position >= sample_count

FilesAreCreated == position > sample_count

\* The manifest is opened and written; serialising it, which comes between the
\* two, can still fail (a path that is not UTF-8). That another program creates
\* selection.json itself in the meantime is left out: concurrent writers are
\* unsupported, and opening would empty it.
OpenManifest ==
  /\ phase = "create"
  /\ FilesAreCreated
  /\ manifest' = [run |-> run, files |-> Selected, whole |-> FALSE]
  /\ phase' = "write"
  /\ UNCHANGED <<sampling, run, mode, status, position, sources, images>>

WriteManifest ==
  /\ phase = "write"
  /\ manifest' = [manifest EXCEPT !.whole = TRUE]
  /\ End(0)
  /\ UNCHANGED <<sampling, run, mode, position, sources, images>>

\* Any step may throw, and main then returns 1; the files stay.
StepFails ==
  /\ phase \in {"select", "prepare", "inspect", "validate", "create", "write"}
  /\ End(1)
  /\ UNCHANGED <<sampling, run, mode, position, sources, directory>>

Killed ==
  /\ Running
  /\ phase # "select"     \* before that nothing outside the process is touched
  /\ End(-1)
  /\ UNCHANGED <<sampling, run, mode, position, sources, directory>>

Program ==
  \/ SelectIndices \/ PrepareOutput \/ RefuseOutput \/ InspectImages
  \/ ValidateSources \/ RefuseSources \/ CreateFile \/ CreateFileFails
  \/ OpenManifest \/ WriteManifest \/ StepFails \/ Killed

-----------------------------------------------------------------------------
(* Its surroundings *)

\* The user runs the program again on the same input and output, with a count
\* of his choice.
RunAgain ==
  /\ ~Running
  /\ run < MaxRuns
  /\ run' = run + 1
  /\ phase' = "select"
  /\ status' = Absent
  /\ position' = 1
  /\ mode' \in {"symlink", "copy"}
  /\ sample_count' \in {Limited(element_count, m) : m \in SampleCounts}
  /\ selected_indices' = <<>>
  /\ selected_index' = 0
  /\ accumulated_remainder' = 0
  /\ returned' = FALSE
  /\ UNCHANGED <<element_count, sources, directory>>

\* Steps of the surroundings matter once the output is being looked at.
SourceRemoved ==
  /\ phase \notin {"select", "ended"}
  /\ \E f \in sources : sources' = sources \ {f}
  /\ UNCHANGED <<sampling, phase, run, mode, status, position, directory>>

EntryAppears ==
  /\ phase \notin {"select", "ended"}
  /\ \E f \in Files :
       /\ images[f] = Absent
       /\ images' = [images EXCEPT ![f] = Entry(0, TRUE)]
  /\ UNCHANGED <<sampling, phase, run, mode, status, position, sources, manifest>>

Surroundings == RunAgain \/ SourceRemoved \/ EntryAppears

Next == Program \/ Surroundings

Spec == Init /\ [][Next]_vars

-----------------------------------------------------------------------------

TypeOK ==
  /\ Selecting!TypeOK
  /\ phase \in {"select", "prepare", "inspect", "validate", "create", "write", "ended"}
  /\ run \in 1 .. MaxRuns
  /\ mode \in {"symlink", "copy"}
  /\ status \in {Absent, -1, 0, 1}
  /\ position \in 1 .. sample_count + 1
  /\ sources \subseteq Files
  /\ images \in [Files -> [run : 0 .. MaxRuns, whole : BOOLEAN] \cup {Absent}]
  /\ manifest \in [run : 1 .. MaxRuns, files : SUBSET Files, whole : BOOLEAN]
                  \cup {Absent}

\* The indices main works with are those of the library's promise, in every
\* run on the directory and while the loop is still at work.
SelectionIsExact == Selecting!SelectionIsExact

\* A selection.json, even an unfinished one, names files that are staged: each
\* was created whole by the run that wrote it, and not found there. Only a run
\* that wrote all of it reports success.
ManifestNamesStagedFiles ==
  /\ manifest # Absent =>
       \A f \in manifest.files : images[f] = Entry(manifest.run, TRUE)
  /\ status = 0 =>
       /\ manifest = [run |-> run, files |-> Selected, whole |-> TRUE]
       /\ Selected = {EvenIndex(element_count, sample_count, k) : k \in 0 .. sample_count - 1}

\* Nothing that is in the output is replaced or taken away, whoever put it
\* there and whenever: not an image, and not the selection of an earlier run.
EarlierOutputIsKept ==
  [][/\ \A f \in Entries : images'[f] = images[f]
     /\ (manifest # Absent /\ manifest.run # run) => manifest' = manifest]_directory
=============================================================================
