------------------------------ MODULE LogFiles ------------------------------
(***************************************************************************)
(* A log path, the files it has named, and the process that writes them    *)
(* (code outside src/: modelled from what internal/tail prepares for).     *)
(* Two ways to rotate: the path is renamed away and a new file takes its   *)
(* place, while the writer may go on with the old one until it reopens the *)
(* path; or the file is copied and truncated in place.  A truncation       *)
(* starts a new version of the file; earlier ones are kept as history.     *)
(***************************************************************************)
EXTENDS Naturals, Sequences

CONSTANTS
  Files,      \* files (inodes) that may come to the path
  NoFile,     \* no file
  Kinds       \* bytes to write: "text", "cr" and "newline" are told apart

ASSUME NoFileAssumption == NoFile \notin Files
ASSUME KindsAssumption == Kinds \subseteq {"text", "cr", "newline"}

VARIABLES
  versions,   \* versions[f]: what f held between truncations, <<>> before it exists
  path,       \* file the path names, or NoFile
  writing     \* file the writer has open

fileVars == <<versions, path, writing>>

Version(f) == Len(versions[f])

Content(f) == versions[f][Version(f)]

Size(f) == Len(Content(f))

FilesTypeOK ==
  /\ versions \in [Files -> Seq(Seq(Kinds))]
  /\ path \in Files \cup {NoFile}
  /\ writing \in Files
  /\ versions[writing] # <<>>
  /\ path # NoFile => versions[path] # <<>>

FilesInit ==
  /\ writing \in Files
  /\ path = writing
  /\ versions = [f \in Files |-> IF f = writing THEN << <<>> >> ELSE <<>>]

-----------------------------------------------------------------------------
Write(k) ==
  /\ versions' = [versions EXCEPT ![writing][Version(writing)] = Append(@, k)]
  /\ UNCHANGED <<path, writing>>

(* The file is renamed or removed.                                         *)
MoveAway ==
  /\ path # NoFile
  /\ path' = NoFile
  /\ UNCHANGED <<versions, writing>>

(* A new file appears, made by the rotation or by the writer itself.       *)
Recreate ==
  /\ path = NoFile
  /\ \E f \in Files :
       /\ versions[f] = <<>>
       /\ versions' = [versions EXCEPT ![f] = << <<>> >>]
       /\ path' = f
       /\ writing' \in {writing, f}

Reopen ==
  /\ path # NoFile /\ writing # path
  /\ writing' = path
  /\ UNCHANGED <<versions, path>>

Truncate ==
  /\ path # NoFile
  /\ Content(path) # <<>>
  /\ versions' = [versions EXCEPT ![path] = Append(@, <<>>)]
  /\ UNCHANGED <<path, writing>>
=============================================================================
