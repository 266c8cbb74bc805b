------------------------------- MODULE Paths -------------------------------
(***************************************************************************)
(* Paths (src/files.cpp): the components between slashes are put one by    *)
(* one on an array, from which `..' takes the last away.  A path is the    *)
(* sequence of its components, "" between two slashes; an absolute one     *)
(* begins with the drive.                                                  *)
(***************************************************************************)
EXTENDS Integers, SequencesExt

CONSTANTS
  Names,       \* the names of directories and files
  PathMax      \* bound: the components of a path

ASSUME PathAssumption == Names \cap {"..", ".", "", "C:"} = {} /\ PathMax \in Nat

VARIABLES
  pathGiven,       \* the components given so far
  pathArray        \* path, the array they are put on

pathVars == <<pathGiven, pathArray>>

Components == Names \union {"..", ".", ""}

PathTypeOK ==
  /\ pathGiven \in Seq(Components \union {"C:"})
  /\ pathArray \in Seq((Components \ {"."}) \union {"C:"})

\* is_absolute_path: a drive and a slash.
IsAbsolute(path) == Len(path) > 1 /\ path[1] = "C:"

PathInit ==
  \/ pathGiven = <<>> /\ pathArray = <<>>
  \/ pathGiven = <<"C:", "">> /\ pathArray = <<"C:">>

\* Mutant: `..' takes away another `..'.
AppendSingleTakes(path, dir) ==
  IF dir = ".." /\ path # <<>> THEN Front(path)
  ELSE IF dir \in {".", ""} THEN path ELSE Append(path, dir)

AppendSingle(path, dir) ==
  IF dir = ".." /\ path # <<>>
    THEN IF Last(path) = ".." THEN Append(path, dir)
         ELSE IF Last(path) = "." THEN Append(Front(path), dir) ELSE Front(path)
    ELSE IF dir \in {".", ""} THEN path ELSE Append(path, dir)

\* append_path_to_path, and the component that remains after the last slash.
AppendPath(path, dirs) ==
  LET put[n \in 0..Len(dirs)] == IF n = 0 THEN path ELSE AppendSingle(put[n - 1], dirs[n])
  IN put[Len(dirs)]

\* The string made of the array: a relative path begins with `.'.
Joined == IF IsAbsolute(pathGiven) THEN pathArray ELSE <<".">> \o pathArray

\* A drive with nothing after it: `..' would take the drive, and its string has no slash, so
\* that it is no absolute path.  A careful caller stays away from both.
AtDrive == pathArray = <<"C:">>

\* One more component of the first path, or of the second that normalize_path and
\* format_file_path take.
PathAppend(dir) ==
  /\ Len(pathGiven) < PathMax
  /\ dir = ".." => ~AtDrive
  /\ pathGiven' = Append(pathGiven, dir)
  /\ pathArray' = AppendSingle(pathArray, dir)

\* normalize_path of a path that was normalized.
PathAgain ==
  /\ ~AtDrive
  /\ pathGiven' = Joined
  /\ pathArray' = AppendPath(<<>>, Joined)

PathNext == (\E dir \in Components : PathAppend(dir)) \/ PathAgain

\* Where one component leads from a directory.
Entered(at, dir) == IF dir = ".." THEN Front(at) ELSE IF dir \in {".", ""} THEN at ELSE Append(at, dir)

\* Where a path leads from a directory.
Resolve(directory, path) ==
  LET at[n \in 0..Len(path)] == IF n = 0 THEN directory ELSE Entered(at[n - 1], path[n])
  IN at[Len(path)]

\* A normalized path leads where the path leads, from a directory of any depth, and is
\* what normalizing makes of it: no `.', and `..' only in front of a relative path.
PathsNormal ==
  /\ LET from == IF IsAbsolute(pathGiven) THEN <<>> ELSE [i \in 1..PathMax + 1 |-> i]
     IN Resolve(from, pathArray) = Resolve(from, pathGiven)
  /\ \A i \in DOMAIN pathArray :
       /\ pathArray[i] \notin {".", ""}
       /\ pathArray[i] = ".." => ~IsAbsolute(pathGiven) /\ \A j \in 1..i : pathArray[j] = ".."
  /\ ~AtDrive => AppendPath(<<>>, Joined) = pathArray /\ (IsAbsolute(Joined) <=> IsAbsolute(pathGiven))
=============================================================================
