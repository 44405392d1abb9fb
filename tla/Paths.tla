------------------------------- MODULE Paths --------------------------------
(***************************************************************************)
(* The functions of src/path.cpp, as they are on a POSIX system.  A path   *)
(* is a sequence of character codes, a position counts from 1, and 0 is    *)
(* npos.                                                                   *)
(***************************************************************************)
EXTENDS Integers, SequencesExt

DOT == 46
SLASH == 47
BACKSLASH == 92

PathIsSeparatorChar(c) == c \in {SLASH, BACKSLASH}

LastPosition(path, Test(_)) == SelectLastInSeq(path, Test)

LastSeparator(path) == LastPosition(path, PathIsSeparatorChar)

\* Mutant: a dot in the name of a folder begins an extension.
LastDot(path) == LastPosition(path, LAMBDA c : c = DOT)

(* The dot of the extension, which a separator may not follow.             *)
ExtensionDot(path) ==
  LET dot == LastPosition(path, LAMBDA c : c = DOT)
  IN  IF dot < LastSeparator(path) THEN 0 ELSE dot

-----------------------------------------------------------------------------
PathGetFolder(path) == SubSeq(path, 1, LastSeparator(path))
PathGetName(path) == SubSeq(path, LastSeparator(path) + 1, Len(path))

PathWithoutExtension(path) ==
  IF ExtensionDot(path) = 0 THEN path ELSE SubSeq(path, 1, ExtensionDot(path) - 1)

PathGetExtension(path) ==
  IF ExtensionDot(path) = 0 THEN <<>> ELSE SubSeq(path, ExtensionDot(path), Len(path))

PathWithoutTrailingSeparators(path) ==
  SubSeq(path, 1, LastPosition(path, LAMBDA c : ~PathIsSeparatorChar(c)))

PathIsAbsolute(path) == path # <<>> /\ PathIsSeparatorChar(path[1])
PathIsFullySpecified(path) == path # <<>> /\ PathIsSeparatorChar(path[1])

PathJoined(a, b) ==
  CASE a = <<>> -> b
    [] b = <<>> -> a
    [] a # <<>> /\ b # <<>> /\ PathIsAbsolute(b) -> b
    [] OTHER -> IF PathIsSeparatorChar(Last(a)) THEN a \o b ELSE a \o <<SLASH>> \o b

PathJoined3(a, b, c) == PathJoined(PathJoined(a, b), c)

(* -1, 0 or 1.  A char is signed, and the first to look at is the end of   *)
(* a; a character that is below zero comes before the end of b, whose      *)
(* terminator is 0.                                                        *)
PathCompare(a, b) ==
  LET Differ(i) == i > Len(a) \/ i > Len(b) \/ a[i] # b[i]
      first == CHOOSE i \in 1 .. Len(a) + Len(b) + 1 : Differ(i) /\ \A k \in 1 .. i - 1 : ~Differ(k)
      At(path) == IF first > Len(path) THEN 0 ELSE path[first]
  IN  IF first > Len(a) /\ first > Len(b) THEN 0
      ELSE IF first > Len(a) \/ At(a) < At(b) THEN -1 ELSE 1

-----------------------------------------------------------------------------
(* A path is its folder and its name, and its stem and its extension; a    *)
(* name has no separator, an extension begins with its only dot, the       *)
(* folder has no name, and a path has one without the separators at its    *)
(* end, if anything is left.                                               *)
SplitsBack(path) ==
  LET name == PathGetName(path)
      extension == PathGetExtension(path)
  IN  /\ PathGetFolder(path) \o name = path
      /\ PathWithoutExtension(path) \o extension = path
      /\ \A c \in ToSet(name) \union ToSet(extension) : ~PathIsSeparatorChar(c)
      /\ extension # <<>> => extension[1] = DOT /\ DOT \notin ToSet(Tail(extension))
      /\ IsSuffix(extension, name)
      /\ PathGetFolder(PathGetFolder(path)) = PathGetFolder(path)
      /\ PathWithoutTrailingSeparators(path) = <<>> \/ PathGetName(PathWithoutTrailingSeparators(path)) # <<>>

(* Joining what was split gives the path back; a relative path is found    *)
(* under the folder that it is joined to; and three paths may be joined in *)
(* either order.                                                           *)
JoinsBack(a, b, c) ==
  /\ PathJoined(PathGetFolder(a), PathGetName(a)) = a
  /\ b # <<>> /\ ~PathIsAbsolute(b) => IsPrefix(a, PathJoined(a, b)) /\ IsSuffix(b, PathJoined(a, b))
  /\ PathIsAbsolute(PathJoined(a, b)) = (PathIsAbsolute(b) \/ PathIsAbsolute(a))
  /\ PathJoined3(a, b, c) = PathJoined(a, PathJoined(b, c))

(* PathCompare orders paths of ASCII characters: it is 0 for the same path *)
(* only, changes its sign with the order of its arguments, and is          *)
(* transitive.  Of others it does so only if neither begins the other:     *)
(* with a byte above 127 behind it, a path comes before what it begins     *)
(* with, which comes before it too (path.cpp:175).                         *)
IsAscii(path) == \A c \in ToSet(path) : c >= 0

ComparesInOrder(a, b, c) ==
  /\ PathCompare(a, b) = 0 <=> a = b
  /\ \/ PathCompare(a, b) = -PathCompare(b, a)
     \/ ~IsAscii(a \o b) /\ (IsStrictPrefix(a, b) \/ IsStrictPrefix(b, a))
  /\ IsAscii(a \o b \o c) /\ PathCompare(a, b) <= 0 /\ PathCompare(b, c) <= 0 => PathCompare(a, c) <= 0
=============================================================================
