--------------------------- MODULE ArtifactFiles ---------------------------
(***************************************************************************)
(* The names and contents found in the connector's artifact directory.     *)
(*                                                                         *)
(* A name is either an artifact file or a metadata file                    *)
(* "<base>-contract.jsonld", "<base>-desc.jsonld" or                       *)
(* "<base>-negotiation.jsonld".  Names are not spelled out: all the code   *)
(* asks of a name is its kind, its base (what precedes the first dot of an *)
(* artifact file, or its own suffix in a metadata file), what precedes     *)
(* "-contract", "-desc" or "-negotiation" within the base, whether an      *)
(* artifact file has a dot at all, and whether it ends in ".api".  Base    *)
(* names of metadata files are taken without dots and without a second     *)
(* suffix of their own kind, as in every example of the repository.        *)
(***************************************************************************)
EXTENDS Integers, Sequences, FiniteSets

CONSTANTS
  Files,      \* names of artifact files
  Bases,      \* base names
  BaseOf,     \* BaseOf[f] is what precedes the first dot of f
  Cuts,       \* Cuts[b] is what precedes the three suffixes where b has them
  Dotless,    \* the artifact files whose name has no dot
  Api,        \* the artifact files whose name ends in ".api"
  MetaFiles,  \* the metadata files in play, a set of [kind, base] records
  Stamps,     \* last-modified times (with the length) of artifact files
  Versions,   \* the texts a metadata file may hold

  Absent,     \* there is no such name in the directory
  Directory,  \* the name is a directory
  Oversize,   \* a file longer than Integer.MAX_VALUE bytes
  Broken,     \* a metadata file that does not parse
  NonObject,  \* a negotiation file that is JSON, but not a JSON object
  None        \* Java's null, or a missing map entry

Kinds == {"contract", "desc", "negotiation"}

Names == Files \cup MetaFiles

(* A parsed metadata file: the file it was read from, and which text.      *)
Text == [of : MetaFiles, ver : Versions]

NoFile == {Absent, Directory}

Contents(n) ==
  IF n \in Files
    THEN NoFile \cup Stamps \cup {Oversize}
    ELSE NoFile \cup {Broken, NonObject} \cup {t \in Text : t.of = n}

AllContents == NoFile \cup Stamps \cup {Oversize, Broken, NonObject} \cup Text

(* java.io.File.isFile().                                                  *)
IsFile(content) == content \notin NoFile

ASSUME NamesAssumption ==
  /\ MetaFiles \subseteq [kind : Kinds, base : Bases]
  /\ Files \cap MetaFiles = {}
  /\ BaseOf \in [Files -> Bases]
  /\ Cuts \in [Bases -> SUBSET Bases]
  /\ Dotless \subseteq Files
  /\ Api \subseteq Files \ Dotless

ASSUME ContentsAssumption ==
  /\ Absent # Directory
  /\ Oversize \notin NoFile \cup Stamps
  /\ NoFile \cap Stamps = {}
  /\ {Broken, NonObject} \cap (NoFile \cup Text) = {}
  /\ NoFile \cap Text = {}

ASSUME NoneAssumption ==
  None \notin Names \cup Bases \cup Text
=============================================================================
