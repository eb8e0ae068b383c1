----------------------------- MODULE MCEnumerator -----------------------------
(***************************************************************************)
(* Instances of Enumerator for TLC.                                        *)
(***************************************************************************)
EXTENDS Enumerator, TLC

CONSTANTS top, sub, deep   \* three directories
CONSTANTS a, b, f, h, l    \* names; h is hidden

File == [kind |-> "file", to |-> NoDir]
Dir(d) == [kind |-> "dir", to |-> d]
Link(d) == [kind |-> "link", to |-> d]

AllNames == {a, b, f, h, l}
NotHidden == AllNames \ {h}

\* A directory of files, one hidden; a directory that is hidden because its name
\* begins with two dots, of which buildUrl() makes no URL; a link back up.
FlatDirs == {top, sub}
FlatContent == top :> (a :> Dir(sub) @@ h :> Dir(NoDir) @@ l :> Link(top))
            @@ sub :> (f :> File @@ h :> File)

\* A directory in a directory in a directory.
DeepDirs == {top, sub, deep}
DeepContent == top :> (a :> Dir(sub)) @@ sub :> (b :> Dir(deep)) @@ deep :> (f :> File)

\* What the theorems suppose holds of these directories.
ASSUME TreesAssumption ==
    ~FollowSymlinks => /\ Content = FlatContent => OneLevel /\ NamesDiffer /\ Tree
                       /\ Content = DeepContent => ~OneLevel /\ NamesDiffer /\ Tree
=============================================================================
