---------------------------- MODULE SortedListing ----------------------------
(***************************************************************************)
(* DEnumerator::sortFileInfoList() of dfm-io: a whole directory, read and  *)
(* sorted by fts(3) with one of the comparison functions of DLocalHelper.  *)
(*                                                                         *)
(* It is the other mode of the class that Enumerator models.  The names    *)
(* that both would define (Init, Next, Spec ...) are different here, so    *)
(* that one module can extend the two.                                     *)
(***************************************************************************)
EXTENDS Integers, SequencesExt, NameOrder

CONSTANTS Directories,   \* directories, each the sequence of its entries as the disk has them
          Roles,         \* the sort roles the client asks for
          NoStream,      \* no directory is open
          Stuck,         \* what a sort that does not return returns
          MaxLists       \* bound: calls of sortFileInfoList()

\* An entry of fts; dir and size are those of what a link leads to, and a time is in seconds
\* and nanoseconds.
FTSENT ==
    [name : Seq(Char) \ {<<>>}, dir : BOOLEAN, size : Nat, modified : Int \X Nat, read : Int \X Nat]

ASSUME DirectoriesAssumption ==
    \A d \in Directories :
        d \in Seq(FTSENT) /\ \A i, j \in DOMAIN d : d[i].name = d[j].name => i = j
ASSUME RolesAssumption == Roles \subseteq {"Default", "FileName", "FileSize", "LastModified", "LastRead"}
ASSUME BoundAssumption == MaxLists \in Nat
ASSUME NothingAssumption ==
    /\ Stuck \notin Seq(FTSENT)
    /\ NoStream \notin [role : Roles \cup {"Default"}, sorted : BOOLEAN, left : Seq(FTSENT)]

VARIABLES
    directory,               \* what the directory holds
    readable,                \* it is a directory that can be read
    sortRoleFlag, sortOrder, isMixDirAndFile,
    fts,                     \* the open stream: its role, whether it is sorted, the entries left
    ftsCanceled,
    error,                   \* lastError() is set
    phase,                   \* "idle", or inside sortFileInfoList(): "reading", "sorting"
    listDir, listFile,
    result,                  \* what the last call returned
    sortedBy,                \* history: the role its stream was opened with
    lists                    \* history: calls so far

disk == <<directory, readable>>
settings == <<sortRoleFlag, sortOrder, isMixDirAndFile>>
listed == <<result, sortedBy>>
listingVars == <<disk, settings, fts, ftsCanceled, error, phase, listDir, listFile, listed, lists>>

-----------------------------------------------------------------------------
(* Comparing two entries, as qsort() asks *)

compareByName(l, r) ==
    LET c == compareUnified(l.name, r.name)
    IN IF c = Endless THEN Endless ELSE IF c < 0 THEN -1 ELSE 1

fileSizeByEnt(e) == IF e.dir THEN -1 ELSE e.size

compareBySize(l, r) ==
    IF fileSizeByEnt(l) = fileSizeByEnt(r) THEN compareByName(l, r)
    ELSE IF fileSizeByEnt(l) > fileSizeByEnt(r) THEN 1 ELSE 0

TimeOf(role, e) == IF role = "LastModified" THEN e.modified ELSE e.read

compareByTime(l, r, tl, tr) ==
    IF tl[1] # tr[1] THEN IF tl[1] > tr[1] THEN 1 ELSE 0
    ELSE IF tl[2] > tr[2] THEN compareByName(l, r) ELSE 0

Compare(role, l, r) ==
    CASE role = "FileName" -> compareByName(l, r)
      [] role = "FileSize" -> compareBySize(l, r)
      [] role \in {"LastModified", "LastRead"} -> compareByTime(l, r, TimeOf(role, l), TimeOf(role, r))

\* qsort() of the C library: a merge sort that takes the left one of equals.
Merge(role, a, b) ==
    LET from[p \in (1..(Len(a) + 1)) \X (1..(Len(b) + 1))] ==   \* what is left from these places on
            IF p[1] > Len(a) \/ p[2] > Len(b)
            THEN SubSeq(a, p[1], Len(a)) \o SubSeq(b, p[2], Len(b))
            ELSE LET c == Compare(role, a[p[1]], b[p[2]])
                     rest == IF c <= 0 THEN from[<<p[1] + 1, p[2]>>] ELSE from[<<p[1], p[2] + 1>>]
                 IN IF c = Endless \/ rest = Stuck THEN Stuck
                    ELSE <<IF c <= 0 THEN a[p[1]] ELSE b[p[2]]>> \o rest
    IN from[<<1, 1>>]

MergeSort(role, s) ==
    LET sorted[p \in (1..(Len(s) + 1)) \X (0..Len(s))] ==   \* the entries from p[1] to p[2]
            IF p[1] >= p[2] THEN SubSeq(s, p[1], p[2])
            ELSE LET half == (p[1] + p[2] - 1) \div 2
                     left == sorted[<<p[1], half>>]
                     right == sorted[<<half + 1, p[2]>>]
                 IN IF left = Stuck \/ right = Stuck THEN Stuck ELSE Merge(role, left, right)
    IN sorted[<<1, Len(s)>>]

ReadOrder ==
    [role \in Roles \cup {"Default"} |->
        [d \in Directories |-> IF role = "Default" THEN d ELSE MergeSort(role, d)]]

-----------------------------------------------------------------------------
(* Operations *)

ListingInit ==
    /\ directory \in Directories /\ readable \in BOOLEAN
    /\ sortRoleFlag = "Default" /\ sortOrder = "Ascending" /\ isMixDirAndFile = FALSE
    /\ fts = NoStream /\ ftsCanceled = FALSE /\ error = FALSE
    /\ phase = "idle" /\ listDir = <<>> /\ listFile = <<>>
    /\ result = <<>> /\ sortedBy = "none" /\ lists = 0

\* The client is between two calls, and will list again.
BetweenCalls == phase = "idle" /\ lists < MaxLists

SetSort ==
    /\ BetweenCalls
    /\ \/ sortRoleFlag' \in Roles /\ UNCHANGED <<sortOrder, isMixDirAndFile>>
       \/ sortOrder' \in {"Ascending", "Descending"} /\ UNCHANGED <<sortRoleFlag, isMixDirAndFile>>
       \/ isMixDirAndFile' \in BOOLEAN /\ UNCHANGED <<sortRoleFlag, sortOrder>>
    /\ UNCHANGED <<disk, fts, ftsCanceled, error, phase, listDir, listFile, listed, lists>>

\* The stream takes the comparison function of this moment; it reads nothing yet, so that it
\* opens whatever can or cannot be read there.
openDirByfts ==
    \/ fts' = [role |-> sortRoleFlag, sorted |-> FALSE, left |-> <<>>] /\ UNCHANGED error
    \/ fts' = NoStream /\ error' = TRUE

EnsureOpen == IF fts = NoStream THEN openDirByfts ELSE UNCHANGED <<fts, error>>

InitSorted ==
    /\ BetweenCalls /\ EnsureOpen
    /\ UNCHANGED <<disk, settings, ftsCanceled, phase, listDir, listFile, listed, lists>>

SortFileInfoList ==
    /\ BetweenCalls /\ lists' = lists + 1
    /\ EnsureOpen
    /\ listDir' = <<>> /\ listFile' = <<>>
    /\ IF fts' = NoStream
       THEN phase' = "idle" /\ result' = <<>> /\ sortedBy' = "none"
       ELSE phase' = "reading" /\ UNCHANGED listed
    /\ UNCHANGED <<disk, settings, ftsCanceled>>

\* The first fts_read() that is about the directory's content reads and sorts all of it.
ReadDirectory ==
    /\ phase = "reading" /\ ~fts.sorted /\ ~ftsCanceled /\ readable
    /\ phase' = "sorting"
    /\ UNCHANGED <<disk, settings, fts, ftsCanceled, error, listDir, listFile, listed, lists>>

\* What cannot be read is one entry of the path that was opened (FTS_NS, FTS_DNR, or FTS_F if it is
\* a file), which is passed over as the directory itself is; no error is set.
ReadNothing ==
    /\ phase = "reading" /\ ~fts.sorted /\ ~ftsCanceled /\ ~readable
    /\ fts' = [fts EXCEPT !.sorted = TRUE]
    /\ UNCHANGED <<disk, settings, ftsCanceled, error, phase, listDir, listFile, listed, lists>>

Sort ==
    /\ phase = "sorting" /\ phase' = "reading"
    /\ \E order \in {ReadOrder[fts.role][directory]} \ {Stuck} :
           fts' = [fts EXCEPT !.sorted = TRUE, !.left = order]
    /\ UNCHANGED <<disk, settings, ftsCanceled, error, listDir, listFile, listed, lists>>

Put(list, e) == IF sortOrder = "Descending" THEN <<e>> \o list ELSE Append(list, e)

\* Mutant: the directories are not turned round.
DirsInReadOrder(e) ==
    IF e.dir /\ ~isMixDirAndFile
    THEN listDir' = Append(listDir, e) /\ UNCHANGED listFile
    ELSE listFile' = Put(listFile, e) /\ UNCHANGED listDir

insertSortFileInfoList(e) ==
    IF e.dir /\ ~isMixDirAndFile
    THEN listDir' = Put(listDir, e) /\ UNCHANGED listFile
    ELSE listFile' = Put(listFile, e) /\ UNCHANGED listDir

InsertEntry ==
    /\ phase = "reading" /\ fts.sorted /\ fts.left # <<>> /\ ~ftsCanceled
    /\ insertSortFileInfoList(Head(fts.left))
    /\ fts' = [fts EXCEPT !.left = Tail(@)]
    /\ UNCHANGED <<disk, settings, ftsCanceled, error, phase, listed, lists>>

\* The end of the stream, or the flag seen after a read, which then is lost.
Return ==
    /\ phase = "reading"
    /\ ftsCanceled \/ (fts.sorted /\ fts.left = <<>>)
    /\ result' = (IF isMixDirAndFile THEN listFile ELSE listDir \o listFile)
    /\ sortedBy' = fts.role
    /\ fts' = NoStream /\ phase' = "idle"
    /\ UNCHANGED <<disk, settings, ftsCanceled, error, listDir, listFile, lists>>

\* Any thread; nothing resets the flag.
CancelListing ==
    /\ BetweenCalls \/ phase # "idle"
    /\ ftsCanceled' = TRUE
    /\ UNCHANGED <<disk, settings, fts, error, phase, listDir, listFile, listed, lists>>

ListingNext ==
    \/ SetSort \/ InitSorted \/ SortFileInfoList \/ CancelListing
    \/ ReadDirectory \/ ReadNothing \/ Sort \/ InsertEntry \/ Return

\* The thread inside sortFileInfoList() runs on.
ListingSpec ==
    /\ ListingInit /\ [][ListingNext]_listingVars
    /\ WF_listingVars(ReadDirectory \/ ReadNothing \/ Sort \/ InsertEntry \/ Return)

-----------------------------------------------------------------------------
(* Properties *)

Chars == UNION {{e.name[n] : n \in DOMAIN e.name} : e \in {directory[i] : i \in DOMAIN directory}}
PlainNames == Plain(Chars)

\* When a directory is sorted, names compare by the four rules: digits, letters, Han, others;
\* numbers by value; a A b B; and so on from the second character (compareByString).
NamesByRule ==
    phase = "sorting" /\ PlainNames => \A i, j \in DOMAIN directory :
        LET s == directory[i].name
            t == directory[j].name
        IN compareUnified(s, t) < 0 <=> ComesFirst(s, t)

\* What a role puts first: for the times, only the second counts; the same name but for its width
\* may be anywhere.
Before(role, e, f) ==
    \/ role = "FileSize" /\ fileSizeByEnt(e) < fileSizeByEnt(f)
    \/ /\ role = "FileName" \/ (role = "FileSize" /\ fileSizeByEnt(e) = fileSizeByEnt(f))
       /\ ComesFirst(e.name, f.name)
    \/ role = "LastModified" /\ e.modified[1] < f.modified[1]
    \/ role = "LastRead" /\ e.read[1] < f.read[1]

\* Of two entries the one that is listed first, in the order asked for.
Early(role, x, y) == IF sortOrder = "Descending" THEN Before(role, y, x) ELSE Before(role, x, y)

\* The directories are a group of their own unless they are mixed with the files.
Group(x) == IF x.dir /\ ~isMixDirAndFile THEN 0 ELSE 1

\* A step that ends a call returns what the call owes.
ReturnsAsAsked ==
    /\ lists' # lists /\ phase' = "idle" => error'
    /\ phase = "reading" /\ phase' = "idle" =>
         /\ IsInjective(result')
         /\ ToSet(result') \subseteq ToSet(directory)
         /\ ftsCanceled \/ Len(result') = IF readable THEN Len(directory) ELSE 0
         /\ ~readable => result' = <<>> /\ UNCHANGED error
         /\ \A i \in 1..(Len(result') - 1) :
                LET e == result'[i]
                    f == result'[i + 1]
                IN \/ Group(e) < Group(f)
                   \/ Group(e) = Group(f) /\ (PlainNames => ~Early(sortedBy', f, e))

\* A call returns every entry of the directory once, or some of them if it is cancelled; the
\* directories come first unless they are mixed with the files; each group is in the order of the
\* role the stream was opened with, or in the reverse order.  A directory that is missing or cannot
\* be read gives none and leaves lastError() alone, as an empty one does; only a stream that could
\* not be opened at all gives none and an error (sortFileInfoList, openDirByfts).
ListedAsAsked == [][ReturnsAsAsked]_listingVars

\* A call returns, unless two names hold digits outside the BMP, which the comparison of names
\* does not get past.
BeyondBMP(e) == \E n \in DOMAIN e.name : e.name[n].type = NumberType /\ e.name[n].code >= 65536
ComparesAll == Cardinality({i \in DOMAIN directory : BeyondBMP(directory[i])}) <= 1
ListingReturns == phase # "idle" /\ ComparesAll ~> phase = "idle"
=============================================================================
