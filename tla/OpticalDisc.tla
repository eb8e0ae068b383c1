----------------------------- MODULE OpticalDisc -----------------------------
(***************************************************************************)
(* DOpticalDiscManager: the jobs on one optical drive and the engines that *)
(* carry them out - xorriso, libudfburn and dvd+rw-format.  A job is a     *)
(* blocking call; it is laid out here as the stages it goes through, each  *)
(* of which may fail.  Other programs take and leave the drive meanwhile.  *)
(***************************************************************************)
EXTENDS Integers, Sequences

CONSTANTS Files,      \* the files staged, burned and verified
          Progress,   \* percentages dvd+rw-format prints
          MaxJobs     \* bound: jobs

ASSUME ProgressAssumption == Progress \subseteq 0..100
ASSUME BoundsAssumption == MaxJobs \in Nat

VARIABLES
    \* the drive
    taken,      \* another program has it
    disc,       \* the files on the disc: what was staged, something else or nothing
    \* the process
    held,       \* an engine of the process holds the drive
    cache,      \* the directory for extracted files: "none", "used" by the call, or "left"
    manifest,   \* files with a checksum, as they were when it was made
    job,        \* the call that runs, or NoJob
    jobs,
    \* dvd+rw-format
    format,     \* its cycle and percentage; DVDRwFormatEngine's phase, lastRawProgress
    overall,    \* the progress it was last told
    \* history
    statuses,   \* the kinds of status the job has emitted
    stale,      \* the last verification could not remove what an earlier one had left
    verified    \* a verification has just returned true

driveVars == <<taken, disc>>
cacheVars == <<cache, stale>>
processVars == <<held, cacheVars, manifest>>
formatVars == <<format, overall>>
vars == <<driveVars, processVars, job, jobs, formatVars, statuses, verified>>

Contents == {"staged", "other", "absent"}
NoJob == [op |-> "none", stages |-> <<>>, left |-> {}, result |-> TRUE]
Idle == [phases |-> 1, cycle |-> 0, raw |-> 0, phase |-> 0, last |-> 0]

(* The calls, by the stages they go through                                 *)
CommitStages     == <<"acquire", "files", "announce", "work", "release", "destroy">>
CommitUdfStages  == <<"library", "announce", "burn">>
EraseStages      == <<"probe", "media", "acquire", "announce", "work", "release", "destroy">>
CheckmediaStages == <<"probe", "info", "acquire", "blocks", "announce", "work", "release",
                      "destroy">>
WriteISOStages   == <<"acquire", "path", "announce", "work", "release", "destroy">>
DumpISOStages    == <<"probe", "info", "acquire", "path", "blocks", "announce", "work",
                      "release", "destroy">>
VerifyStages     == <<"manifest", "cache", "mustAcquire", "osirrox", "extract", "release",
                      "finish", "clean", "destroy">>
FormatStages     == <<"start", "format">>

Calls == {<<"commit", CommitStages>>, <<"commitUdf", CommitUdfStages>>,
          <<"erase", EraseStages>>, <<"checkmedia", CheckmediaStages>>,
          <<"writeISO", WriteISOStages>>, <<"dumpISO", DumpISOStages>>,
          <<"verifyChecksum", VerifyStages>>}

-----------------------------------------------------------------------------
At(stage) == job.stages # <<>> /\ Head(job.stages) = stage
GoOn == job' = [job EXCEPT !.stages = Tail(@)]
GoTo(stages) == job' = [job EXCEPT !.stages = stages]
Fail(stages) == job' = [job EXCEPT !.stages = stages, !.result = FALSE]
Emit(status) == statuses' = statuses \cup {status}

(* What a failure still does on its way out: the engine's methods return to *)
(* the job, which releases the drive; a verification cleans its cache too;  *)
(* the engine, which the job owns, is destroyed last of all                 *)
WayOut ==
    IF job.op = "verifyChecksum" THEN <<"release", "clean", "destroy">> ELSE <<"release", "destroy">>

(* Another program takes or leaves the drive, the disc is changed           *)
OtherProgram ==
    /\ ~held
    /\ \/ taken' = ~taken /\ UNCHANGED disc
       \/ job = NoJob /\ disc' \in [Files -> Contents] /\ disc' # disc /\ UNCHANGED taken
    /\ verified' = FALSE
    /\ UNCHANGED <<processVars, job, jobs, formatVars, statuses>>

Start ==
    /\ job = NoJob /\ jobs < MaxJobs /\ jobs' = jobs + 1
    /\ \E call \in Calls :
          job' = [op |-> call[1], stages |-> call[2], left |-> {}, result |-> TRUE]
    /\ statuses' = {} /\ verified' = FALSE
    /\ UNCHANGED <<driveVars, processVars, formatVars>>

(* generateChecksumManifest(): all of the staged files or nothing           *)
GenerateChecksumManifest ==
    /\ job = NoJob /\ manifest' = Files /\ manifest # Files
    /\ UNCHANGED <<driveVars, held, cacheVars, job, jobs, formatVars, statuses, verified>>

(* The call returns                                                         *)
Return ==
    /\ job # NoJob /\ job.stages = <<>>
    /\ verified' = (job.op = "verifyChecksum" /\ job.result)
    /\ job' = NoJob
    /\ UNCHANGED <<driveVars, processVars, jobs, formatVars, statuses>>

-----------------------------------------------------------------------------
(* The stages that ask                                                     *)

Ask == UNCHANGED <<driveVars, processVars, jobs, formatVars, verified>>

(* An argument, a library or the disc is found wanting: the job fails        *)
(* without a status.  An invalid path is noticed with the drive acquired,    *)
(* and the job returns without releasing it: the engine's end must.         *)
CheckInput ==
    /\ \/ At("library") /\ (GoOn \/ Fail(<<>>))
       \/ At("path") /\ (GoOn \/ Fail(<<"destroy">>))
       \/ \E s \in {"files", "blocks"} : At(s) /\ (GoOn \/ Fail(WayOut))
       \/ At("manifest") /\ ((manifest # {} /\ GoOn) \/ Fail(<<>>))
    /\ UNCHANGED statuses /\ Ask

(* createOpticalInfo(): the drive is acquired, looked at and released        *)
Probe ==
    /\ At("probe") /\ GoOn
    /\ held' \in {FALSE, ~taken}
    /\ UNCHANGED <<driveVars, cacheVars, manifest, jobs, formatVars, statuses, verified>>

Info ==
    /\ At("info") /\ held' = FALSE
    /\ IF held THEN GoOn ELSE Fail(<<>>)
    /\ UNCHANGED <<driveVars, cacheVars, manifest, jobs, formatVars, statuses, verified>>

(* erase(): a rewritable DVD is given to dvd+rw-format if there is one, all  *)
(* else, and a drive that cannot be acquired, to xorriso                     *)
Media ==
    /\ At("media") /\ held' = FALSE
    /\ \/ GoOn
       \/ held /\ GoTo(FormatStages)
    /\ UNCHANGED <<driveVars, cacheVars, manifest, jobs, formatVars, statuses, verified>>

-----------------------------------------------------------------------------
(* The stages of the xorriso and udf engines                               *)

(* acquireDevice(): a failure is only a warning, except to a verification    *)
Acquire ==
    /\ At("acquire") \/ At("mustAcquire")
    /\ held' \in {FALSE, ~taken}
    /\ IF At("mustAcquire") /\ ~held' THEN Fail(<<"clean", "destroy">>) ELSE GoOn
    /\ UNCHANGED <<driveVars, cacheVars, manifest, jobs, formatVars, statuses, verified>>

(* kStalled or kRunning, 0                                                  *)
Announce == At("announce") /\ GoOn /\ Emit("announced") /\ Ask

(* What a call may leave on the disc                                        *)
Leaves == CASE job.op = "erase" -> {[f \in Files |-> "absent"]}
            [] job.op \in {"commit", "commitUdf", "writeISO"} -> [Files -> Contents]
            [] OTHER -> {disc}

\* Mutant: some option's failure returns without a status.
WorkFailsSilently ==
    /\ At("work")
    /\ disc' = disc \/ (held /\ disc' \in Leaves)
    /\ Fail(WayOut) \/ GoOn
    /\ UNCHANGED <<statuses, taken, processVars, jobs, formatVars, verified>>

(* doBurn(), doErase(), doWriteISO(), doDumpISO(), doCheckmedia(): an option *)
(* fails (JOBFAILED_IF), or all of them are done.  That it has finished is   *)
(* said by a message of xorriso's, if at all, and a later option may fail.   *)
(* Only doErase() has every failure count; elsewhere xorriso goes on past    *)
(* those below its own threshold, and the job is done without having done    *)
(* anything, as when the drive was not acquired.                            *)
Work ==
    /\ At("work")
    /\ disc' = disc \/ (held /\ disc' \in Leaves)
    /\ \/ Fail(WayOut) /\ (Emit("failed") \/ statuses' = statuses \cup {"finished", "failed"})
       \/ /\ job.op = "erase" => held /\ disc' \in Leaves
          /\ GoOn /\ (UNCHANGED statuses \/ Emit("finished"))
    /\ UNCHANGED <<taken, processVars, jobs, formatVars, verified>>

(* libudfburn opens the drive itself                                        *)
UdfBurn ==
    /\ At("burn")
    /\ \/ /\ Fail(<<>>) /\ Emit("failed")
          /\ disc' = disc \/ (~taken /\ disc' \in Leaves)
       \/ ~taken /\ GoOn /\ Emit("finished") /\ disc' \in Leaves
    /\ UNCHANGED <<taken, processVars, jobs, formatVars, verified>>

GiveUp ==
    /\ GoOn /\ held' = FALSE
    /\ UNCHANGED <<driveVars, cacheVars, manifest, jobs, formatVars, statuses, verified>>

(* releaseDevice()                                                          *)
Release == At("release") /\ GiveUp

\* Mutant: the engine outlives the call.
DestroyNot ==
    /\ At("destroy") /\ GoOn
    /\ UNCHANGED <<driveVars, processVars, jobs, formatVars, statuses, verified>>

(* ~DXorrisoEngine()                                                        *)
Destroy == At("destroy") /\ GiveUp

-----------------------------------------------------------------------------
(* The stages of a verification                                            *)

(* What an earlier one left is removed first, if it can be                   *)
PrepareCache ==
    /\ At("cache")
    /\ \/ /\ cache' = "used" /\ GoOn
          /\ stale' \in IF cache = "left" THEN BOOLEAN ELSE {FALSE}
       \/ cache' = "none" /\ stale' = FALSE /\ Fail(<<>>)
    /\ UNCHANGED <<driveVars, held, manifest, jobs, formatVars, statuses, verified>>

OsirroxOn ==
    /\ At("osirrox")
    /\ \/ job' = [job EXCEPT !.stages = Tail(@), !.left = manifest] /\ UNCHANGED statuses
       \/ Fail(WayOut) /\ Emit("failed")
    /\ Ask

\* Mutant: a file that was not extracted counts as verified.
ExtractTolerant ==
    /\ At("extract")
    /\ IF job.left = {} THEN GoOn /\ UNCHANGED statuses
       ELSE \E f \in job.left :
           /\ Emit("announced")
           /\ IF disc[f] # "other" THEN job' = [job EXCEPT !.left = @ \ {f}] ELSE Fail(WayOut)
    /\ UNCHANGED <<driveVars, processVars, jobs, formatVars, verified>>

(* The next file: extracted (or not), hashed and removed; one that is missing *)
(* or differs fails the verification, without kFailed.  What an earlier       *)
(* verification left there is hashed if xorriso went on without extracting.  *)
Extract ==
    /\ At("extract")
    /\ IF job.left = {} THEN GoOn /\ UNCHANGED statuses
       ELSE \/ Fail(WayOut) /\ Emit("failed")
            \/ Fail(WayOut) /\ Emit("announced")
            \/ \E f \in job.left :
                  /\ disc[f] = "staged" \/ stale
                  /\ job' = [job EXCEPT !.left = @ \ {f}] /\ Emit("announced")
    /\ UNCHANGED <<driveVars, processVars, jobs, formatVars, verified>>

(* kFinished, when the drive has been released                              *)
Finish == At("finish") /\ GoOn /\ Emit("finished") /\ Ask

(* A removal that fails leaves the files, and nobody is told                *)
CleanupExtractCache ==
    /\ At("clean") /\ GoOn /\ cache' \in {"none", "left"}
    /\ UNCHANGED <<driveVars, held, stale, manifest, jobs, formatVars, statuses, verified>>

-----------------------------------------------------------------------------
(* dvd+rw-format: DVD+RW takes three passes, each counted from zero; DVD-RW  *)
(* one                                                                      *)

\* Mutant: the phase of the last erasure is kept.
StartFormatInPhase ==
    /\ At("start") /\ GoOn /\ Emit("announced") /\ overall' = 0
    /\ \E n \in {1, 3} : format' = [format EXCEPT !.phases = n, !.cycle = 0, !.raw = 0]
    /\ UNCHANGED <<driveVars, processVars, jobs, verified>>

(* doErase(): refused for its path, its type or want of the tool, or the tool *)
(* does not start after it was announced                                    *)
StartFormat ==
    /\ At("start")
    /\ \/ /\ Fail(<<>>) /\ UNCHANGED formatVars
          /\ \/ Emit("failed")
             \/ statuses' = statuses \cup {"announced", "failed"}
       \/ /\ GoOn /\ Emit("announced") /\ overall' = 0
          /\ \E n \in {1, 3} : format' = [Idle EXCEPT !.phases = n]
    /\ UNCHANGED <<driveVars, processVars, jobs, verified>>

\* Mutant: every pass counts as the first.
ParseProgressOfOnePass(cycle, raw) ==
    /\ format' = [format EXCEPT !.cycle = cycle, !.raw = raw, !.last = raw]
    /\ overall' = raw \div format.phases

(* parseProgress(): a percentage that falls by more than 5 is the next       *)
(* pass's                                                                   *)
ParseProgress(cycle, raw) ==
    LET next  == IF raw < format.last - 5 THEN format.phase + 1 ELSE format.phase
        phase == IF next < format.phases THEN next ELSE format.phases - 1
        value == (phase * 100 + raw) \div format.phases
    IN /\ format' = [format EXCEPT !.cycle = cycle, !.raw = raw, !.last = raw, !.phase = phase]
       /\ overall' = IF value < 100 THEN value ELSE overall

(* The tool is further in its pass, or in a later pass, when it is read next *)
FormatPrints ==
    /\ At("format")
    /\ \E cycle \in format.cycle..(format.phases - 1), raw \in Progress :
          /\ cycle = format.cycle => raw >= format.raw
          /\ ParseProgress(cycle, raw)
    /\ UNCHANGED <<driveVars, processVars, job, jobs, statuses, verified>>

FormatExits ==
    /\ At("format")
    /\ \/ /\ Fail(<<>>) /\ Emit("failed") /\ UNCHANGED <<disc, overall>>
       \/ /\ ~taken /\ GoOn /\ Emit("finished") /\ overall' = 100
          /\ disc' \in Leaves
    /\ UNCHANGED <<taken, processVars, jobs, format, verified>>

-----------------------------------------------------------------------------
Init ==
    /\ taken \in BOOLEAN /\ disc = [f \in Files |-> "absent"]
    /\ held = FALSE /\ cache \in {"none", "left"} /\ stale = FALSE /\ manifest = {}
    /\ job = NoJob /\ jobs = 0
    /\ format = Idle /\ overall = 0
    /\ statuses = {} /\ verified = FALSE

Stage == CheckInput \/ Probe \/ Info \/ Media \/ Acquire \/ Announce \/ Work \/ UdfBurn
         \/ Release \/ Destroy \/ PrepareCache \/ OsirroxOn \/ Extract \/ Finish
         \/ CleanupExtractCache \/ StartFormat \/ FormatPrints \/ FormatExits

Next == OtherProgram \/ GenerateChecksumManifest \/ Start \/ Stage \/ Return

Spec == Init /\ [][Next]_vars

-----------------------------------------------------------------------------
(* Properties                                                              *)

(* Every variable has its type; the process holds only a free drive.        *)
TypeOK ==
    /\ taken \in BOOLEAN /\ held \in BOOLEAN /\ ~(taken /\ held)
    /\ disc \in [Files -> Contents] /\ manifest \in {{}, Files}
    /\ cache \in {"none", "used", "left"} /\ stale \in BOOLEAN
    /\ job.left \subseteq manifest /\ job.result \in BOOLEAN
    /\ jobs \in 0..MaxJobs /\ overall \in 0..100
    /\ format.phases \in {1, 3} /\ format.phase \in 0..(format.phases - 1)
    /\ statuses \subseteq {"announced", "failed", "finished"}
    /\ verified \in BOOLEAN

(* Whatever failed on the way, and on whichever way out, the drive is given   *)
(* up when the call has returned: other programs can use it again.  Where a  *)
(* call returns without releasing it the engine's destruction does.          *)
DriveGivenUp == job = NoJob => ~held

(* dvd+rw-format and libudfburn find the drive free of this process: erase() *)
(* has let go of it after looking at the disc                               *)
ToolFindsDriveFree == (At("start") \/ At("format") \/ At("burn")) => ~held

(* No call of a verification ends, on any way out, without having removed     *)
(* what it extracted, as far as that can be removed                         *)
CacheCleaned == job = NoJob => cache # "used"

(* The drive is held only by a call that has still to give it up, and by no  *)
(* call that runs a tool of its own; what a call leaves behind is nothing,   *)
(* but for files that cannot be removed.                                    *)
CallsCleanUp == DriveGivenUp /\ ToolFindsDriveFree /\ CacheCleaned

(* No call returns true after it told of a failure, and an announced burn,   *)
(* erasure, check or dump that returns false has told of it; a verification  *)
(* does not (dopticaldiscmanager.cpp, lines 443-456).  A failure that        *)
(* xorriso takes lightly (Work) is none.                                    *)
FailureTold ==
    job # NoJob /\ job.stages = <<>> =>
        /\ "failed" \in statuses => ~job.result
        /\ job.op # "verifyChecksum" /\ "announced" \in statuses /\ ~job.result
              => "failed" \in statuses

(* A verification that returned true found every file of the manifest on the *)
(* disc as it was when the manifest was made, unless it could not remove     *)
(* what an earlier one had left                                             *)
VerifiedIsTrue == verified /\ ~stale => \A f \in manifest : disc[f] = "staged"

(* While dvd+rw-format runs the progress told never falls by more than the   *)
(* 5 percent that count as noise, though each of its passes begins at zero,  *)
(* and it is below 100 until the tool has exited well                       *)
ProgressNeverFalls ==
    [][At("format") => \/ At("format")' /\ overall' >= overall - 5 /\ overall' < 100
                       \/ job'.result => overall' = 100]_vars
=============================================================================
