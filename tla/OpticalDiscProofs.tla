-------------------------- MODULE OpticalDiscProofs --------------------------
(***************************************************************************)
(* Proofs about OpticalDisc, for every set of files, every percentages     *)
(* dvd+rw-format may print and every number of calls.                      *)
(*                                                                         *)
(* The invariant follows a call along the stages it has left: which of     *)
(* them still take or give up the drive, tell of a failure or clean the    *)
(* cache.                                                                  *)
(***************************************************************************)
EXTENDS OpticalDisc, TLAPS

Ops == {"none", "commit", "commitUdf", "erase", "checkmedia", "writeISO", "dumpISO",
        "verifyChecksum"}

StageNames == {"acquire", "files", "announce", "work", "release", "library", "burn", "probe",
               "media", "info", "blocks", "path", "manifest", "cache", "mustAcquire",
               "osirrox", "extract", "finish", "clean", "destroy", "start", "format"}

\* Stages before a job is announced, and those that run a tool of their own.
Early == {"library", "path", "files", "blocks", "probe", "info", "acquire", "media"}
Tools == {"library", "burn", "start", "format"}
Acquiring == {"probe", "media", "info", "acquire", "mustAcquire"}

\* The stages a sequence names.
Rem(s) == {s[i] : i \in DOMAIN s}

\* What a verification has left, stage by stage, and what it has left when it has failed.
Verify1 == <<"manifest", "cache", "mustAcquire", "osirrox", "extract", "release", "finish",
             "clean", "destroy">>
Verify2 == <<"cache", "mustAcquire", "osirrox", "extract", "release", "finish", "clean",
             "destroy">>
Verify3 == <<"mustAcquire", "osirrox", "extract", "release", "finish", "clean", "destroy">>
Verify4 == <<"osirrox", "extract", "release", "finish", "clean", "destroy">>
Verify5 == <<"extract", "release", "finish", "clean", "destroy">>
Verify6 == <<"release", "finish", "clean", "destroy">>
Verify7 == <<"finish", "clean", "destroy">>
Verify8 == <<"clean", "destroy">>
Verify9 == <<"destroy">>
VerifyOut == <<"release", "clean", "destroy">>
Verified == {Verify6, Verify7, Verify8, Verify9, <<>>}
Verifying == {Verify1, Verify2, Verify3, Verify4, Verify5, VerifyOut} \cup Verified
VerifyOnly == {"manifest", "cache", "mustAcquire", "osirrox", "extract", "finish", "clean"}

\* The stages that take the drive and those after which it is not held.
Givers == {"info", "media", "destroy"}
Leaving == {"release", "clean", "destroy"}

\* The ways out of a failed call.
WaysOf(op) == IF op = "verifyChecksum" THEN {<<>>, Verify8, VerifyOut}
              ELSE {<<>>, <<"destroy">>, <<"release", "destroy">>}

-----------------------------------------------------------------------------
(* The inductive invariant                                                 *)

JobType ==
    /\ job \in [op : Ops, stages : Seq(StageNames), left : SUBSET Files, result : BOOLEAN]
    /\ job.op = "none" => job = NoJob

FormatType ==
    format \in [phases : {1, 3}, cycle : 0..2, raw : 0..100, phase : 0..2, last : 0..100]

(* A verification goes through its stages; no other call has any of them     *)
VerifyForm ==
    IF job.op = "verifyChecksum" THEN job.stages \in Verifying
    ELSE Rem(job.stages) \cap VerifyOnly = {}

(* The tools find the drive free, and nothing acquires it any more           *)
ToolForm ==
    Rem(job.stages) \cap Tools # {} => ~held /\ Rem(job.stages) \cap Acquiring = {}

FormatForm ==
    Rem(job.stages) \cap {"start", "format"} # {} => job.stages \in {FormatStages, <<"format">>}

(* What takes the drive is followed by what gives it up: the look at the disc *)
(* at once, the rest when the engine is destroyed                           *)
GiveUpOrder(s) ==
    \A i \in DOMAIN s :
        /\ s[i] \in {"acquire", "mustAcquire"} => s[Len(s)] = "destroy"
        /\ s[i] = "probe" => i + 1 \in DOMAIN s /\ s[i + 1] \in {"info", "media"}

HeldForm ==
    /\ GiveUpOrder(job.stages)
    /\ held => /\ Rem(job.stages) \cap Givers # {}
               /\ job.op = "verifyChecksum" => job.stages \notin {Verify1, Verify2}

CacheForm ==
    cache = "used" =>
        /\ job.op = "verifyChecksum"
        /\ job.stages \in {Verify3, Verify4, Verify5, Verify6, Verify7, Verify8, VerifyOut}

(* Nothing that fails without a status comes after the announcement          *)
AnnounceOrder(s) ==
    \A i, j \in DOMAIN s : s[i] = "announce" /\ s[j] \in Early => j < i

FailureForm ==
    /\ ~job.result => Rem(job.stages) \subseteq Leaving
    /\ job # NoJob /\ "failed" \in statuses => ~job.result
    /\ job.op \notin {"none", "verifyChecksum"} =>
          /\ AnnounceOrder(job.stages)
          /\ Rem(job.stages) \cap Early # {} => "announced" \notin statuses
          /\ "announced" \in statuses /\ ~job.result => "failed" \in statuses

(* What a verification that has not failed has found so far                  *)
VerifiedForm ==
    /\ verified => job = NoJob /\ manifest # {}
    /\ job.op = "verifyChecksum" /\ job.result =>
          /\ job.stages # VerifyOut
          /\ job.stages # Verify1 => manifest # {}
          /\ job.stages = Verify5 /\ ~stale =>
                \A f \in manifest \ job.left : disc[f] = "staged"
          /\ job.stages \in Verified /\ ~stale => \A f \in manifest : disc[f] = "staged"

(* The phase is never ahead of the pass, and what was told never ahead of    *)
(* what was printed                                                         *)
ProgressForm ==
    /\ format.cycle < format.phases /\ format.phase <= format.cycle
    /\ format.raw = format.last
    /\ At("format") => /\ overall < 100
                       /\ overall <= (format.phase * 100 + format.last) \div format.phases

IInv == /\ TypeOK /\ JobType /\ FormatType
        /\ VerifyForm /\ ToolForm /\ FormatForm /\ HeldForm /\ CacheForm /\ FailureForm
        /\ VerifiedForm /\ VerifiedIsTrue /\ ProgressForm

-----------------------------------------------------------------------------
(* Sequences of stages                                                     *)

\* The stages named are the first one and those of the rest.
LEMMA RemSplit ==
    ASSUME NEW s \in Seq(StageNames), s # <<>>
    PROVE  /\ Head(s) \in StageNames /\ Tail(s) \in Seq(StageNames)
           /\ Rem(s) = {Head(s)} \cup Rem(Tail(s))
<1>1. \A i \in DOMAIN s : i = 1 \/ (i - 1 \in DOMAIN Tail(s) /\ Tail(s)[i - 1] = s[i])
  OBVIOUS
<1>2. \A i \in DOMAIN Tail(s) : i + 1 \in DOMAIN s /\ Tail(s)[i] = s[i + 1]
  OBVIOUS
<1>3. 1 \in DOMAIN s /\ Head(s) = s[1] /\ Head(s) \in StageNames /\ Tail(s) \in Seq(StageNames)
  OBVIOUS
<1>4. Rem(s) \subseteq {Head(s)} \cup Rem(Tail(s))
  BY <1>1, <1>3, ZenonT(30) DEF Rem
<1>5. Rem(Tail(s)) \subseteq Rem(s)
  BY <1>2 DEF Rem
<1>6. Head(s) \in Rem(s)
  BY <1>3 DEF Rem
<1> QED
  BY <1>3, <1>4, <1>5, <1>6

\* What comes before what stays so in the rest, and nothing early is left once the
\* announcement is the first stage.
LEMMA OrderTail ==
    ASSUME NEW s \in Seq(StageNames), s # <<>>, AnnounceOrder(s)
    PROVE  /\ AnnounceOrder(Tail(s))
           /\ Head(s) = "announce" => Rem(s) \cap Early = {}
<1>1. \A i \in DOMAIN Tail(s) : i \in Nat /\ i + 1 \in DOMAIN s /\ Tail(s)[i] = s[i + 1]
  OBVIOUS
<1>2. 1 \in DOMAIN s /\ Head(s) = s[1] /\ \A j \in DOMAIN s : j \in Nat /\ ~(j < 1)
  OBVIOUS
<1> QED
  BY <1>1, <1>2 DEF AnnounceOrder, Rem

\* What is taken is given up by the rest, and what the rest takes too.
LEMMA GiveUpTail ==
    ASSUME NEW s \in Seq(StageNames), s # <<>>, GiveUpOrder(s)
    PROVE  /\ GiveUpOrder(Tail(s))
           /\ Head(s) \in {"probe", "acquire", "mustAcquire"} => Rem(Tail(s)) \cap Givers # {}
<1>1. /\ \A i \in DOMAIN Tail(s) : i \in Nat /\ i + 1 \in DOMAIN s /\ Tail(s)[i] = s[i + 1]
      /\ \A i \in DOMAIN s : i \in Nat /\ (i > 1 => i - 1 \in DOMAIN Tail(s))
      /\ Len(Tail(s)) + 1 = Len(s) /\ Len(Tail(s)) \in Nat
      /\ 1 \in DOMAIN s /\ Head(s) = s[1] /\ Len(s) \in DOMAIN s
      /\ Len(Tail(s)) > 0 => Len(Tail(s)) \in DOMAIN Tail(s) /\ Tail(s)[Len(Tail(s))] = s[Len(s)]
  OBVIOUS
<1>2. GiveUpOrder(Tail(s))
  <2> SUFFICES ASSUME NEW i \in DOMAIN Tail(s)
               PROVE  /\ Tail(s)[i] \in {"acquire", "mustAcquire"} =>
                            Tail(s)[Len(Tail(s))] = "destroy"
                      /\ Tail(s)[i] = "probe" => i + 1 \in DOMAIN Tail(s)
                                                 /\ Tail(s)[i + 1] \in {"info", "media"}
    BY DEF GiveUpOrder
  <2>1. Tail(s)[i] = s[i + 1] /\ i + 1 \in DOMAIN s /\ Len(Tail(s)) > 0
    OBVIOUS
  <2>2. Tail(s)[i] \in {"acquire", "mustAcquire"} => Tail(s)[Len(Tail(s))] = "destroy"
    BY <1>1, <2>1 DEF GiveUpOrder
  <2>3. Tail(s)[i] = "probe" => (i + 1) + 1 \in DOMAIN s /\ s[(i + 1) + 1] \in {"info", "media"}
    BY <2>1 DEF GiveUpOrder
  <2>4. (i + 1) + 1 \in DOMAIN s => i + 1 \in DOMAIN Tail(s) /\ Tail(s)[i + 1] = s[(i + 1) + 1]
    OBVIOUS
  <2> QED
    BY <2>2, <2>3, <2>4
<1>3. ASSUME Head(s) = "probe" PROVE Rem(Tail(s)) \cap Givers # {}
  <2>1. 2 \in DOMAIN s /\ s[2] \in {"info", "media"}
    <3>1. 1 \in DOMAIN s /\ s[1] = "probe"
      BY <1>3
    <3>2. 1 + 1 \in DOMAIN s /\ s[1 + 1] \in {"info", "media"}
      BY <3>1 DEF GiveUpOrder
    <3> QED
      BY <3>2
  <2>2. 1 \in DOMAIN Tail(s) /\ Tail(s)[1] = s[2]
    BY <2>1
  <2> QED
    BY <2>1, <2>2 DEF Rem, Givers
<1>4. ASSUME Head(s) \in {"acquire", "mustAcquire"} PROVE Rem(Tail(s)) \cap Givers # {}
  <2>1. s[Len(s)] = "destroy" /\ Len(s) # 1
    BY <1>1, <1>4 DEF GiveUpOrder
  <2>2. Len(Tail(s)) \in DOMAIN Tail(s) /\ Tail(s)[Len(Tail(s))] = "destroy"
    BY <1>1, <2>1
  <2> QED
    BY <2>2 DEF Rem, Givers
<1> QED
  BY <1>2, <1>3, <1>4

\* The ways out of a call: nothing is acquired on them, and all but the empty one end
\* with the engine.
LEMMA WaysOut ==
    ASSUME NEW op, NEW s \in WaysOf(op)
    PROVE  /\ s \in Seq(StageNames) /\ Rem(s) \subseteq Leaving
           /\ AnnounceOrder(s) /\ GiveUpOrder(s)
           /\ s # <<>> => "destroy" \in Rem(s) /\ s \notin {Verify1, Verify2}
           /\ IF op = "verifyChecksum" THEN s \in Verifying ELSE Rem(s) \cap VerifyOnly = {}
<1> USE DEF StageNames, Rem, AnnounceOrder, GiveUpOrder, Leaving, VerifyOnly
<1>1. CASE s = <<>>
  BY <1>1 DEF Verifying, Verified
<1>2. CASE s = <<"destroy">> /\ op # "verifyChecksum"
  BY <1>2 DEF Verify1, Verify2
<1>3. CASE s = <<"release", "destroy">> /\ op # "verifyChecksum"
  BY <1>3 DEF Verify1, Verify2
<1>4. CASE s = Verify8 /\ op = "verifyChecksum"
  BY <1>4 DEF Verifying, Verified, Verify8, Verify1, Verify2
<1>5. CASE s = VerifyOut /\ op = "verifyChecksum"
  BY <1>5 DEF Verifying, VerifyOut, Verify1, Verify2
<1> QED
  BY <1>1, <1>2, <1>3, <1>4, <1>5 DEF WaysOf

\* The stages of dvd+rw-format.
LEMMA FormatPlan ==
    /\ FormatStages \in Seq(StageNames) /\ Rem(FormatStages) = {"start", "format"}
    /\ AnnounceOrder(FormatStages) /\ GiveUpOrder(FormatStages)
<1>1. FormatStages \in Seq(StageNames)
  BY DEF FormatStages, StageNames
<1>2. Rem(FormatStages) = {"start", "format"}
  BY DEF FormatStages, Rem
<1> QED
  BY <1>1, <1>2 DEF FormatStages, AnnounceOrder, GiveUpOrder

\* The plan of every call: what it begins with.
LEMMA Plans ==
    ASSUME NEW call \in Calls
    PROVE  /\ call[1] \in Ops \ {"none"} /\ call[2] \in Seq(StageNames) /\ call[2] # <<>>
           /\ IF call[1] = "verifyChecksum" THEN call[2] = Verify1
              ELSE Rem(call[2]) \cap VerifyOnly = {}
           /\ Rem(call[2]) \cap Tools # {} => Rem(call[2]) \cap Acquiring = {}
           /\ Rem(call[2]) \cap {"start", "format"} = {}
           /\ call[1] # "verifyChecksum" => AnnounceOrder(call[2])
           /\ GiveUpOrder(call[2])
<1> USE DEF Rem, VerifyOnly, Tools, Acquiring, AnnounceOrder, Early, GiveUpOrder, StageNames,
            Ops
<1>1. CASE call = <<"commit", CommitStages>>
  BY <1>1 DEF CommitStages
<1>2. CASE call = <<"commitUdf", CommitUdfStages>>
  BY <1>2 DEF CommitUdfStages
<1>3. CASE call = <<"erase", EraseStages>>
  BY <1>3 DEF EraseStages
<1>4. CASE call = <<"checkmedia", CheckmediaStages>>
  BY <1>4 DEF CheckmediaStages
<1>5. CASE call = <<"writeISO", WriteISOStages>>
  BY <1>5 DEF WriteISOStages
<1>6. CASE call = <<"dumpISO", DumpISOStages>>
  BY <1>6 DEF DumpISOStages
<1>7. CASE call = <<"verifyChecksum", VerifyStages>>
  BY <1>7 DEF VerifyStages, Verify1
<1> QED
  BY <1>1, <1>2, <1>3, <1>4, <1>5, <1>6, <1>7 DEF Calls

\* A verification goes on from each stage to the next.
LEMMA VerifySteps ==
    /\ Tail(Verify1) = Verify2 /\ Tail(Verify2) = Verify3 /\ Tail(Verify3) = Verify4
    /\ Tail(Verify4) = Verify5 /\ Tail(Verify5) = Verify6 /\ Tail(Verify6) = Verify7
    /\ Tail(Verify7) = Verify8 /\ Tail(Verify8) = Verify9 /\ Tail(Verify9) = <<>>
    /\ Tail(VerifyOut) = Verify8
    /\ Head(Verify1) = "manifest" /\ Head(Verify2) = "cache" /\ Head(Verify3) = "mustAcquire"
    /\ Head(Verify4) = "osirrox" /\ Head(Verify5) = "extract" /\ Head(Verify6) = "release"
    /\ Head(Verify7) = "finish" /\ Head(Verify8) = "clean" /\ Head(Verify9) = "destroy"
    /\ Head(VerifyOut) = "release"
BY DEF Verify1, Verify2, Verify3, Verify4, Verify5, Verify6, Verify7, Verify8, Verify9,
       VerifyOut

\* From the extraction on.
LEMMA VerifyLater ==
    ASSUME NEW s \in {Verify5} \cup Verified, s # <<>>
    PROVE  Tail(s) \in Verified
BY VerifySteps DEF Verified

\* It stays one.
LEMMA VerifyOn ==
    ASSUME NEW s \in Verifying, s # <<>>
    PROVE  Tail(s) \in Verifying
<1>1. CASE s \in {Verify1, Verify2, Verify3, Verify4}
  <2>1. Tail(s) \in {Verify2, Verify3, Verify4, Verify5}
    BY <1>1, VerifySteps
  <2> QED
    BY <2>1 DEF Verifying
<1>2. CASE s \in {Verify5} \cup Verified
  BY <1>2, VerifyLater DEF Verifying
<1>3. CASE s = VerifyOut
  BY <1>3, VerifySteps DEF Verifying, Verified
<1> QED
  BY <1>1, <1>2, <1>3 DEF Verifying

\* Its next stage is one of its own, or gives the drive up.
LEMMA VerifyHead ==
    ASSUME NEW s \in Verifying, s # <<>>
    PROVE  Head(s) \in VerifyOnly \cup {"release", "destroy"}
<1>1. CASE s \in {Verify1, Verify2, Verify3, Verify4, Verify5}
  <2>1. Head(s) \in {"manifest", "cache", "mustAcquire", "osirrox", "extract"}
    BY <1>1, VerifySteps
  <2> QED
    BY <2>1 DEF VerifyOnly
<1>2. CASE s \in {VerifyOut} \cup Verified
  <2>1. Head(s) \in {"release", "finish", "clean", "destroy"}
    BY <1>2, VerifySteps DEF Verified
  <2> QED
    BY <2>1 DEF VerifyOnly
<1> QED
  BY <1>1, <1>2 DEF Verifying

\* None of a verification's stages is another that matters.
LEMMA VerifyDistinct ==
    /\ Verify1 \notin {Verify2, Verify3, Verify4, Verify5, VerifyOut} \cup Verified
    /\ VerifyOut \notin {Verify2, Verify3, Verify4, Verify5} \cup Verified
    /\ Verified \cap {Verify2, Verify3, Verify4, Verify5} = {}
    /\ Verify5 \notin {Verify2, Verify3, Verify4} /\ Verify2 \notin {Verify3, Verify4}
    /\ <<>> \notin {Verify1, Verify2, Verify3, Verify4, Verify5, Verify6, Verify7, Verify8,
                   Verify9, VerifyOut}
BY DEF Verify1, Verify2, Verify3, Verify4, Verify5, Verify6, Verify7, Verify8, Verify9,
       VerifyOut, Verified

-----------------------------------------------------------------------------
(* What the steps do to the call that runs                                 *)

JobForms == JobType /\ VerifyForm /\ FormatForm

\* A call that has a stage left is a call.
LEMMA InACall ==
    ASSUME JobType, job.stages # <<>>
    PROVE  job # NoJob /\ job.op # "none"
BY DEF JobType, NoJob

\* A call that goes on has the same stages left, but for the first.
LEMMA GoOnKeeps ==
    ASSUME JobForms, job.stages # <<>>, GoOn
    PROVE  /\ JobForms' /\ job' # NoJob
           /\ job'.op = job.op /\ job'.left = job.left /\ job'.result = job.result
           /\ job'.stages = Tail(job.stages)
           /\ Rem(job.stages) = {Head(job.stages)} \cup Rem(job'.stages)
<1> USE DEF JobForms
<1>1. /\ job'.op = job.op /\ job'.left = job.left /\ job'.result = job.result
      /\ job'.stages = Tail(job.stages) /\ job' = [job EXCEPT !.stages = Tail(@)]
  BY DEF JobType, GoOn
<1>2. /\ Head(job.stages) \in StageNames /\ Tail(job.stages) \in Seq(StageNames)
      /\ Rem(job.stages) = {Head(job.stages)} \cup Rem(Tail(job.stages))
  BY RemSplit DEF JobType
<1>3. JobType' /\ job' # NoJob
  <2>1. job.op # "none"
    BY InACall
  <2> QED
    BY <1>1, <1>2, <2>1 DEF JobType, NoJob
<1>4. VerifyForm'
  <2>1. CASE job.op = "verifyChecksum"
    <3>1. job.stages \in Verifying
      BY <2>1 DEF VerifyForm
    <3>2. Tail(job.stages) \in Verifying
      BY <3>1, VerifyOn
    <3> QED
      BY <1>1, <2>1, <3>2 DEF VerifyForm
  <2>2. CASE job.op # "verifyChecksum"
    BY <1>1, <1>2, <2>2 DEF VerifyForm
  <2> QED
    BY <2>1, <2>2
<1>5. FormatForm'
  <2>1. CASE Rem(job.stages) \cap {"start", "format"} = {}
    BY <1>1, <1>2, <2>1 DEF FormatForm
  <2>2. CASE job.stages = FormatStages
    BY <1>1, <2>2 DEF FormatForm, FormatStages
  <2>3. CASE job.stages = <<"format">>
    <3>1. Tail(job.stages) = <<>>
      BY <2>3
    <3>2. Rem(<<>>) = {}
      BY DEF Rem
    <3> QED
      BY <1>1, <3>1, <3>2 DEF FormatForm
  <2> QED
    BY <2>1, <2>2, <2>3 DEF FormatForm
<1> QED
  BY <1>1, <1>2, <1>3, <1>4, <1>5

\* A call that fails has at most to release the drive, to clean its cache and to let the
\* engine go.
LEMMA FailKeeps ==
    ASSUME JobForms, job.stages # <<>>, NEW s \in WaysOf(job.op), Fail(s)
    PROVE  /\ JobForms' /\ job' # NoJob
           /\ job'.op = job.op /\ job'.left = job.left /\ job'.result = FALSE
           /\ job'.stages = s /\ AnnounceOrder(s) /\ GiveUpOrder(s)
           /\ Rem(s) \subseteq Leaving
<1> USE DEF JobForms
<1>1. /\ job'.op = job.op /\ job'.left = job.left /\ job'.result = FALSE /\ job'.stages = s
      /\ job' = [job EXCEPT !.stages = s, !.result = FALSE]
  BY DEF JobType, Fail
<1>2. /\ s \in Seq(StageNames) /\ Rem(s) \subseteq Leaving /\ AnnounceOrder(s)
      /\ GiveUpOrder(s)
      /\ IF job.op = "verifyChecksum" THEN s \in Verifying ELSE Rem(s) \cap VerifyOnly = {}
  BY WaysOut
<1>3. JobType' /\ job' # NoJob
  <2>1. job.op # "none"
    BY InACall
  <2>2. ASSUME NEW rest \in Seq(StageNames), job' = [job EXCEPT !.stages = rest, !.result = FALSE]
        PROVE  JobType' /\ job' # NoJob
    BY <2>1, <2>2 DEF JobType, NoJob
  <2> QED
    BY <1>1, <1>2, <2>2
<1>4. VerifyForm'
  BY <1>1, <1>2 DEF VerifyForm
<1>5. FormatForm'
  BY <1>1, <1>2 DEF FormatForm, Leaving
<1> QED
  BY <1>1, <1>2, <1>3, <1>4, <1>5

\* A step that goes on and tells at most that something has finished, outside
\* dvd+rw-format.
LEMMA QuietGoOn ==
    ASSUME IInv, job.stages # <<>>, GoOn, UNCHANGED formatVars,
           statuses' \in {statuses, statuses \cup {"finished"}}
    PROVE  /\ FailureForm'
           /\ Head(job.stages) \notin {"start", "format"} => ProgressForm'
<1> USE DEF IInv
<1>1. /\ JobForms' /\ job' # NoJob /\ job'.op = job.op /\ job'.result = job.result
      /\ job'.stages = Tail(job.stages)
      /\ Rem(job.stages) = {Head(job.stages)} \cup Rem(job'.stages)
  BY GoOnKeeps DEF JobForms
<1>2. job # NoJob /\ job.op # "none"
  BY InACall
<1>3. FailureForm'
  <2>1. job.op # "verifyChecksum" => AnnounceOrder(Tail(job.stages))
    BY <1>2, OrderTail DEF FailureForm, JobType
  <2>2. /\ "failed" \in statuses' <=> "failed" \in statuses
        /\ "announced" \in statuses' <=> "announced" \in statuses
    OBVIOUS
  <2> QED
    BY <1>1, <1>2, <2>1, <2>2 DEF FailureForm
<1>4. ASSUME Head(job.stages) \notin {"start", "format"} PROVE ProgressForm'
  <2>1. Rem(job.stages) \cap {"start", "format"} = {}
    BY <1>4 DEF FormatForm, FormatStages
  <2>2. ~At("format")'
    BY <1>1, <2>1, RemSplit DEF At, JobForms, JobType
  <2> QED
    BY <2>2 DEF ProgressForm, formatVars
<1> QED
  BY <1>3, <1>4

\* A step that fails, with the failure told or before anything was announced.
LEMMA FailureKept ==
    ASSUME IInv, job.stages # <<>>,
           NEW s \in WaysOf(job.op), Fail(s),
           statuses \subseteq statuses',
           \/ "failed" \in statuses'
           \/ job.op = "verifyChecksum"
           \/ statuses' = statuses /\ Head(job.stages) \in Early
    PROVE  FailureForm' /\ (UNCHANGED formatVars => ProgressForm')
<1> USE DEF IInv
<1>1. /\ JobForms' /\ job' # NoJob /\ job'.op = job.op /\ job'.result = FALSE
      /\ job'.stages = s /\ AnnounceOrder(s) /\ Rem(s) \subseteq Leaving
  BY FailKeeps DEF JobForms
<1>2. job # NoJob /\ job.op # "none"
  BY InACall
<1>3. Head(job.stages) \in Rem(job.stages)
  BY RemSplit DEF JobType
<1>4. FailureForm'
  BY <1>1, <1>2, <1>3 DEF FailureForm, Early, Leaving
<1>5. ~At("format")'
  BY <1>1, RemSplit DEF At, JobForms, JobType, Leaving
<1> QED
  BY <1>4, <1>5 DEF ProgressForm, formatVars

-----------------------------------------------------------------------------
(* The steps keep the invariant                                            *)

\* What other programs do, and the calls' beginning and end.
LEMMA OutsideSteps ==
    ASSUME IInv, OtherProgram \/ GenerateChecksumManifest \/ Start \/ Return
    PROVE  IInv'
<1> USE DEF IInv
<1>1. CASE OtherProgram
  <2>1. /\ UNCHANGED <<processVars, job, jobs, formatVars, statuses>>
        /\ ~held /\ verified' = FALSE
        /\ taken' \in BOOLEAN /\ disc' \in [Files -> Contents]
        /\ job # NoJob => disc' = disc
    BY <1>1 DEF OtherProgram, TypeOK
  <2>2. TypeOK' /\ JobType' /\ FormatType'
    BY <2>1 DEF TypeOK, JobType, FormatType, processVars, cacheVars, formatVars
  <2>3. VerifyForm' /\ ToolForm' /\ FormatForm' /\ HeldForm' /\ CacheForm' /\ FailureForm'
    BY <2>1 DEF VerifyForm, ToolForm, FormatForm, HeldForm, CacheForm, FailureForm, processVars,
                cacheVars
  <2>4. VerifiedForm' /\ VerifiedIsTrue' /\ ProgressForm'
    BY <2>1 DEF VerifiedForm, VerifiedIsTrue, ProgressForm, At, processVars, cacheVars,
                formatVars, NoJob
  <2> QED
    BY <2>2, <2>3, <2>4
<1>2. CASE GenerateChecksumManifest
  <2>1. /\ UNCHANGED <<driveVars, held, cache, stale, job, jobs, formatVars, statuses, verified>>
        /\ job = NoJob /\ manifest' = Files /\ manifest # Files
    BY <1>2 DEF GenerateChecksumManifest, cacheVars
  <2>2. TypeOK' /\ JobType' /\ FormatType'
    BY <2>1 DEF TypeOK, JobType, FormatType, driveVars, formatVars, NoJob
  <2>3. VerifyForm' /\ ToolForm' /\ FormatForm' /\ HeldForm' /\ CacheForm' /\ FailureForm'
    BY <2>1 DEF VerifyForm, ToolForm, FormatForm, HeldForm, CacheForm, FailureForm
  <2>4. ~verified'
    BY <2>1 DEF TypeOK, VerifiedForm
  <2>5. VerifiedForm' /\ VerifiedIsTrue' /\ ProgressForm'
    BY <2>1, <2>4 DEF VerifiedForm, VerifiedIsTrue, ProgressForm, At, formatVars, NoJob
  <2> QED
    BY <2>2, <2>3, <2>5
<1>3. CASE Start
  <2>1. PICK call \in Calls :
            job' = [op |-> call[1], stages |-> call[2], left |-> {}, result |-> TRUE]
    BY <1>3 DEF Start
  <2>2. /\ UNCHANGED <<driveVars, processVars, formatVars>> /\ jobs' = jobs + 1
        /\ job = NoJob /\ jobs < MaxJobs /\ statuses' = {} /\ verified' = FALSE
    BY <1>3 DEF Start
  <2>3. /\ call[1] \in Ops \ {"none"} /\ call[2] \in Seq(StageNames) /\ call[2] # <<>>
        /\ IF call[1] = "verifyChecksum" THEN call[2] = Verify1
           ELSE Rem(call[2]) \cap VerifyOnly = {}
        /\ Rem(call[2]) \cap Tools # {} => Rem(call[2]) \cap Acquiring = {}
        /\ Rem(call[2]) \cap {"start", "format"} = {}
        /\ call[1] # "verifyChecksum" => AnnounceOrder(call[2])
        /\ GiveUpOrder(call[2])
    BY Plans
  <2>4. /\ job'.op = call[1] /\ job'.stages = call[2] /\ job'.left = {} /\ job'.result = TRUE
        /\ job' # NoJob
    BY <2>1, <2>3 DEF NoJob
  <2>5. JobType'
    BY <2>1, <2>3 DEF JobType
  <2>6. TypeOK' /\ FormatType'
    <3>1. jobs' \in 0..MaxJobs
      BY <2>2, BoundsAssumption DEF TypeOK
    <3>2. job'.left \subseteq manifest' /\ job'.result \in BOOLEAN
      BY <2>4
    <3> QED
      BY <2>2, <3>1, <3>2 DEF TypeOK, FormatType, driveVars, processVars, cacheVars, formatVars
  <2>7. VerifyForm' /\ FormatForm'
    BY <2>3, <2>4 DEF VerifyForm, FormatForm, Verifying
  <2>8. ToolForm' /\ CacheForm' /\ HeldForm'
    <3>1. ~held /\ cache # "used"
      BY <2>2 DEF HeldForm, CacheForm, NoJob, Rem
    <3> QED
      BY <2>2, <2>3, <2>4, <3>1 DEF ToolForm, CacheForm, HeldForm, processVars, cacheVars
  <2>9. FailureForm'
    BY <2>2, <2>3, <2>4 DEF FailureForm
  <2>10. VerifiedForm' /\ VerifiedIsTrue'
    BY <2>2, <2>3, <2>4, VerifyDistinct DEF VerifiedForm, VerifiedIsTrue
  <2>11. ~At("format")'
    BY <2>3, <2>4, RemSplit DEF At
  <2>12. ProgressForm'
    BY <2>2, <2>11 DEF ProgressForm, formatVars
  <2> QED
    BY <2>5, <2>6, <2>7, <2>8, <2>9, <2>10, <2>12
<1>4. CASE Return
  <2>1. /\ UNCHANGED <<driveVars, held, cache, stale, manifest, jobs, formatVars, statuses>>
        /\ job # NoJob /\ job.stages = <<>> /\ job' = NoJob
        /\ verified' = (job.op = "verifyChecksum" /\ job.result)
    BY <1>4 DEF Return, processVars, cacheVars
  <2>2. Rem(<<>>) = {} /\ GiveUpOrder(<<>>)
    BY DEF Rem, GiveUpOrder
  <2>3. JobType' /\ TypeOK' /\ FormatType'
    BY <2>1 DEF TypeOK, JobType, FormatType, driveVars, formatVars, NoJob, Ops
  <2>4. VerifyForm' /\ FormatForm' /\ HeldForm' /\ ToolForm' /\ FailureForm'
    BY <2>1, <2>2 DEF VerifyForm, FormatForm, HeldForm, ToolForm, FailureForm, NoJob
  <2>5. CacheForm'
    BY <2>1, VerifyDistinct DEF CacheForm
  <2>6. VerifiedForm' /\ VerifiedIsTrue'
    BY <2>1, VerifyDistinct DEF VerifiedForm, VerifiedIsTrue, Verified, driveVars, NoJob, JobType
  <2>7. ProgressForm'
    BY <2>1 DEF ProgressForm, formatVars, At, NoJob
  <2> QED
    BY <2>3, <2>4, <2>5, <2>6, <2>7
<1> QED
  BY <1>1, <1>2, <1>3, <1>4

\* A stage that is passed: it takes the drive only where the plan does, leaves extracted
\* files only with the cleaning ahead, and finds all that it should have found.
LEMMA PassedStage ==
    ASSUME IInv, job.stages # <<>>, GoOn,
           Head(job.stages) \notin {"start", "format", "osirrox"},
           At("manifest") => manifest # {},
           At("extract") => job.left = {},
           UNCHANGED <<driveVars, manifest, jobs, formatVars, verified>>,
           statuses' \in {statuses, statuses \cup {"finished"}},
           held' \in BOOLEAN,
           held' => /\ ~taken /\ Head(job.stages) \notin Givers
                    /\ held \/ Head(job.stages) \in {"probe", "acquire", "mustAcquire"},
           cache' \in {"none", "used", "left"},
           cache' = "used" => At("cache") \/ (cache = "used" /\ ~At("clean")),
           stale' \in BOOLEAN, stale' # stale => At("cache")
    PROVE  IInv'
<1> USE DEF IInv
<1>1. /\ JobForms' /\ job' # NoJob
      /\ job'.op = job.op /\ job'.left = job.left /\ job'.result = job.result
      /\ job'.stages = Tail(job.stages)
      /\ Rem(job.stages) = {Head(job.stages)} \cup Rem(job'.stages)
  BY GoOnKeeps DEF JobForms
<1>2. job # NoJob /\ job.op # "none"
  BY InACall
<1>3. FailureForm' /\ ProgressForm'
  BY QuietGoOn DEF driveVars
<1>4. TypeOK' /\ FormatType'
  BY <1>1 DEF TypeOK, FormatType, driveVars, formatVars
<1>5. ToolForm'
  BY <1>1 DEF ToolForm, Acquiring
<1>6. HeldForm'
  <2>1. /\ GiveUpOrder(Tail(job.stages))
        /\ Head(job.stages) \in {"probe", "acquire", "mustAcquire"} =>
              Rem(Tail(job.stages)) \cap Givers # {}
    BY GiveUpTail DEF HeldForm, JobType
  <2>2. ASSUME held' PROVE Rem(job'.stages) \cap Givers # {}
    BY <1>1, <2>1, <2>2 DEF HeldForm
  <2>3. ASSUME held', job.op = "verifyChecksum" PROVE job'.stages \notin {Verify1, Verify2}
    <3>1. job.stages # Verify1
      BY <2>3, VerifySteps DEF HeldForm
    <3>2. job.stages \in Verifying \ {<<>>}
      BY <2>3 DEF VerifyForm
    <3>3. Tail(job.stages) \in {Verify3, Verify4, Verify5} \cup Verified
      BY <3>1, <3>2, VerifySteps, VerifyLater DEF Verifying, Verified
    <3> QED
      BY <1>1, <3>3, VerifyDistinct
  <2> QED
    BY <1>1, <2>1, <2>2, <2>3 DEF HeldForm
<1>7. CacheForm'
  <2>1. ASSUME cache' = "used" PROVE job.op = "verifyChecksum"
    <3>1. At("cache") => Rem(job.stages) \cap VerifyOnly # {}
      BY <1>1 DEF At, VerifyOnly
    <3> QED
      BY <2>1, <3>1 DEF CacheForm, VerifyForm
  <2>2. ASSUME cache' = "used"
        PROVE  job.stages \in {Verify2, Verify3, Verify4, Verify5, Verify6, Verify7, VerifyOut}
    <3>1. ASSUME At("cache") PROVE job.stages = Verify2
      <4>1. job.stages \in Verifying /\ job.stages # <<>> /\ Head(job.stages) = "cache"
        BY <2>1, <2>2, <3>1 DEF VerifyForm, At
      <4> QED
        BY <4>1, VerifySteps DEF Verifying, Verified
    <3>2. ASSUME cache = "used", ~At("clean")
          PROVE  job.stages \in {Verify3, Verify4, Verify5, Verify6, Verify7, VerifyOut}
      <4>1. Head(job.stages) # "clean"
        BY <3>2 DEF At
      <4> QED
        BY <3>2, <4>1, VerifySteps DEF CacheForm
    <3> QED
      BY <2>2, <3>1, <3>2
  <2>3. ASSUME cache' = "used"
        PROVE  Tail(job.stages) \in {Verify3, Verify4, Verify5, Verify6, Verify7, Verify8}
    BY <2>2, <2>3, VerifySteps
  <2> QED
    BY <1>1, <2>1, <2>3 DEF CacheForm
<1>8. VerifiedForm' /\ VerifiedIsTrue'
  <2>1. ~verified /\ ~verified' /\ manifest' = manifest /\ disc' = disc
    BY <1>2 DEF VerifiedForm, TypeOK, driveVars
  <2>2. CASE job.op # "verifyChecksum" \/ ~job.result
    BY <1>1, <2>1, <2>2 DEF VerifiedForm, VerifiedIsTrue
  <2>3. CASE job.op = "verifyChecksum" /\ job.result /\ job.stages \in {Verify1, Verify2, Verify3}
    <3>1. job'.stages \in {Verify2, Verify3, Verify4}
      BY <1>1, <2>3, VerifySteps
    <3>2. job'.stages \notin {Verify5, VerifyOut} \cup Verified
      BY <3>1, VerifyDistinct
    <3>3. CASE job.stages = Verify1
      <4>1. manifest # {}
        BY <3>3, VerifySteps DEF At
      <4> QED
        BY <1>1, <2>1, <3>2, <4>1 DEF VerifiedForm, VerifiedIsTrue
    <3>4. CASE job.stages # Verify1
      <4>1. manifest # {}
        BY <2>3, <3>4 DEF VerifiedForm
      <4> QED
        BY <1>1, <2>1, <3>2, <4>1 DEF VerifiedForm, VerifiedIsTrue
    <3> QED
      BY <3>3, <3>4
  <2>4. CASE job.op = "verifyChecksum" /\ job.result /\ job.stages \in {Verify5} \cup Verified
    <3>1. job'.stages \in Verified
      BY <1>1, <2>4, VerifyLater
    <3>2. job'.stages \notin {Verify1, Verify5, VerifyOut}
      BY <3>1, VerifyDistinct
    <3>3. manifest # {} /\ (~stale => \A f \in manifest : disc[f] = "staged")
      BY <2>4, VerifySteps, VerifyDistinct DEF VerifiedForm, At
    <3>4. stale' = stale
      BY <2>4, VerifySteps DEF Verified, At
    <3> QED
      BY <1>1, <2>1, <3>1, <3>2, <3>3, <3>4 DEF VerifiedForm, VerifiedIsTrue
  <2> QED
    BY <2>2, <2>3, <2>4, VerifySteps DEF VerifyForm, Verifying, VerifiedForm
<1> QED
  BY <1>1, <1>3, <1>4, <1>5, <1>6, <1>7, <1>8 DEF JobForms

\* A stage that fails: what is held is still released, what is extracted still removed.
LEMMA FailedStage ==
    ASSUME IInv, job.stages # <<>>,
           NEW s \in WaysOf(job.op), Fail(s),
           statuses \subseteq statuses', statuses' \subseteq {"announced", "failed", "finished"},
           \/ "failed" \in statuses'
           \/ job.op = "verifyChecksum"
           \/ statuses' = statuses /\ Head(job.stages) \in Early,
           UNCHANGED <<taken, manifest, jobs, formatVars, verified>>,
           disc' \in [Files -> Contents],
           held' \in {FALSE, held}, held' => s # <<>>,
           cache' \in {"none", "used", "left"}, stale' \in BOOLEAN,
           cache' = "used" => cache = "used" /\ s # <<>>
    PROVE  IInv'
<1> USE DEF IInv
<1>1. /\ JobForms' /\ job' # NoJob
      /\ job'.op = job.op /\ job'.left = job.left /\ job'.result = FALSE
      /\ job'.stages = s /\ GiveUpOrder(s) /\ Rem(s) \subseteq Leaving
  BY FailKeeps DEF JobForms
<1>2. job # NoJob /\ job.op # "none"
  BY InACall
<1>3. FailureForm' /\ ProgressForm'
  BY FailureKept
<1>4. TypeOK' /\ FormatType'
  <2>1. held' \in BOOLEAN /\ ~(taken' /\ held')
    <3>1. CASE held' = FALSE
      BY <3>1
    <3>2. CASE held' = held
      BY <3>2 DEF TypeOK
    <3> QED
      BY <3>1, <3>2
  <2>2. job'.left \subseteq manifest' /\ job'.result \in BOOLEAN
    BY <1>1 DEF TypeOK
  <2>3. verified' \in BOOLEAN /\ taken' \in BOOLEAN
    BY DEF TypeOK
  <2> QED
    BY <2>1, <2>2, <2>3 DEF TypeOK, FormatType, formatVars
<1>5. ToolForm' /\ HeldForm'
  <2>1. s # <<>> => "destroy" \in Rem(s) /\ s \notin {Verify1, Verify2}
    BY WaysOut
  <2>2. ToolForm'
    BY <1>1 DEF ToolForm, Tools, Leaving
  <2> QED
    BY <1>1, <2>1, <2>2 DEF HeldForm, Givers
<1>6. CacheForm'
  <2>1. cache' = "used" => job.op = "verifyChecksum" /\ s \in {Verify8, VerifyOut}
    BY DEF CacheForm, WaysOf
  <2> QED
    BY <1>1, <2>1 DEF CacheForm
<1>7. VerifiedForm' /\ VerifiedIsTrue'
  BY <1>1, <1>2 DEF VerifiedForm, VerifiedIsTrue
<1> QED
  BY <1>1, <1>3, <1>4, <1>5, <1>6, <1>7 DEF JobForms

\* The way out suits the call.
LEMMA WayOutSuits ==
    /\ WayOut \in WaysOf(job.op) /\ WayOut # <<>> /\ <<>> \in WaysOf(job.op)
    /\ IF job.op = "verifyChecksum" THEN <<"clean", "destroy">> \in WaysOf(job.op)
       ELSE <<"destroy">> \in WaysOf(job.op)
    /\ <<"clean", "destroy">> # <<>> /\ <<"destroy">> # <<>>
BY DEF WayOut, WaysOf, Verify8, VerifyOut

\* Only a verification has extracted files, and only from its third stage on; before it
\* nothing is held.
LEMMA CleanHeads ==
    ASSUME IInv, job.stages # <<>>,
           cache = "used" \/ Head(job.stages) \in VerifyOnly
    PROVE  /\ job.op = "verifyChecksum"
           /\ Head(job.stages) \in VerifyOnly \cup {"release", "destroy"}
           /\ cache = "used" => Head(job.stages) \notin {"manifest", "cache"}
           /\ Head(job.stages) \in {"manifest", "cache"} => ~held
<1> USE DEF IInv
<1>1. Head(job.stages) \in Rem(job.stages)
  BY RemSplit DEF JobType
<1>2. job.op = "verifyChecksum"
  BY <1>1 DEF CacheForm, VerifyForm
<1>3. job.stages \in Verifying
  BY <1>2 DEF VerifyForm
<1>4. Head(job.stages) \in VerifyOnly \cup {"release", "destroy"}
  BY <1>3, VerifyHead
<1>5. ASSUME cache = "used" PROVE Head(job.stages) \notin {"manifest", "cache"}
  <2>1. job.stages \in {Verify3, Verify4, Verify5, Verify6, Verify7, Verify8, VerifyOut}
    BY <1>5 DEF CacheForm
  <2> QED
    BY <2>1, VerifySteps
<1>6. ASSUME Head(job.stages) \in {"manifest", "cache"} PROVE ~held
  <2>1. job.stages \in {Verify1, Verify2}
    BY <1>3, <1>6, VerifySteps DEF Verifying, Verified
  <2> QED
    BY <1>2, <2>1 DEF HeldForm
<1> QED
  BY <1>2, <1>4, <1>5, <1>6

\* The stages of a verification are its own, but for those that give the drive up.
LEMMA VerifyHeads ==
    ASSUME IInv, job.stages # <<>>, job.op = "verifyChecksum"
    PROVE  Head(job.stages) \in VerifyOnly \cup {"release", "destroy"}
<1>1. job.stages \in Verifying
  BY DEF IInv, VerifyForm
<1> QED
  BY <1>1, VerifyHead

\* The stages of a tool, which finds the drive free.
LEMMA ToolHeads ==
    ASSUME IInv, job.stages # <<>>, Head(job.stages) \in Tools
    PROVE  ~held
<1>1. Head(job.stages) \in Rem(job.stages)
  BY RemSplit DEF IInv, JobType
<1> QED
  BY <1>1 DEF IInv, ToolForm

\* The stages that ask, acquire, release, finish and clean.
LEMMA PassingStages ==
    ASSUME IInv, CheckInput \/ Probe \/ Info \/ Media \/ Acquire \/ Release \/ Destroy
                 \/ PrepareCache \/ Finish \/ CleanupExtractCache
    PROVE  IInv'
<1>1. /\ taken \in BOOLEAN /\ held \in BOOLEAN /\ ~(taken /\ held)
      /\ cache \in {"none", "used", "left"} /\ disc \in [Files -> Contents]
      /\ statuses \subseteq {"announced", "failed", "finished"} /\ stale \in BOOLEAN
  BY DEF IInv, TypeOK
<1>2. CASE CheckInput
  <2>1. UNCHANGED <<driveVars, processVars, jobs, formatVars, statuses, verified>>
    BY <1>2 DEF CheckInput, Ask
  <2>2. job.stages # <<>>
    BY <1>2 DEF CheckInput, At
  <2>3. CASE /\ GoOn /\ Head(job.stages) \in {"library", "path", "files", "blocks", "manifest"}
             /\ At("manifest") => manifest # {}
    BY <1>1, <2>1, <2>2, <2>3, PassedStage DEF At, Givers, processVars, cacheVars
  <2>4. CASE At("library") /\ Fail(<<>>)
    BY <1>1, <2>1, <2>2, <2>4, CleanHeads, ToolHeads, FailedStage, WayOutSuits
    DEF At, Early, Tools, VerifyOnly, processVars, cacheVars, driveVars
  <2>5. CASE \E n \in {"files", "blocks"} : At(n) /\ Fail(WayOut)
    BY <1>1, <2>1, <2>2, <2>5, FailedStage, WayOutSuits
    DEF At, Early, processVars, cacheVars, driveVars
  <2>6. CASE At("manifest") /\ Fail(<<>>)
    BY <1>1, <2>1, <2>2, <2>6, CleanHeads, FailedStage, WayOutSuits
    DEF At, VerifyOnly, processVars, cacheVars, driveVars
  <2>7. CASE At("path") /\ Fail(<<"destroy">>)
    <3>1. job.op # "verifyChecksum" /\ cache # "used"
      BY <2>2, <2>7, CleanHeads, VerifyHeads DEF At, VerifyOnly
    <3> QED
      BY <1>1, <2>1, <2>2, <2>7, <3>1, FailedStage, WayOutSuits
      DEF At, Early, processVars, cacheVars, driveVars
  <2> QED
    BY <1>2, <2>3, <2>4, <2>5, <2>6, <2>7 DEF CheckInput, At
<1>3. CASE Probe
  BY <1>1, <1>3, PassedStage DEF Probe, At, Givers, cacheVars
<1>4. CASE Info
  <2>1. CASE held
    BY <1>1, <1>4, <2>1, PassedStage DEF Info, At, cacheVars
  <2>2. CASE ~held
    BY <1>1, <1>4, <2>2, CleanHeads, FailedStage, WayOutSuits
    DEF Info, At, Early, VerifyOnly, driveVars, cacheVars
  <2> QED
    BY <2>1, <2>2
<1>5. CASE Release \/ Destroy
  BY <1>1, <1>5, PassedStage DEF Release, Destroy, GiveUp, At, cacheVars
<1>6. CASE CleanupExtractCache
  BY <1>1, <1>6, PassedStage DEF CleanupExtractCache, At, Givers, driveVars, IInv, HeldForm
<1>7. CASE PrepareCache
  <2>1. CASE cache' = "used" /\ GoOn /\ stale' \in BOOLEAN
    BY <1>1, <1>7, <2>1, CleanHeads, PassedStage DEF PrepareCache, At, VerifyOnly
  <2>2. CASE cache' = "none" /\ stale' = FALSE /\ Fail(<<>>)
    BY <1>1, <1>7, <2>2, CleanHeads, FailedStage, WayOutSuits
    DEF PrepareCache, At, VerifyOnly, driveVars
  <2> QED
    BY <1>7, <2>1, <2>2 DEF PrepareCache
<1>8. CASE Acquire
  <2>1. CASE At("mustAcquire") /\ ~held'
    BY <1>1, <1>8, <2>1, CleanHeads, FailedStage, WayOutSuits
    DEF Acquire, At, VerifyOnly, driveVars, cacheVars
  <2>2. CASE ~(At("mustAcquire") /\ ~held')
    BY <1>1, <1>8, <2>2, PassedStage DEF Acquire, At, Givers, cacheVars
  <2> QED
    BY <2>1, <2>2
<1>10. CASE Finish
  <2>1. /\ UNCHANGED <<driveVars, processVars, jobs, formatVars, verified>>
        /\ GoOn /\ job.stages # <<>> /\ Head(job.stages) = "finish"
        /\ statuses' = statuses \cup {"finished"}
    BY <1>10 DEF Finish, Ask, Emit, At
  <2> QED
    BY <1>1, <2>1, PassedStage DEF At, Givers, processVars, cacheVars
<1>9. CASE Media
  <2>1. CASE GoOn
    BY <1>1, <1>9, <2>1, PassedStage DEF Media, At, cacheVars
  <2>2. CASE GoTo(FormatStages)
    <3>1. /\ At("media") /\ job.stages # <<>> /\ Head(job.stages) = "media" /\ held' = FALSE
          /\ UNCHANGED <<driveVars, cache, stale, manifest, jobs, formatVars, statuses, verified>>
      BY <1>9 DEF Media, At, cacheVars
    <3>2. /\ job # NoJob /\ job.op \notin {"none", "verifyChecksum"} /\ cache # "used"
      BY <3>1, InACall, CleanHeads, VerifyHeads DEF IInv, VerifyOnly
    <3>3. /\ job'.op = job.op /\ job'.left = job.left /\ job'.result = job.result
          /\ job'.stages = FormatStages /\ job' = [job EXCEPT !.stages = FormatStages]
      BY <2>2 DEF GoTo, IInv, JobType
    <3>4. Head(FormatStages) = "start" /\ FormatStages # <<>>
      BY DEF FormatStages
    <3>5. Head(job.stages) \in Rem(job.stages)
      BY <3>1, RemSplit DEF IInv, JobType
    <3>6. JobType' /\ job' # NoJob
      <4>1. ASSUME NEW rest \in Seq(StageNames), job' = [job EXCEPT !.stages = rest]
            PROVE  JobType' /\ job' # NoJob
        BY <3>2, <4>1 DEF IInv, JobType, NoJob
      <4> QED
        BY <3>3, <4>1, FormatPlan
    <3>7. TypeOK' /\ FormatType'
      BY <3>1, <3>3 DEF IInv, TypeOK, FormatType, driveVars, formatVars
    <3>8. /\ VerifyForm' /\ ToolForm' /\ FormatForm' /\ HeldForm' /\ CacheForm'
      <4>1. VerifyForm' /\ ToolForm' /\ FormatForm'
        BY <3>1, <3>2, <3>3, FormatPlan
        DEF VerifyForm, ToolForm, FormatForm, VerifyOnly, Acquiring
      <4>2. CacheForm'
        BY <3>1, <3>2 DEF CacheForm
      <4>3. HeldForm'
        <5>1. GiveUpOrder(job'.stages) /\ ~held'
          BY <3>1, <3>3, FormatPlan
        <5> QED
          BY <5>1 DEF HeldForm
      <4> QED
        BY <4>1, <4>2, <4>3
    <3>9. FailureForm'
      BY <3>1, <3>2, <3>3, <3>5, FormatPlan DEF IInv, FailureForm, Early, Leaving
    <3>10. VerifiedForm' /\ VerifiedIsTrue'
      BY <3>1, <3>2, <3>3 DEF IInv, VerifiedForm, VerifiedIsTrue
    <3>11. ProgressForm'
      BY <3>1, <3>3, <3>4 DEF IInv, ProgressForm, At, formatVars
    <3> QED
      BY <3>6, <3>7, <3>8, <3>9, <3>10, <3>11 DEF IInv
  <2> QED
    BY <1>9, <2>1, <2>2 DEF Media
<1> QED
  BY <1>2, <1>3, <1>4, <1>5, <1>6, <1>7, <1>8, <1>9, <1>10

\* The announcement: nothing that fails untold comes after it.
LEMMA AnnounceStage == ASSUME IInv, Announce PROVE IInv'
<1>1. /\ At("announce") /\ GoOn /\ job.stages # <<>> /\ Head(job.stages) = "announce"
      /\ UNCHANGED <<driveVars, processVars, jobs, formatVars, verified>>
      /\ statuses' = statuses \cup {"announced"}
  BY DEF Announce, At, Ask, Emit
<1>2. /\ job # NoJob /\ job.op \notin {"none", "verifyChecksum"} /\ cache # "used"
  BY <1>1, InACall, CleanHeads, VerifyHeads DEF IInv, VerifyOnly
<1>3. /\ JobForms' /\ job' # NoJob
      /\ job'.op = job.op /\ job'.left = job.left /\ job'.result = job.result
      /\ job'.stages = Tail(job.stages)
      /\ Rem(job.stages) = {Head(job.stages)} \cup Rem(job'.stages)
  BY <1>1, GoOnKeeps DEF IInv, JobForms
<1>4. TypeOK' /\ FormatType'
  BY <1>1, <1>3 DEF IInv, TypeOK, FormatType, driveVars, processVars, cacheVars, formatVars
<1>5. ToolForm' /\ HeldForm' /\ CacheForm'
  BY <1>1, <1>2, <1>3, GiveUpTail
  DEF IInv, JobType, ToolForm, HeldForm, CacheForm, Givers, processVars, cacheVars
<1>6. FailureForm'
  <2>1. AnnounceOrder(Tail(job.stages)) /\ Rem(job.stages) \cap Early = {}
    BY <1>1, <1>2, OrderTail DEF IInv, FailureForm, JobType
  <2>2. job.result
    BY <1>1, <1>3 DEF IInv, FailureForm, Leaving
  <2> QED
    BY <1>1, <1>2, <1>3, <2>1, <2>2 DEF IInv, FailureForm
<1>7. VerifiedForm' /\ VerifiedIsTrue'
  BY <1>1, <1>2, <1>3 DEF IInv, VerifiedForm, VerifiedIsTrue
<1>8. ProgressForm'
  <2>1. Rem(job.stages) \cap {"start", "format"} = {}
    BY <1>1 DEF IInv, FormatForm, FormatStages
  <2>2. ~At("format")'
    BY <1>3, <2>1, RemSplit DEF At, JobForms, JobType
  <2> QED
    BY <1>1, <2>2 DEF IInv, ProgressForm, formatVars
<1> QED
  BY <1>3, <1>4, <1>5, <1>6, <1>7, <1>8 DEF IInv, JobForms

\* What a call may leave is a disc.
LEMMA LeavesType ==
    ASSUME disc \in [Files -> Contents], NEW left \in Leaves
    PROVE  left \in [Files -> Contents]
<1>1. [f \in Files |-> "absent"] \in [Files -> Contents]
  BY DEF Contents
<1>2. CASE job.op = "erase"
  BY <1>1, <1>2 DEF Leaves
<1>3. CASE job.op \in {"commit", "commitUdf", "writeISO"}
  BY <1>3 DEF Leaves
<1>4. CASE job.op \notin {"erase", "commit", "commitUdf", "writeISO"}
  BY <1>4 DEF Leaves
<1> QED
  BY <1>2, <1>3, <1>4

\* A stage of an engine that is done, the disc being what it left.
LEMMA EngineDone ==
    ASSUME IInv, job.stages # <<>>, GoOn, Head(job.stages) \in {"work", "burn"},
           UNCHANGED <<taken, processVars, jobs, formatVars, verified>>,
           disc' \in [Files -> Contents],
           statuses' \in {statuses, statuses \cup {"finished"}}
    PROVE  IInv'
<1>1. /\ job # NoJob /\ job.op \notin {"none", "verifyChecksum"} /\ cache # "used"
  BY InACall, CleanHeads, VerifyHeads DEF IInv, VerifyOnly
<1>2. /\ JobForms' /\ job' # NoJob
      /\ job'.op = job.op /\ job'.left = job.left /\ job'.result = job.result
      /\ job'.stages = Tail(job.stages)
      /\ Rem(job.stages) = {Head(job.stages)} \cup Rem(job'.stages)
  BY GoOnKeeps DEF IInv, JobForms
<1>3. TypeOK' /\ FormatType'
  BY <1>2 DEF IInv, TypeOK, FormatType, processVars, cacheVars, formatVars
<1>4. ToolForm' /\ HeldForm' /\ CacheForm'
  BY <1>1, <1>2, GiveUpTail
  DEF IInv, JobType, ToolForm, HeldForm, CacheForm, Givers, processVars, cacheVars
<1>5. FailureForm'
  <2>1. AnnounceOrder(Tail(job.stages))
    BY <1>1, OrderTail DEF IInv, FailureForm, JobType
  <2>2. /\ "failed" \in statuses' <=> "failed" \in statuses
        /\ "announced" \in statuses' <=> "announced" \in statuses
    OBVIOUS
  <2> QED
    BY <1>1, <1>2, <2>1, <2>2 DEF IInv, FailureForm
<1>6. VerifiedForm' /\ VerifiedIsTrue'
  BY <1>1, <1>2 DEF IInv, VerifiedForm, VerifiedIsTrue
<1>7. ProgressForm'
  <2>1. Rem(job.stages) \cap {"start", "format"} = {}
    BY DEF IInv, FormatForm, FormatStages
  <2>2. ~At("format")'
    BY <1>2, <2>1, RemSplit DEF At, JobForms, JobType
  <2> QED
    BY <2>2 DEF IInv, ProgressForm, formatVars
<1> QED
  BY <1>2, <1>3, <1>4, <1>5, <1>6, <1>7 DEF IInv, JobForms

\* The stages of the engines: an option fails and says so, or all are done.
LEMMA EngineStages == ASSUME IInv, Work \/ UdfBurn PROVE IInv'
<1>1. /\ taken \in BOOLEAN /\ disc \in [Files -> Contents]
      /\ statuses \subseteq {"announced", "failed", "finished"}
      /\ cache \in {"none", "used", "left"} /\ stale \in BOOLEAN
  BY DEF IInv, TypeOK
<1>2. disc' \in [Files -> Contents] /\ job.stages # <<>>
      /\ Head(job.stages) \in {"work", "burn"}
      /\ UNCHANGED <<taken, processVars, jobs, formatVars, verified>>
  BY <1>1, LeavesType DEF Work, UdfBurn, At
<1>3. cache # "used" /\ job.op # "verifyChecksum"
  BY <1>2, CleanHeads, VerifyHeads DEF VerifyOnly
<1>4. CASE GoOn /\ statuses' \in {statuses, statuses \cup {"finished"}}
  BY <1>2, <1>4, EngineDone
<1>5. ASSUME statuses' \in {statuses \cup {"failed"}, statuses \cup {"finished", "failed"}}
      PROVE  /\ statuses \subseteq statuses' /\ "failed" \in statuses'
             /\ statuses' \subseteq {"announced", "failed", "finished"}
  BY <1>1, <1>5
<1>6. ASSUME NEW way \in WaysOf(job.op), Fail(way), way = <<>> => ~held,
             statuses' \in {statuses \cup {"failed"}, statuses \cup {"finished", "failed"}}
      PROVE  IInv'
  <2>1. /\ held' = held /\ held' \in {FALSE, held} /\ cache' = cache /\ cache' # "used"
        /\ cache' \in {"none", "used", "left"} /\ stale' \in BOOLEAN /\ manifest' = manifest
    BY <1>1, <1>2, <1>3 DEF processVars, cacheVars
  <2>2. /\ statuses \subseteq statuses' /\ "failed" \in statuses'
        /\ statuses' \subseteq {"announced", "failed", "finished"}
    BY <1>5, <1>6
  <2> QED
    BY <1>2, <1>6, <2>1, <2>2, FailedStage
<1>7. CASE /\ Fail(WayOut)
           /\ statuses' \in {statuses \cup {"failed"}, statuses \cup {"finished", "failed"}}
  BY <1>6, <1>7, WayOutSuits
<1>8. CASE Fail(<<>>) /\ statuses' = statuses \cup {"failed"} /\ At("burn")
  <2>1. Head(job.stages) = "burn"
    BY <1>8 DEF At
  <2>2. ~held
    BY <1>2, <2>1, ToolHeads DEF Tools
  <2> QED
    BY <1>6, <1>8, <2>2, WayOutSuits
<1> QED
  BY <1>4, <1>7, <1>8 DEF Work, UdfBurn, Emit

\* osirrox is switched on: from here the files of the manifest are left to check.
LEMMA OsirroxStage == ASSUME IInv, OsirroxOn PROVE IInv'
<1>1. /\ job.stages # <<>> /\ Head(job.stages) = "osirrox"
      /\ UNCHANGED <<driveVars, processVars, jobs, formatVars, verified>>
      /\ statuses \subseteq {"announced", "failed", "finished"} /\ stale \in BOOLEAN
      /\ cache \in {"none", "used", "left"} /\ disc \in [Files -> Contents]
  BY DEF OsirroxOn, At, Ask, IInv, TypeOK
<1>2. job.op = "verifyChecksum" /\ job # NoJob
  BY <1>1, CleanHeads, InACall DEF IInv, VerifyOnly
<1>3. CASE Fail(WayOut) /\ Emit("failed")
  BY <1>1, <1>2, <1>3, FailedStage, WayOutSuits
  DEF Emit, processVars, cacheVars, driveVars
<1>4. CASE UNCHANGED statuses /\ job' = [job EXCEPT !.stages = Tail(@), !.left = manifest]
  <2>1. job.stages = Verify4 /\ Tail(job.stages) = Verify5
    <3>1. job.stages \in Verifying
      BY <1>2 DEF IInv, VerifyForm
    <3> QED
      BY <1>1, <3>1, VerifySteps DEF Verifying, Verified
  <2>2. /\ Verify5 \in Seq(StageNames)
        /\ Rem(Verify5) = {"extract", "release", "finish", "clean", "destroy"}
    BY DEF Verify5, StageNames, Rem
  <2>3. manifest \in SUBSET Files
    BY DEF IInv, TypeOK
  <2>4. /\ job' = [job EXCEPT !.stages = Verify5, !.left = manifest]
        /\ job'.op = job.op /\ job'.result = job.result /\ job'.stages = Verify5
        /\ job'.left = manifest
    BY <1>4, <2>1 DEF IInv, JobType
  <2>5. JobType' /\ job' # NoJob
    BY <1>2, <2>2, <2>3, <2>4 DEF IInv, JobType, NoJob
  <2>6. TypeOK' /\ FormatType'
    BY <1>1, <1>4, <2>4
    DEF IInv, TypeOK, FormatType, driveVars, processVars, cacheVars, formatVars
  <2>7. VerifyForm' /\ ToolForm' /\ FormatForm' /\ CacheForm'
    BY <1>1, <1>2, <2>2, <2>4, <2>5
    DEF IInv, VerifyForm, Verifying, ToolForm, Tools, FormatForm, CacheForm, processVars, cacheVars
  <2>11. HeldForm'
    <3>1. GiveUpOrder(Verify5)
      BY <1>1, <2>1, GiveUpTail DEF IInv, JobType, HeldForm
    <3> QED
      BY <2>2, <2>4, <3>1, VerifyDistinct DEF HeldForm, Givers
  <2>8. FailureForm'
    <3>1. "osirrox" \in Rem(job.stages)
      BY <1>1, RemSplit DEF IInv, JobType
    <3> QED
      BY <1>2, <1>4, <2>4, <3>1 DEF IInv, FailureForm, Leaving
  <2>9. VerifiedForm' /\ VerifiedIsTrue'
    <3>1. ~verified /\ ~verified' /\ manifest' = manifest
      BY <1>1, <1>2 DEF IInv, TypeOK, VerifiedForm, processVars
    <3>2. Verify5 # Verify1 /\ Verify5 \notin {VerifyOut} \cup Verified
      BY VerifyDistinct
    <3>3. job.result => manifest # {}
      BY <1>2, <2>1, VerifyDistinct DEF IInv, VerifiedForm
    <3> QED
      BY <2>4, <3>1, <3>2, <3>3 DEF VerifiedForm, VerifiedIsTrue
  <2>10. ProgressForm'
    BY <1>1, <2>4, VerifySteps DEF IInv, ProgressForm, At, formatVars
  <2> QED
    BY <2>5, <2>6, <2>7, <2>8, <2>9, <2>10, <2>11 DEF IInv
<1> QED
  BY <1>3, <1>4 DEF OsirroxOn

\* The next file, or the last one done: what is not left to check is as it was staged.
LEMMA ExtractStage == ASSUME IInv, Extract PROVE IInv'
<1>1. /\ job.stages # <<>> /\ Head(job.stages) = "extract"
      /\ UNCHANGED <<driveVars, processVars, jobs, formatVars, verified>>
      /\ statuses \subseteq {"announced", "failed", "finished"} /\ stale \in BOOLEAN
      /\ cache \in {"none", "used", "left"} /\ disc \in [Files -> Contents]
  BY DEF Extract, At, IInv, TypeOK
<1>2. job.op = "verifyChecksum" /\ job # NoJob
  BY <1>1, CleanHeads, InACall DEF IInv, VerifyOnly
<1>3. job.stages = Verify5 /\ Tail(job.stages) = Verify6
  <2>1. job.stages \in Verifying
    BY <1>2 DEF IInv, VerifyForm
  <2> QED
    BY <1>1, <2>1, VerifySteps DEF Verifying, Verified
<1>4. ~verified /\ ~verified' /\ UNCHANGED <<manifest, disc, held, taken, cache, stale>>
  BY <1>1, <1>2 DEF IInv, TypeOK, VerifiedForm, processVars, cacheVars, driveVars
<1>5. ASSUME Fail(WayOut), statuses' \in {statuses \cup {"failed"}, statuses \cup {"announced"}}
      PROVE  IInv'
  BY <1>1, <1>2, <1>5, FailedStage, WayOutSuits DEF processVars, cacheVars, driveVars
<1>6. CASE job.left = {} /\ GoOn /\ UNCHANGED statuses
  BY <1>1, <1>4, <1>6, PassedStage
  DEF At, Givers, IInv, TypeOK, HeldForm, driveVars, formatVars
<1>7. ASSUME NEW f \in job.left, disc[f] = "staged" \/ stale, job' = [job EXCEPT !.left = @ \ {f}],
             Emit("announced")
      PROVE  IInv'
  <2>1. /\ job'.op = job.op /\ job'.left = job.left \ {f} /\ job'.result = job.result
        /\ job'.stages = job.stages /\ JobType' /\ job' # NoJob
    BY <1>2, <1>7 DEF IInv, JobType, NoJob
  <2>2. TypeOK' /\ FormatType'
    BY <1>1, <1>4, <1>7, <2>1 DEF IInv, TypeOK, FormatType, formatVars, Emit
  <2>3. VerifyForm' /\ FormatForm' /\ ToolForm' /\ HeldForm' /\ CacheForm'
    BY <1>2, <1>4, <2>1 DEF IInv, VerifyForm, FormatForm, ToolForm, HeldForm, CacheForm
  <2>4. FailureForm'
    BY <1>2, <1>7, <2>1 DEF IInv, FailureForm, Emit
  <2>5. VerifiedForm' /\ VerifiedIsTrue'
    <3>1. Verify5 \notin {VerifyOut} \cup Verified
      BY VerifyDistinct
    <3> QED
      BY <1>3, <1>4, <1>7, <2>1, <3>1 DEF IInv, VerifiedForm, VerifiedIsTrue
  <2>6. ProgressForm'
    BY <1>1, <2>1 DEF IInv, ProgressForm, At, formatVars
  <2> QED
    BY <2>1, <2>2, <2>3, <2>4, <2>5, <2>6 DEF IInv
<1> QED
  BY <1>5, <1>6, <1>7 DEF Extract, Emit

-----------------------------------------------------------------------------
(* dvd+rw-format                                                           *)

\* Division by the number of passes.
LEMMA PassDivision ==
    ASSUME NEW n \in {1, 3}, NEW a \in Nat, NEW b \in Nat
    PROVE  /\ a \div n \in Nat
           /\ a <= b => a \div n <= b \div n
           /\ a <= b + 5 => a \div n <= b \div n + 5
<1>1. CASE n = 1
  BY <1>1
<1>2. CASE n = 3
  BY <1>2
<1> QED
  BY <1>1, <1>2

\* One reading of the tool's progress: the phase follows the pass, and what is told
\* falls by the noise at most and stays below 100.
LEMMA OneReading ==
    ASSUME FormatType, ProgressForm, format.phase < format.phases,
           overall \in 0..99,
           overall <= (format.phase * 100 + format.last) \div format.phases,
           NEW cycle \in format.cycle..(format.phases - 1), NEW raw \in 0..100,
           cycle = format.cycle => raw >= format.raw,
           ParseProgress(cycle, raw)
    PROVE  /\ FormatType' /\ format'.phases = format.phases /\ format'.phase < format.phases
           /\ format'.cycle = cycle /\ format'.phase <= cycle /\ format'.raw = format'.last
           /\ overall' \in 0..99 /\ overall' >= overall - 5
           /\ overall' <= (format'.phase * 100 + format'.last) \div format'.phases
<1> DEFINE next == IF raw < format.last - 5 THEN format.phase + 1 ELSE format.phase
           phase == IF next < format.phases THEN next ELSE format.phases - 1
           value == (phase * 100 + raw) \div format.phases
<1>1. /\ format.phases \in {1, 3} /\ format.cycle \in 0..2 /\ format.raw \in 0..100
      /\ format.phase \in 0..2 /\ format.last \in 0..100
      /\ format.cycle < format.phases /\ format.phase <= format.cycle
      /\ format.raw = format.last
  BY DEF FormatType, ProgressForm
<1>2. /\ format' = [format EXCEPT !.cycle = cycle, !.raw = raw, !.last = raw, !.phase = phase]
      /\ overall' = IF value < 100 THEN value ELSE overall
  BY DEF ParseProgress
<1>3. /\ phase \in 0..2 /\ phase < format.phases /\ phase <= cycle /\ cycle \in 0..2
      /\ phase * 100 + raw + 5 >= format.phase * 100 + format.last
  BY <1>1, SMTT(30)
<1> HIDE DEF phase, next
<1>4. /\ FormatType' /\ format'.phases = format.phases /\ format'.phase = phase
      /\ format'.cycle = cycle /\ format'.raw = raw /\ format'.last = raw
  BY <1>1, <1>2, <1>3 DEF FormatType
<1>5. /\ value \in Nat /\ (format.phase * 100 + format.last) \div format.phases \in Nat
      /\ (format.phase * 100 + format.last) \div format.phases <= value + 5
  <2>1. ASSUME NEW a \in Nat, NEW b \in Nat, a <= b + 5
        PROVE  /\ a \div format.phases \in Nat /\ b \div format.phases \in Nat
               /\ a \div format.phases <= b \div format.phases + 5
    BY <1>1, <2>1, PassDivision
  <2>2. /\ format.phase * 100 + format.last \in Nat /\ phase * 100 + raw \in Nat
        /\ format.phase * 100 + format.last <= (phase * 100 + raw) + 5
    <3>1. \A p \in 0..2, r \in 0..100 : p * 100 + r \in Nat
      OBVIOUS
    <3> QED
      BY <1>1, <1>3, <3>1
  <2> QED
    BY <2>1, <2>2
<1> DEFINE told == (format.phase * 100 + format.last) \div format.phases
<1> HIDE DEF told
<1> HIDE DEF value
<1>6. overall' \in 0..99 /\ overall' >= overall - 5 /\ overall' <= value
  <2>1. CASE value < 100
    <3>1. told \in Nat /\ told <= value + 5 /\ overall <= told
      BY <1>5 DEF told
    <3> QED
      BY <1>2, <1>5, <2>1, <3>1
  <2>2. CASE ~(value < 100)
    BY <1>2, <1>5, <2>2
  <2> QED
    BY <2>1, <2>2
<1> QED
  BY <1>3, <1>4, <1>6 DEF value

\* The steps of dvd+rw-format: it starts or does not, is read, and exits.
LEMMA FormatSteps == ASSUME IInv, StartFormat \/ FormatPrints \/ FormatExits PROVE IInv'
<1>1. /\ job.stages # <<>> /\ Head(job.stages) \in {"start", "format"}
      /\ UNCHANGED <<taken, processVars, jobs, verified>>
      /\ statuses \subseteq {"announced", "failed", "finished"} /\ stale \in BOOLEAN
      /\ cache \in {"none", "used", "left"} /\ disc \in [Files -> Contents]
  BY DEF StartFormat, FormatPrints, FormatExits, At, IInv, TypeOK, driveVars
<1>2. job.op # "verifyChecksum" /\ job # NoJob /\ job.op # "none" /\ cache # "used"
  BY <1>1, CleanHeads, VerifyHeads, InACall DEF IInv, VerifyOnly
<1>3. /\ ~held /\ ~held' /\ ~verified /\ ~verified' /\ cache' = cache /\ manifest' = manifest
      /\ taken' \in BOOLEAN /\ held' \in BOOLEAN /\ verified' \in BOOLEAN
      /\ manifest' \in {{}, Files} /\ jobs' \in 0..MaxJobs /\ stale' = stale
  <2>1. Head(job.stages) \in Rem(job.stages)
    BY <1>1, RemSplit DEF IInv, JobType
  <2>2. ~held
    BY <1>1, <2>1 DEF IInv, ToolForm, Tools
  <2>3. ~verified
    BY <1>2 DEF IInv, VerifiedForm
  <2> QED
    BY <1>1, <2>2, <2>3 DEF processVars, cacheVars, IInv, TypeOK
<1>4. ASSUME Fail(<<>>), UNCHANGED format, disc' \in [Files -> Contents],
             statuses' \in {statuses \cup {"failed"}, statuses \cup {"announced", "failed"}},
             UNCHANGED overall
      PROVE  IInv'
  BY <1>1, <1>2, <1>3, <1>4, FailedStage, WayOutSuits DEF processVars, cacheVars, formatVars
<1>5. ASSUME GoOn, disc' \in [Files -> Contents],
             statuses' \in {statuses \cup {"announced"}, statuses \cup {"finished"}}
      PROVE  /\ JobForms' /\ job'.stages = Tail(job.stages) /\ job'.left = job.left
             /\ job'.result = job.result /\ job' # NoJob
             /\ ToolForm' /\ HeldForm' /\ CacheForm' /\ FailureForm' /\ VerifiedForm'
             /\ VerifiedIsTrue'
  <2>1. /\ JobForms' /\ job' # NoJob
        /\ job'.op = job.op /\ job'.left = job.left /\ job'.result = job.result
        /\ job'.stages = Tail(job.stages)
        /\ Rem(job.stages) = {Head(job.stages)} \cup Rem(job'.stages)
    BY <1>1, <1>5, GoOnKeeps DEF IInv, JobForms
  <2>2. ToolForm' /\ HeldForm' /\ CacheForm'
    BY <1>1, <1>2, <1>3, <2>1, GiveUpTail DEF IInv, JobType, ToolForm, HeldForm, CacheForm
  <2>3. FailureForm'
    <3>1. AnnounceOrder(Tail(job.stages))
      BY <1>1, <1>2, OrderTail DEF IInv, FailureForm, JobType
    <3>2. Rem(job'.stages) \cap Early = {}
      <4>1. job.stages \in {FormatStages, <<"format">>}
        BY <1>1, <2>1 DEF IInv, FormatForm
      <4>2. Rem(<<"format">>) = {"format"}
        BY DEF Rem
      <4> QED
        BY <2>1, <4>1, <4>2, FormatPlan DEF Early
    <3>3. job.result
      BY <1>1, <2>1 DEF IInv, FailureForm, Leaving
    <3> QED
      BY <1>2, <1>5, <2>1, <3>1, <3>2, <3>3 DEF IInv, FailureForm
  <2>4. VerifiedForm' /\ VerifiedIsTrue'
    BY <1>2, <1>3, <2>1 DEF IInv, VerifiedForm, VerifiedIsTrue
  <2> QED
    BY <2>1, <2>2, <2>3, <2>4
<1>6. CASE StartFormat
  <2>1. ASSUME GoOn, Emit("announced"), overall' = 0,
               NEW n \in {1, 3}, format' = [Idle EXCEPT !.phases = n]
        PROVE  IInv'
    <3>1. disc' = disc
      BY <1>6 DEF StartFormat, driveVars
    <3>2. /\ format' = [phases |-> n, cycle |-> 0, raw |-> 0, phase |-> 0, last |-> 0]
          /\ format'.phases \in {1, 3} /\ FormatType'
      BY <2>1 DEF Idle, FormatType
    <3>3. TypeOK'
      <4>1. job'.left \subseteq manifest' /\ job'.result \in BOOLEAN
        BY <1>1, <1>3, <1>5, <2>1, <3>1 DEF IInv, TypeOK, Emit
      <4>2. /\ statuses' \subseteq {"announced", "failed", "finished"}
            /\ cache' \in {"none", "used", "left"} /\ stale' \in BOOLEAN
        BY <1>1, <1>3, <2>1 DEF Emit
      <4>3. format'.phases \in {1, 3} /\ format'.phase \in 0..(format'.phases - 1)
        BY <3>2
      <4> QED
        BY <1>1, <1>3, <2>1, <3>1, <4>1, <4>2, <4>3 DEF TypeOK
    <3>4. ProgressForm'
      <4>1. 0 \div n = 0
        BY <2>1
      <4> QED
        BY <2>1, <3>2, <4>1 DEF ProgressForm
    <3> QED
      BY <1>1, <1>5, <2>1, <3>1, <3>2, <3>3, <3>4 DEF IInv, JobForms, Emit
  <2>2. CASE /\ Fail(<<>>) /\ UNCHANGED formatVars
             /\ statuses' \in {statuses \cup {"failed"}, statuses \cup {"announced", "failed"}}
    BY <1>1, <1>4, <1>6, <2>2 DEF StartFormat, formatVars, driveVars
  <2> QED
    BY <1>6, <2>1, <2>2 DEF StartFormat, Emit
<1>7. CASE FormatPrints
  <2>1. PICK cycle \in format.cycle..(format.phases - 1), raw \in Progress :
            (cycle = format.cycle => raw >= format.raw) /\ ParseProgress(cycle, raw)
    BY <1>7 DEF FormatPrints
  <2>2. UNCHANGED <<driveVars, processVars, job, jobs, statuses, verified>> /\ At("format")
    BY <1>7 DEF FormatPrints
  <2>3. /\ format.phase < format.phases /\ overall \in 0..99 /\ raw \in 0..100
        /\ overall <= (format.phase * 100 + format.last) \div format.phases
    BY <2>2, ProgressAssumption DEF IInv, TypeOK, FormatType, ProgressForm
  <2>4. /\ FormatType' /\ format'.phases = format.phases /\ format'.phase < format.phases
        /\ format'.cycle = cycle /\ format'.phase <= cycle /\ format'.raw = format'.last
        /\ overall' \in 0..99 /\ overall' >= overall - 5
        /\ overall' <= (format'.phase * 100 + format'.last) \div format'.phases
    BY <2>1, <2>3, OneReading DEF IInv
  <2>5. TypeOK'
    BY <2>2, <2>4 DEF IInv, TypeOK, FormatType, driveVars, processVars, cacheVars
  <2>6. ProgressForm'
    <3>1. cycle < format.phases
      BY DEF IInv, FormatType
    <3> QED
      BY <2>4, <3>1 DEF ProgressForm
  <2>7. JobType' /\ VerifyForm' /\ ToolForm' /\ FormatForm' /\ HeldForm' /\ CacheForm'
        /\ FailureForm' /\ VerifiedForm' /\ VerifiedIsTrue'
    BY <2>2 DEF IInv, JobType, VerifyForm, ToolForm, FormatForm, HeldForm, CacheForm,
                FailureForm, VerifiedForm, VerifiedIsTrue, driveVars, processVars, cacheVars
  <2> QED
    BY <2>4, <2>5, <2>6, <2>7 DEF IInv
<1>8. CASE FormatExits
  <2>1. CASE Fail(<<>>) /\ Emit("failed") /\ UNCHANGED <<disc, overall>>
    BY <1>1, <1>4, <1>8, <2>1 DEF FormatExits, Emit
  <2>2. CASE GoOn /\ Emit("finished") /\ overall' = 100 /\ disc' \in Leaves
    <3>1. disc' \in [Files -> Contents]
      BY <1>1, <2>2, LeavesType
    <3>2. UNCHANGED format
      BY <1>8 DEF FormatExits
    <3>3. /\ JobForms' /\ job'.stages = Tail(job.stages) /\ job'.left = job.left
          /\ job'.result = job.result /\ ToolForm' /\ HeldForm' /\ CacheForm'
          /\ FailureForm' /\ VerifiedForm' /\ VerifiedIsTrue'
      BY <1>5, <2>2, <3>1 DEF Emit
    <3>4. TypeOK' /\ FormatType'
      <4>1. job'.left \subseteq manifest' /\ job'.result \in BOOLEAN
        BY <1>3, <3>3 DEF IInv, TypeOK
      <4>2. /\ statuses' \subseteq {"announced", "failed", "finished"}
            /\ cache' \in {"none", "used", "left"} /\ stale' \in BOOLEAN
        BY <1>1, <1>3, <2>2 DEF Emit
      <4>3. FormatType' /\ format'.phases \in {1, 3} /\ format'.phase \in 0..(format'.phases - 1)
        BY <3>2 DEF IInv, TypeOK, FormatType
      <4> QED
        BY <1>3, <2>2, <3>1, <4>1, <4>2, <4>3 DEF TypeOK
    <3>5. job'.stages = <<>>
      <4>1. Head(job.stages) = "format"
        BY <1>8 DEF FormatExits, At
      <4>2. job.stages \in {FormatStages, <<"format">>}
        BY <1>1, <4>1, RemSplit DEF IInv, FormatForm, JobType
      <4>3. job.stages = <<"format">>
        BY <4>1, <4>2 DEF FormatStages
      <4> QED
        BY <3>3, <4>3
    <3>6. ProgressForm'
      BY <3>2, <3>5 DEF IInv, ProgressForm, At
    <3> QED
      BY <3>3, <3>4, <3>6 DEF IInv, JobForms
  <2> QED
    BY <1>8, <2>1, <2>2 DEF FormatExits
<1> QED
  BY <1>6, <1>7, <1>8

-----------------------------------------------------------------------------
(* The theorems                                                            *)

\* A new manager: no call, nothing held, an old cache at most.
LEMMA InitHolds == Init => IInv
<1> SUFFICES ASSUME Init PROVE IInv
  OBVIOUS
<1>1. /\ job = NoJob /\ Rem(job.stages) = {} /\ job.op = "none" /\ job.stages = <<>>
      /\ job.left = {} /\ job.result = TRUE /\ GiveUpOrder(job.stages)
  BY DEF Init, NoJob, Rem, GiveUpOrder
<1>2. JobType /\ FormatType
  BY <1>1 DEF Init, JobType, FormatType, NoJob, Ops, Idle
<1>3. TypeOK
  <2>1. disc \in [Files -> Contents]
    BY DEF Init, Contents
  <2>2. 0 \in 0..MaxJobs /\ format.phases \in {1, 3} /\ format.phase \in 0..(format.phases - 1)
    BY BoundsAssumption DEF Init, Idle
  <2>3. held \in BOOLEAN /\ ~held /\ stale \in BOOLEAN /\ taken \in BOOLEAN /\ verified \in BOOLEAN
    BY DEF Init
  <2>4. /\ manifest \in {{}, Files} /\ cache \in {"none", "used", "left"}
        /\ job.left \subseteq manifest /\ job.result \in BOOLEAN
        /\ statuses \subseteq {"announced", "failed", "finished"}
    BY <1>1 DEF Init
  <2>5. jobs \in 0..MaxJobs /\ overall \in 0..100
    BY <2>2 DEF Init
  <2> QED
    BY <2>1, <2>2, <2>3, <2>4, <2>5 DEF TypeOK
<1>4. VerifyForm /\ ToolForm /\ FormatForm /\ HeldForm /\ CacheForm
  BY <1>1 DEF Init, VerifyForm, ToolForm, FormatForm, HeldForm, CacheForm
<1>5. FailureForm /\ VerifiedForm /\ VerifiedIsTrue
  BY <1>1 DEF Init, FailureForm, VerifiedForm, VerifiedIsTrue
<1>6. ProgressForm
  BY <1>1 DEF Init, ProgressForm, At, Idle
<1> QED
  BY <1>2, <1>3, <1>4, <1>5, <1>6 DEF IInv

\* Every step keeps the invariant.
LEMMA NextKeeps == IInv /\ [Next]_vars => IInv'
<1> SUFFICES ASSUME IInv, [Next]_vars PROVE IInv'
  OBVIOUS
<1>1. CASE OtherProgram \/ GenerateChecksumManifest \/ Start \/ Return
  BY <1>1, OutsideSteps
<1>2. CASE CheckInput \/ Probe \/ Info \/ Media \/ Acquire \/ Release \/ Destroy
           \/ PrepareCache \/ Finish \/ CleanupExtractCache
  BY <1>2, PassingStages
<1>3. CASE Announce
  BY <1>3, AnnounceStage
<1>4. CASE Work \/ UdfBurn
  BY <1>4, EngineStages
<1>5. CASE OsirroxOn
  BY <1>5, OsirroxStage
<1>6. CASE Extract
  BY <1>6, ExtractStage
<1>7. CASE StartFormat \/ FormatPrints \/ FormatExits
  BY <1>7, FormatSteps
<1>8. CASE UNCHANGED vars
  <2>1. /\ UNCHANGED <<taken, disc, held, cache, stale, manifest, job, jobs, format, overall>>
        /\ UNCHANGED <<statuses, verified>>
    BY <1>8 DEF vars, driveVars, processVars, cacheVars, formatVars
  <2>2. TypeOK'
    BY <2>1 DEF IInv, TypeOK
  <2>5. JobType' /\ FormatType' /\ ProgressForm'
    BY <2>1 DEF IInv, JobType, FormatType, ProgressForm, At
  <2>3. VerifyForm' /\ ToolForm' /\ FormatForm' /\ HeldForm' /\ CacheForm'
    BY <2>1 DEF IInv, VerifyForm, ToolForm, FormatForm, HeldForm, CacheForm
  <2>4. FailureForm' /\ VerifiedForm' /\ VerifiedIsTrue'
    BY <2>1 DEF IInv, FailureForm, VerifiedForm, VerifiedIsTrue
  <2> QED
    BY <2>2, <2>3, <2>4, <2>5 DEF IInv
<1> QED
  BY <1>1, <1>2, <1>3, <1>4, <1>5, <1>6, <1>7, <1>8 DEF Next, Stage

LEMMA InvariantHolds == Spec => []IInv
BY InitHolds, NextKeeps, PTL DEF Spec

\* Every variable keeps its domain, and the drive is never held by two.
THEOREM TypeCorrect == Spec => []TypeOK
<1>1. IInv => TypeOK
  BY DEF IInv
<1> QED
  BY <1>1, InvariantHolds, PTL

\* The drive is given up and the extracted files are removed, as far as they can be, on
\* every way out of every call, and no call runs a tool of its own with the drive still held.
THEOREM EveryCallCleansUp == Spec => []CallsCleanUp
<1>1. IInv => CallsCleanUp
  <2> SUFFICES ASSUME IInv PROVE CallsCleanUp
    OBVIOUS
  <2>1. DriveGivenUp
    BY DEF IInv, HeldForm, DriveGivenUp, NoJob, Rem
  <2>2. ToolFindsDriveFree
    <3> SUFFICES ASSUME At("start") \/ At("format") \/ At("burn") PROVE ~held
      BY DEF ToolFindsDriveFree
    <3>1. Head(job.stages) \in Rem(job.stages) /\ Head(job.stages) \in Tools
      BY RemSplit DEF IInv, JobType, At, Tools
    <3> QED
      BY <3>1 DEF IInv, ToolForm
  <2>3. CacheCleaned
    BY DEF IInv, CacheForm, CacheCleaned, NoJob
  <2> QED
    BY <2>1, <2>2, <2>3 DEF CallsCleanUp
<1> QED
  BY <1>1, InvariantHolds, PTL

\* No call returns true after a failure, and an announced job that returns false has told.
THEOREM FailuresAreTold == Spec => []FailureTold
<1>1. IInv => FailureTold
  BY DEF IInv, FailureForm, FailureTold, JobType
<1> QED
  BY <1>1, InvariantHolds, PTL

\* A verification returns true only of a disc with all files of the manifest, unless it
\* could not remove what an earlier one had left.
THEOREM VerificationIsTrue == Spec => []VerifiedIsTrue
<1>1. IInv => VerifiedIsTrue
  BY DEF IInv
<1> QED
  BY <1>1, InvariantHolds, PTL

\* The progress told of dvd+rw-format does not run backwards between its passes.
THEOREM ProgressIsForward == Spec => ProgressNeverFalls
<1>1. IInv /\ [Next]_vars =>
        [At("format") => \/ At("format")' /\ overall' >= overall - 5 /\ overall' < 100
                         \/ job'.result => overall' = 100]_vars
  <2> SUFFICES ASSUME IInv, Next, At("format")
               PROVE  \/ At("format")' /\ overall' >= overall - 5 /\ overall' < 100
                      \/ job'.result => overall' = 100
    OBVIOUS
  <2>1. overall \in 0..99 /\ job.stages # <<>> /\ Head(job.stages) = "format"
    BY DEF IInv, TypeOK, ProgressForm, At
  <2>2. job # NoJob
    BY <2>1, InACall DEF IInv
  <2>3. CASE OtherProgram
    BY <2>1, <2>3 DEF OtherProgram, At, formatVars
  <2>4. CASE FormatPrints
    <3>1. PICK cycle \in format.cycle..(format.phases - 1), raw \in Progress :
              (cycle = format.cycle => raw >= format.raw) /\ ParseProgress(cycle, raw)
      BY <2>4 DEF FormatPrints
    <3>2. /\ format.phase < format.phases /\ raw \in 0..100
          /\ overall <= (format.phase * 100 + format.last) \div format.phases
      BY ProgressAssumption DEF IInv, TypeOK, FormatType, ProgressForm
    <3>3. overall' \in 0..99 /\ overall' >= overall - 5
      BY <2>1, <3>1, <3>2, OneReading DEF IInv
    <3>4. UNCHANGED job
      BY <2>4 DEF FormatPrints
    <3> QED
      BY <3>3, <3>4 DEF At
  <2>5. CASE FormatExits
    <3>1. CASE Fail(<<>>)
      BY <3>1 DEF Fail, IInv, JobType
    <3> QED
      BY <2>5, <3>1 DEF FormatExits
  <2>6. CASE Stage /\ ~FormatPrints /\ ~FormatExits
    BY <2>1, <2>6
    DEF Stage, CheckInput, Probe, Info, Media, Acquire, Announce, Work, UdfBurn, Release, Destroy,
        PrepareCache, OsirroxOn, Extract, Finish, CleanupExtractCache, StartFormat, At
  <2>7. CASE GenerateChecksumManifest \/ Start \/ Return
    BY <2>1, <2>2, <2>7 DEF GenerateChecksumManifest, Start, Return
  <2> QED
    BY <2>3, <2>4, <2>5, <2>6, <2>7 DEF Next
<1> QED
  BY <1>1, InvariantHolds, PTL DEF Spec, ProgressNeverFalls
=============================================================================
