---------------------------- MODULE RenderProofs ----------------------------
(***************************************************************************)
(* Theorems about Render, for any number of calls, any of them served, any *)
(* requests and any number of faults: the progress a client sees, the      *)
(* outcome its stream ends with, the video an undisturbed rendering leaves *)
(* and the life cycle of the job.                                          *)
(***************************************************************************)
EXTENDS RenderProperties, FramePlanProofs, FiniteSetTheorems, TLAPS

(* The conjuncts of TypeOK, by the steps that disturb them together. *)
RowTypeOK ==
  /\ row     \in Rows(Call)
  /\ shown   \in [processed : Nat, total : Nat \ {0}]
  /\ plan    \in Requests
  /\ missed  \subseteq Call

CallTypeOK ==
  /\ call    \in [Call -> {"idle", "service", "script", "verify", "complete", "returned"}]
  /\ read    \in [Call -> Nat]
  /\ cancel  \in {None} \cup Call
  /\ aborted \subseteq Call

RenderTypeOK ==
  /\ at      \in [Rendering -> {"none", "started"} \cup Busy \cup Ended]
  /\ drawn   \in [Rendering -> Nat]
  /\ sink    \in [Rendering -> {None} \cup File]

LinesOK ==
  /\ \A c \in Call : read[c] <= drawn[Script(c)]
  /\ \A r \in Rendering : drawn[r] <= TotalSteps(Asked)

Content == {"none", "partial", "whole", "mixed"}

FileTypeOK ==
  /\ dir     \in [out : {None} \cup File, raw : {None} \cup File]
  /\ content \in [File -> Content]
  /\ latest  \in {None} \cup Rendering
  /\ sole    \in BOOLEAN

ClientTypeOK ==
  /\ delete  \in {"none", "aborted", "removed", "done"}
  /\ stream  \in {"open"} \cup Terminal
  /\ faults  \in Nat

LEMMA TypeParts ==
  /\ TypeOK  <=> /\ RowTypeOK /\ CallTypeOK /\ RenderTypeOK
                 /\ LinesOK /\ FileTypeOK /\ ClientTypeOK
  /\ TypeOK' <=> /\ RowTypeOK' /\ CallTypeOK' /\ RenderTypeOK'
                 /\ LinesOK' /\ FileTypeOK' /\ ClientTypeOK'
BY Zenon DEF TypeOK, RowTypeOK, CallTypeOK, RenderTypeOK, LinesOK, FileTypeOK,
       ClientTypeOK, Content

-----------------------------------------------------------------------------
(* Rows and plans *)

(* The statements Render uses map rows to rows. *)
LEMMA RowTypes ==
  ASSUME NEW r \in Rows(Call)
  PROVE  /\ CreateJob(r) \in Rows(Call)
         /\ \A c \in Call : ClaimJobCAS(r, c) \in Rows(Call)
         /\ MarkCompleted(r, "local") \in Rows(Call)
         /\ MarkFailed(r) \in Rows(Call)
         /\ Lapse(r) \in Rows(Call)
         /\ Recover(r) \in Rows(Call)
         /\ DeleteJob(r) \in Rows(Call)
<1> USE DEF Rows
<1>1. r.status \in Status /\ r.version + 1 \in Nat /\ r.retry + 1 \in Nat
  OBVIOUS
<1>2. CreateJob(r) \in Rows(Call)
  BY DEF CreateJob, Status, HasRow
<1>3. \A c \in Call : ClaimJobCAS(r, c) \in Rows(Call)
  BY <1>1 DEF ClaimJobCAS, Status, HasRow, Lease
<1>4. MarkCompleted(r, "local") \in Rows(Call)
  BY <1>1 DEF MarkCompleted, Status, HasRow, Terminal, Url
<1>5. MarkFailed(r) \in Rows(Call)
  BY <1>1 DEF MarkFailed, Status, HasRow, Terminal
<1>6. Lapse(r) \in Rows(Call)
  BY DEF Lapse, Lease
<1>7. Recover(r) \in Rows(Call)
  BY <1>1 DEF Recover, Status, HasRow, Lease
<1>8. DeleteJob(r) \in Rows(Call)
  BY DEF DeleteJob, Absent, Status, Lease, Url
<1> QED
  BY <1>2, <1>3, <1>4, <1>5, <1>6, <1>7, <1>8

(* Status and worker after each statement. *)
LEMMA RowFields ==
  ASSUME NEW r \in Rows(Call)
  PROVE  /\ \A c \in Call : /\ ClaimJobCAS(r, c).status = "PROCESSING"
                            /\ ClaimJobCAS(r, c).worker = c
         /\ MarkCompleted(r, "local").status = "COMPLETED"
         /\ MarkCompleted(r, "local").worker = r.worker
         /\ MarkFailed(r).status = "FAILED"
         /\ Lapse(r).status = r.status
         /\ Lapse(r).worker = r.worker
         /\ Recover(r).status = "PENDING"
         /\ DeleteJob(r).status = "DELETED"
BY DEF Rows, ClaimJobCAS, MarkCompleted, MarkFailed, Lapse, Recover, DeleteJob, Absent

LEMMA AskedTypes ==
  ASSUME RowTypeOK
  PROVE  /\ Asked \in Plans
         /\ Asked.frames = FrameCount(shown.total)
         /\ TotalSteps(Asked) \in Nat \ {0}
<1>1. plan \in Plans /\ FrameCount(shown.total) \in Nat \ {0}
  BY RequestAssumption DEF RowTypeOK, FrameCount, MaxFrames
<1>2. Asked \in Plans /\ Asked.frames = FrameCount(shown.total)
  BY <1>1 DEF Asked, Plans
<1> QED
  BY <1>2, StepsAreBounded DEF Plans

(* A total that went through a script asks for the same plan again. *)
LEMMA AskedKept ==
  ASSUME RowTypeOK, plan' = plan,
         shown'.total = shown.total \/ shown'.total = Asked.frames
  PROVE  Asked' = Asked
<1>1. FrameCount(FrameCount(shown.total)) = FrameCount(shown.total)
  BY DEF RowTypeOK, FrameCount, MaxFrames
<1>2. FrameCount(shown'.total) = FrameCount(shown.total)
  BY <1>1, AskedTypes
<1> QED
  BY <1>2 DEF Asked

LEMMA ProgressTypes ==
  ASSUME NEW p \in Plans, NEW k \in 0..TotalSteps(p)
  PROVE  Progress(p, k) \in Nat
<1>1. FramesPerStep(p) \in Nat /\ k \in Nat /\ p.frames \in Nat
  BY PerStep, StepsAreBounded DEF Plans
<1>2. FramesAfter(p, k) \in Nat
  BY <1>1, ProductsAreNat DEF FramesAfter
<1> QED
  BY <1>1, <1>2 DEF Progress, AtMost

-----------------------------------------------------------------------------
(* Types, step by step *)

LEMMA InitTypes ==
  ASSUME Init
  PROVE  TypeOK
<1>1. plan \in Plans /\ plan.frames \in Nat \ {0}
  BY RequestAssumption DEF Init, Plans
<1>2. RowTypeOK
  BY <1>1 DEF Init, RowTypeOK, CreateJob, Absent, Rows, Status, HasRow, Lease, Url
<1>3. CallTypeOK /\ RenderTypeOK /\ FileTypeOK /\ ClientTypeOK
  BY DEF Init, CallTypeOK, RenderTypeOK, FileTypeOK, Content, ClientTypeOK
<1>4. LinesOK
  BY <1>2, AskedTypes DEF Init, LinesOK, Rendering, Script
<1> QED
  BY <1>2, <1>3, <1>4, TypeParts

(* A rendering's step leaves the row and the calls alone, and what is in a *)
(* file is what was in it or what the step put there.                      *)
LEMMA KeptTypes ==
  ASSUME NEW files \in [File -> Content], Kept(files)
  PROVE  content' \in [File -> Content]
BY DEF Kept, Content

LEMMA ContentTypes ==
  ASSUME FileTypeOK, NEW r \in Rendering, NEW i \in {None} \cup File
  PROVE  /\ OpenAnew(r, i) \in [File -> Content]
         /\ [content EXCEPT ![i] = "mixed"] \in [File -> Content]
         /\ Closed(i) \in [File -> Content]
         /\ OutOr(<<r, "drawing">>) \in File
         /\ OutOr(<<r, "encoding">>) \in File
BY DEF FileTypeOK, Content, OpenAnew, Closed, OutOr, File

(* Steps of a rendering that neither draw nor touch what the row shows.    *)
LEMMA Undrawn ==
  ASSUME TypeOK, UNCHANGED <<rowVars, callVars, drawn, clientVars, faults>>
  PROVE  RowTypeOK' /\ CallTypeOK' /\ LinesOK' /\ ClientTypeOK' /\ drawn' \in [Rendering -> Nat]
<1> USE TypeParts DEF rowVars, callVars, clientVars
<1>1. RowTypeOK' /\ CallTypeOK' /\ ClientTypeOK' /\ drawn' \in [Rendering -> Nat]
  BY DEF RowTypeOK, CallTypeOK, ClientTypeOK, RenderTypeOK
<1>2. Asked' = Asked
  BY AskedKept
<1>3. LinesOK'
  BY <1>2 DEF LinesOK
<1> QED
  BY <1>1, <1>3

LEMMA RenameTypes ==
  ASSUME TypeOK, NEW r \in Rendering, NEW from,
         NEW moved \in [out : {None} \cup File, raw : {None} \cup File],
         Rename(r, from, moved, "movedAside") \/ Rename(r, from, moved, "ok")
  PROVE  TypeOK'
<1>1. FileTypeOK'
  <2>1. content' \in [File -> Content]
    BY KeptTypes, TypeParts DEF Rename, FileTypeOK
  <2>2. dir' \in [out : {None} \cup File, raw : {None} \cup File]
    BY TypeParts DEF Rename, FileTypeOK
  <2>3. latest' \in {None} \cup Rendering
    BY TypeParts DEF Rename, FileTypeOK
  <2>4. sole' \in BOOLEAN
    BY TypeParts DEF Rename, FileTypeOK
  <2> QED
    BY <2>1, <2>2, <2>3, <2>4 DEF FileTypeOK
<1>2. RenderTypeOK'
  BY TypeParts DEF Rename, RenderTypeOK, Goto, Busy, Ended
<1> QED
  BY <1>1, <1>2, Undrawn, TypeParts DEF Rename

LEMMA RenderTypes ==
  ASSUME TypeOK, NEW r \in Rendering, RenderStep(r)
  PROVE  TypeOK'
<1> USE TypeParts
<1>1. CASE OpenWriter(r)
  <2> DEFINE i == OutOr(<<r, "drawing">>)
  <2>1. i \in File /\ OpenAnew(r, i) \in [File -> Content]
    BY ContentTypes
  <2>2. content' \in [File -> Content]
    BY <1>1, <2>1, KeptTypes DEF OpenWriter, Opens
  <2>3. dir' \in [out : {None} \cup File, raw : {None} \cup File]
    BY <1>1, <2>1 DEF OpenWriter, Opens, FileTypeOK
  <2>4. sole' \in BOOLEAN /\ latest' \in {None} \cup Rendering
    BY <1>1 DEF OpenWriter
  <2>5. RenderTypeOK'
    BY <1>1, <2>1 DEF OpenWriter, Opens, RenderTypeOK, Goto, Busy, Writing
  <2> QED
    BY <1>1, <2>2, <2>3, <2>4, <2>5, Undrawn DEF OpenWriter, FileTypeOK
<1>2. CASE DrawStep(r)
  <2>1. Asked \in Plans /\ TotalSteps(Asked) \in Nat /\ Asked' = Asked
    BY <1>2, AskedTypes, AskedKept DEF DrawStep, rowVars
  <2>2. drawn[r] < TotalSteps(Asked) /\ drawn[r] \in Nat
    BY <1>2, <2>1, EveryStepRuns DEF DrawStep, RenderTypeOK
  <2>3. LinesOK' /\ RenderTypeOK'
    BY <1>2, <2>1, <2>2 DEF DrawStep, LinesOK, RenderTypeOK, CallTypeOK, callVars, Rendering, Script
  <2>4. RowTypeOK' /\ CallTypeOK' /\ ClientTypeOK'
    BY <1>2 DEF DrawStep, RowTypeOK, CallTypeOK, ClientTypeOK, rowVars, callVars, clientVars
  <2>5. FileTypeOK'
    BY <1>2 DEF DrawStep, FileTypeOK, fileVars
  <2> QED
    BY <2>3, <2>4, <2>5
<1>3. CASE RenderRaises(r)
  <2>1. content' \in [File -> Content]
    BY <1>3, KeptTypes DEF RenderRaises, FileTypeOK
  <2>2. FileTypeOK'
    BY <1>3, <2>1 DEF RenderRaises, FileTypeOK
  <2>3. RenderTypeOK'
    BY <1>3 DEF RenderRaises, RenderTypeOK, Goto, Closes, Ended
  <2> QED
    BY <1>3, <2>2, <2>3, Undrawn DEF RenderRaises
<1>4. CASE Release(r)
  <2>1. content' \in [File -> Content]
    BY <1>4, KeptTypes, ContentTypes DEF Release, RenderTypeOK
  <2>2. FileTypeOK'
    BY <1>4, <2>1 DEF Release, FileTypeOK
  <2>3. RenderTypeOK'
    BY <1>4 DEF Release, RenderTypeOK, Goto, Closes, Busy
  <2> QED
    BY <1>4, <2>2, <2>3, Undrawn DEF Release
<1>5. CASE MoveAside(r)
  BY <1>5, RenameTypes DEF MoveAside, FileTypeOK
<1>6. CASE EncodeStarts(r)
  <2> DEFINE i == OutOr(<<r, "encoding">>)
  <2>1. i \in File /\ OpenAnew(r, i) \in [File -> Content]
        /\ [content EXCEPT ![i] = "mixed"] \in [File -> Content]
    BY ContentTypes
  <2>2. content' \in [File -> Content]
    BY <1>6, <2>1, KeptTypes DEF EncodeStarts, Opens
  <2>3. dir' \in [out : {None} \cup File, raw : {None} \cup File]
    BY <1>6, <2>1 DEF EncodeStarts, Opens, FileTypeOK
  <2>4. FileTypeOK'
    BY <1>6, <2>2, <2>3 DEF EncodeStarts, FileTypeOK
  <2>5. RenderTypeOK'
    BY <1>6, <2>1 DEF EncodeStarts, Opens, RenderTypeOK, Goto, Busy, Writing
  <2> QED
    BY <1>6, <2>4, <2>5, Undrawn DEF EncodeStarts
<1>7. CASE EncodeRefused(r)
  <2>1. FileTypeOK'
    BY <1>7 DEF EncodeRefused, FileTypeOK, fileVars
  <2>2. RenderTypeOK'
    BY <1>7 DEF EncodeRefused, RenderTypeOK, Goto, Busy
  <2> QED
    BY <1>7, <2>1, <2>2, Undrawn DEF EncodeRefused
<1>8. CASE EncodeOk(r)
  <2>1. content' \in [File -> Content]
    BY <1>8, KeptTypes, ContentTypes DEF EncodeOk, RenderTypeOK
  <2>2. FileTypeOK'
    BY <1>8, <2>1 DEF EncodeOk, FileTypeOK
  <2>3. RenderTypeOK'
    BY <1>8 DEF EncodeOk, RenderTypeOK, Goto, Closes, Busy
  <2> QED
    BY <1>8, <2>2, <2>3, Undrawn DEF EncodeOk
<1>9. CASE EncodeFails(r)
  <2>1. content' \in [File -> Content]
    BY <1>9, KeptTypes DEF EncodeFails, FileTypeOK
  <2>2. FileTypeOK'
    BY <1>9, <2>1 DEF EncodeFails, FileTypeOK
  <2>3. RenderTypeOK'
    BY <1>9 DEF EncodeFails, RenderTypeOK, Goto, Closes, Busy
  <2> QED
    BY <1>9, <2>2, <2>3, Undrawn DEF EncodeFails
<1>10. CASE RemoveRaw(r)
  <2>1. content' \in [File -> Content]
    BY <1>10, KeptTypes DEF RemoveRaw, FileTypeOK
  <2>2. FileTypeOK'
    BY <1>10, <2>1 DEF RemoveRaw, FileTypeOK
  <2>3. RenderTypeOK'
    BY <1>10 DEF RemoveRaw, RenderTypeOK, Goto, Busy, Ended
  <2> QED
    BY <1>10, <2>2, <2>3, Undrawn DEF RemoveRaw
<1>11. CASE Restore(r)
  BY <1>11, RenameTypes DEF Restore, FileTypeOK
<1>12. CASE LookForRaw(r)
  <2>1. FileTypeOK'
    BY <1>12 DEF LookForRaw, FileTypeOK, fileVars
  <2>2. RenderTypeOK'
    BY <1>12 DEF LookForRaw, RenderTypeOK, Goto, Busy, Ended
  <2> QED
    BY <1>12, <2>1, <2>2, Undrawn DEF LookForRaw
<1>13. CASE OrphanEnds(r)
  <2>1. content' \in [File -> Content]
    BY <1>13, KeptTypes, ContentTypes DEF OrphanEnds, RenderTypeOK, FileTypeOK
  <2>2. FileTypeOK'
    BY <1>13, <2>1 DEF OrphanEnds, FileTypeOK
  <2>3. RenderTypeOK'
    BY <1>13 DEF OrphanEnds, RenderTypeOK, Goto, Closes, Ended
  <2> QED
    BY <1>13, <2>2, <2>3, Undrawn DEF OrphanEnds
<1> QED
  BY <1>1, <1>2, <1>3, <1>4, <1>5, <1>6, <1>7, <1>8, <1>9, <1>10, <1>11, <1>12, <1>13
  DEF RenderStep

(* Steps of a call or a client that leave the files alone.                 *)
LEMMA FilesKept ==
  ASSUME TypeOK, UNCHANGED fileVars
  PROVE  FileTypeOK'
BY TypeParts DEF FileTypeOK, fileVars

LEMMA LinesKept ==
  ASSUME TypeOK, UNCHANGED <<shown, plan, read, drawn>>
  PROVE  LinesOK'
<1>1. Asked' = Asked
  BY AskedKept, TypeParts
<1> QED
  BY <1>1, TypeParts DEF LinesOK

LEMMA RowKept ==
  ASSUME TypeOK, UNCHANGED <<shown, plan, missed>>, row' \in Rows(Call)
  PROVE  RowTypeOK'
BY TypeParts DEF RowTypeOK

LEMMA CallTypes ==
  ASSUME TypeOK, NEW c \in Call, CallStep(c)
  PROVE  TypeOK'
<1>0. Service(c) \in Rendering /\ Script(c) \in Rendering /\ row \in Rows(Call)
  BY TypeParts DEF Service, Script, Rendering, RowTypeOK
<1> USE TypeParts DEF rowVars, renderVars, clientVars, Start, Goto, Advance
<1>1. CASE Claim(c)
  <2>1. RowTypeOK'
    BY <1>0, <1>1, RowTypes, RowKept DEF Claim
  <2>2. CallTypeOK'
    BY <1>1 DEF Claim, CallTypeOK
  <2>3. RenderTypeOK'
    BY <1>0, <1>1 DEF Claim, RenderTypeOK
  <2> QED
    BY <1>1, <2>1, <2>2, <2>3, FilesKept, LinesKept DEF Claim, ClientTypeOK
<1>2. CASE ServiceAnswers(c)
  <2>1. RowTypeOK'
    BY <1>0, <1>2, RowKept DEF ServiceAnswers
  <2>2. CallTypeOK' /\ RenderTypeOK'
    BY <1>2 DEF ServiceAnswers, CallTypeOK, RenderTypeOK
  <2> QED
    BY <1>2, <2>1, <2>2, FilesKept, LinesKept DEF ServiceAnswers, ClientTypeOK
<1>3. CASE ServiceGivenUp(c)
  <2>1. RowTypeOK'
    BY <1>0, <1>3, RowKept DEF ServiceGivenUp
  <2>2. CallTypeOK' /\ RenderTypeOK'
    BY <1>0, <1>3 DEF ServiceGivenUp, CallTypeOK, RenderTypeOK
  <2>3. ClientTypeOK'
    BY <1>3 DEF ServiceGivenUp, ClientTypeOK, Fault, NoFault
  <2> QED
    BY <1>3, <2>1, <2>2, <2>3, FilesKept, LinesKept DEF ServiceGivenUp
<1>4. CASE ServiceCancelled(c)
  <2>1. RowTypeOK'
    BY <1>0, <1>4, RowKept DEF ServiceCancelled
  <2>2. CallTypeOK' /\ RenderTypeOK'
    BY <1>4 DEF ServiceCancelled, Return, CallTypeOK, RenderTypeOK
  <2> QED
    BY <1>4, <2>1, <2>2, FilesKept, LinesKept DEF ServiceCancelled, ClientTypeOK
<1>5. CASE KillScript(c)
  <2>1. content' \in [File -> Content]
    BY <1>5, KeptTypes DEF KillScript, FileTypeOK
  <2>2. FileTypeOK'
    BY <1>5, <2>1 DEF KillScript, FileTypeOK
  <2>3. RenderTypeOK'
    BY <1>0, <1>5 DEF KillScript, RenderTypeOK, Closes, Busy, Writing, Ended
  <2> QED
    BY <1>5, <2>2, <2>3, Undrawn DEF KillScript
<1>6. CASE ReadProgress(c) \/ ProgressLost(c)
  <2>0. /\ call[c] = "script" /\ Unread(c) /\ read' = [read EXCEPT ![c] = @ + 1]
        /\ UNCHANGED <<row, plan, call, cancel, aborted, renderVars, fileVars, clientVars>>
        /\ faults' = faults \/ faults' = faults + 1
        /\ missed' \subseteq missed \cup {c}
    BY <1>6 DEF ReadProgress, ProgressLost, ReadLine, Fault, NoFault
  <2>1. /\ Asked \in Plans /\ Asked.frames \in Nat \ {0}
        /\ TotalSteps(Asked) \in Nat /\ Asked' = Asked
    BY <1>6, <2>0, AskedTypes, AskedKept DEF ReadProgress, ProgressLost, Plans
  <2>2. /\ read[c] \in Nat /\ read[c] + 1 <= drawn[Script(c)]
        /\ read[c] + 1 \in 0..TotalSteps(Asked)
    BY <1>0, <2>0, <2>1 DEF Unread, CallTypeOK, RenderTypeOK, LinesOK
  <2>3. RowTypeOK'
    <3>1. Progress(Asked, read[c] + 1) \in Nat
      BY <2>1, <2>2, ProgressTypes
    <3>2. shown' \in [processed : Nat, total : Nat \ {0}]
      BY <1>6, <2>1, <3>1 DEF ReadProgress, ProgressLost, RowTypeOK
    <3> QED
      BY <2>0, <3>2 DEF RowTypeOK
  <2>4. CallTypeOK' /\ RenderTypeOK'
    BY <2>0, <2>2 DEF CallTypeOK, RenderTypeOK
  <2>5. LinesOK'
    BY <2>0, <2>1, <2>2 DEF LinesOK, CallTypeOK
  <2>6. ClientTypeOK'
    BY <2>0 DEF ClientTypeOK
  <2> QED
    BY <2>0, <2>3, <2>4, <2>5, <2>6, FilesKept
<1>7. CASE ScriptOk(c)
  <2>1. RowTypeOK'
    BY <1>0, <1>7, RowKept DEF ScriptOk
  <2>2. CallTypeOK' /\ RenderTypeOK'
    BY <1>7 DEF ScriptOk, CallTypeOK, RenderTypeOK
  <2> QED
    BY <1>7, <2>1, <2>2, FilesKept, LinesKept DEF ScriptOk, ClientTypeOK
<1>8. CASE ScriptFails(c)
  <2>1. RowTypeOK'
    BY <1>0, <1>8, RowTypes, RowKept DEF ScriptFails
  <2>2. CallTypeOK' /\ RenderTypeOK'
    BY <1>8 DEF ScriptFails, Return, CallTypeOK, RenderTypeOK
  <2> QED
    BY <1>8, <2>1, <2>2, FilesKept, LinesKept DEF ScriptFails, ClientTypeOK
<1>9. CASE Verify(c)
  <2>1. RowTypeOK'
    BY <1>0, <1>9, RowKept DEF Verify
  <2>2. CallTypeOK' /\ RenderTypeOK'
    BY <1>9 DEF Verify, Return, CallTypeOK, RenderTypeOK
  <2> QED
    BY <1>9, <2>1, <2>2, FilesKept, LinesKept DEF Verify, ClientTypeOK
<1>10. CASE Complete(c)
  <2>1. RowTypeOK'
    BY <1>0, <1>10, RowTypes, RowKept DEF Complete
  <2>2. CallTypeOK' /\ RenderTypeOK'
    BY <1>10 DEF Complete, Return, CallTypeOK, RenderTypeOK
  <2> QED
    BY <1>10, <2>1, <2>2, FilesKept, LinesKept DEF Complete, ClientTypeOK
<1>11. CASE StatementFails(c)
  <2>1. RowTypeOK'
    BY <1>0, <1>11, RowKept DEF StatementFails
  <2>2. CallTypeOK' /\ RenderTypeOK'
    BY <1>11 DEF StatementFails, Return, CallTypeOK, RenderTypeOK
  <2>3. ClientTypeOK'
    BY <1>11 DEF StatementFails, Fault, ClientTypeOK
  <2> QED
    BY <1>11, <2>1, <2>2, <2>3, FilesKept, LinesKept DEF StatementFails
<1> QED
  BY <1>1, <1>2, <1>3, <1>4, <1>5, <1>6, <1>7, <1>8, <1>9, <1>10, <1>11 DEF CallStep

LEMMA ClientTypes ==
  ASSUME TypeOK,
         LeaseExpires \/ LeaseLapses \/ Sweep \/ AbortJob \/ RemoveVideo \/ DeleteRow \/ Poll
  PROVE  TypeOK'
<1>0. row \in Rows(Call)
  BY TypeParts DEF RowTypeOK
<1> USE TypeParts DEF rowVars, callVars, renderVars, clientVars
<1>1. CASE LeaseExpires \/ LeaseLapses
  <2>1. Lapses /\ faults' \in Nat
    BY <1>1 DEF LeaseExpires, LeaseLapses, Fault, NoFault, ClientTypeOK
  <2>2. RowTypeOK'
    BY <1>0, <2>1, RowTypes, RowKept DEF Lapses
  <2> QED
    BY <2>1, <2>2, FilesKept, LinesKept DEF Lapses, CallTypeOK, RenderTypeOK, ClientTypeOK
<1>2. CASE Sweep
  <2>1. RowTypeOK'
    BY <1>0, <1>2, RowTypes, RowKept DEF Sweep
  <2> QED
    BY <1>2, <2>1, FilesKept, LinesKept DEF Sweep, CallTypeOK, RenderTypeOK, ClientTypeOK
<1>3. CASE AbortJob
  <2>1. RowTypeOK'
    BY <1>0, <1>3, RowKept DEF AbortJob
  <2>2. CallTypeOK' /\ RenderTypeOK'
    BY <1>3 DEF AbortJob, CallTypeOK, RenderTypeOK
  <2>3. ClientTypeOK'
    BY <1>3 DEF AbortJob, ClientTypeOK, Fault
  <2> QED
    BY <1>3, <2>1, <2>2, <2>3, FilesKept, LinesKept DEF AbortJob
<1>4. CASE RemoveVideo
  <2>1. content' \in [File -> Content]
    BY <1>4, KeptTypes DEF RemoveVideo, FileTypeOK
  <2>2. FileTypeOK'
    BY <1>4, <2>1 DEF RemoveVideo, FileTypeOK
  <2>3. RowTypeOK'
    BY <1>0, <1>4, RowKept DEF RemoveVideo
  <2> QED
    BY <1>4, <2>2, <2>3, LinesKept DEF RemoveVideo, CallTypeOK, RenderTypeOK, ClientTypeOK
<1>5. CASE DeleteRow
  <2>1. RowTypeOK'
    BY <1>0, <1>5, RowTypes, RowKept DEF DeleteRow
  <2> QED
    BY <1>5, <2>1, FilesKept, LinesKept DEF DeleteRow, CallTypeOK, RenderTypeOK, ClientTypeOK
<1>6. CASE Poll
  <2>1. RowTypeOK'
    BY <1>0, <1>6, RowKept DEF Poll
  <2>2. ClientTypeOK'
    BY <1>6 DEF Poll, EndsStream, ClientTypeOK
  <2> QED
    BY <1>6, <2>1, <2>2, FilesKept, LinesKept DEF Poll, CallTypeOK, RenderTypeOK
<1> QED
  BY <1>1, <1>2, <1>3, <1>4, <1>5, <1>6

LEMMA StutterTypes ==
  ASSUME TypeOK, UNCHANGED vars
  PROVE  TypeOK'
<1>1. RowTypeOK' /\ CallTypeOK' /\ RenderTypeOK' /\ ClientTypeOK'
  BY TypeParts DEF vars, rowVars, callVars, renderVars, clientVars,
                   RowTypeOK, CallTypeOK, RenderTypeOK, ClientTypeOK
<1>2. FileTypeOK' /\ LinesOK'
  BY FilesKept, LinesKept DEF vars, rowVars, callVars, renderVars
<1> QED
  BY <1>1, <1>2, TypeParts

LEMMA StepTypes ==
  ASSUME TypeOK, [Next]_vars
  PROVE  TypeOK'
BY RenderTypes, CallTypes, ClientTypes, StutterTypes DEF Next

(* Every variable keeps its type, and what the scanner of a call has read  *)
(* is behind what its script has printed, which is behind the plan, for    *)
(* every request.                                                          *)
THEOREM RenderTypeCorrect == Spec => []TypeOK
<1>1. Init => TypeOK
  BY InitTypes
<1>2. TypeOK /\ [Next]_vars => TypeOK'
  BY StepTypes
<1> QED
  BY <1>1, <1>2, PTL DEF Spec

-----------------------------------------------------------------------------
(* The outcome *)

(* What each group of steps leaves alone, or does, to the row, the stream  *)
(* and the calls.                                                          *)
LEMMA RenderSteps ==
  ASSUME NEW r \in Rendering, RenderStep(r)
  PROVE  UNCHANGED <<rowVars, callVars, clientVars, faults>>
BY DEF RenderStep, OpenWriter, DrawStep, RenderRaises, Release, MoveAside,
       EncodeStarts, EncodeRefused, EncodeOk, EncodeFails, RemoveRaw, Restore,
       LookForRaw, OrphanEnds, Rename

Unfinished == {"PENDING", "PROCESSING"}

Reads(c) == ReadProgress(c) \/ ProgressLost(c)

LEMMA CallSteps ==
  ASSUME TypeOK, NEW c \in Call, CallStep(c)
  PROVE  /\ row' = row \/ row.status \in Unfinished
         /\ UNCHANGED <<plan, aborted, stream>>
         /\ Reads(c) \/ UNCHANGED <<shown, read, missed>>
<1> USE DEF Unfinished, rowVars, callVars, clientVars
<1>1. CASE Claim(c)
  BY <1>1 DEF Claim, CanClaim
<1>2. CASE ScriptFails(c) \/ Complete(c)
  BY <1>2 DEF ScriptFails, Complete, OwnedBy
<1> QED
  BY <1>1, <1>2 DEF CallStep, ServiceAnswers, ServiceGivenUp, ServiceCancelled,
    KillScript, Reads, ReadProgress, ProgressLost, ReadLine, ScriptOk, Verify, StatementFails

LEMMA ClientSteps ==
  ASSUME TypeOK,
         LeaseExpires \/ LeaseLapses \/ Sweep \/ AbortJob \/ RemoveVideo \/ DeleteRow \/ Poll
  PROVE  /\ \/ row' = row
            \/ row.status \in Unfinished /\ row'.status \in Unfinished
            \/ row'.status = "DELETED"
         /\ UNCHANGED <<shown, plan, missed, call, read, cancel>>
         /\ aborted' = aborted \/ (cancel # None /\ aborted \subseteq aborted')
         /\ Poll \/ stream' = stream
<1>0. row \in Rows(Call)
  BY TypeParts DEF RowTypeOK
<1> USE DEF Unfinished, rowVars, callVars, clientVars
<1>1. CASE LeaseExpires \/ LeaseLapses
  BY <1>0, <1>1, RowFields DEF LeaseExpires, LeaseLapses, Lapses
<1>2. CASE Sweep
  BY <1>0, <1>2, RowFields DEF Sweep, Stalled
<1>3. CASE DeleteRow
  BY <1>0, <1>3, RowFields DEF DeleteRow
<1>4. CASE AbortJob
  BY <1>4 DEF AbortJob
<1>5. CASE RemoveVideo \/ Poll
  BY <1>5 DEF RemoveVideo, Poll
<1> QED
  BY <1>1, <1>2, <1>3, <1>4, <1>5

(* Only the delete moves a row that is final or gone. *)
LEMMA FinalStays ==
  ASSUME TypeOK, [Next]_vars
  PROVE  row.status \notin Unfinished => row'.status \in {row.status, "DELETED"}
BY RenderSteps, CallSteps, ClientSteps DEF Next, vars, rowVars

(* The client of a stream that has ended was told what the row says for    *)
(* good.                                                                   *)
THEOREM ToldTheOutcomeHolds == Spec => []ToldTheOutcome
<1>1. Init => ToldTheOutcome
  BY DEF Init, ToldTheOutcome, Terminal
<1>2. ASSUME TypeOK, ToldTheOutcome, [Next]_vars
      PROVE  ToldTheOutcome'
  <2>1. CASE Poll
    BY <2>1 DEF Poll, EndsStream, ToldTheOutcome, rowVars
  <2>2. CASE ~Poll
    <3>1. stream' = stream
      BY <1>2, <2>2, RenderSteps, CallSteps, ClientSteps DEF Next, vars, clientVars
    <3> QED
      BY <1>2, <3>1, FinalStays DEF ToldTheOutcome, Terminal, Unfinished
  <2> QED
    BY <2>1, <2>2
<1> QED
  BY <1>1, <1>2, RenderTypeCorrect, PTL DEF Spec

-----------------------------------------------------------------------------
(* Progress *)

(* Progress grows with the lines. *)
LEMMA ProgressGrows ==
  ASSUME NEW p \in Plans, NEW k \in Nat, k + 1 <= TotalSteps(p)
  PROVE  /\ Progress(p, k) \in Nat /\ Progress(p, k + 1) \in Nat
         /\ Progress(p, k) <= Progress(p, k + 1)
<1>1. TotalSteps(p) \in Nat
  BY StepsAreBounded DEF Plans
<1>2. k \in 0..TotalSteps(p) /\ k + 1 \in 0..TotalSteps(p) /\ k + 1 > 0 /\ (k + 1) - 1 = k
  BY <1>1
<1>3. Progress(p, (k + 1) - 1) < Progress(p, k + 1)
  BY <1>2, ProgressIsFramesWritten
<1> QED
  BY <1>2, <1>3, ProgressTypes

(* What is shown is no more than the progress of the only call that has    *)
(* reported.                                                               *)
ShownByOne ==
  \A c \in Call : Reporters \subseteq {c} =>
    shown.processed <= Progress(Asked, read[c])

LEMMA ReadsFacts ==
  ASSUME TypeOK, NEW c \in Call, Reads(c)
  PROVE  /\ Asked \in Plans /\ Asked' = Asked
         /\ TotalSteps(Asked) \in Nat
         /\ read[c] \in Nat /\ read[c] + 1 <= TotalSteps(Asked)
         /\ read' = [read EXCEPT ![c] = read[c] + 1]
         /\ Reporters' = Reporters \cup {c}
         /\ shown.processed \in Nat
         /\ \/ shown' = shown
            \/ shown' = [processed |-> Progress(Asked, read[c] + 1), total |-> Asked.frames]
<1> USE TypeParts DEF Reads, ReadLine
<1>0. ReadLine(c) /\ plan' = plan
  BY DEF ReadProgress, ProgressLost
<1>1. Asked \in Plans /\ TotalSteps(Asked) \in Nat /\ Asked' = Asked
  BY <1>0, AskedTypes, AskedKept DEF ReadProgress, ProgressLost
<1>2. read[c] \in Nat /\ read[c] + 1 <= TotalSteps(Asked)
  BY <1>0, <1>1 DEF Unread, CallTypeOK, RenderTypeOK, LinesOK, Rendering, Script
<1>3. read' = [read EXCEPT ![c] = read[c] + 1]
  BY <1>0
<1>4. Reporters' = Reporters \cup {c}
  BY <1>2, <1>3 DEF Reporters, CallTypeOK
<1> QED
  BY <1>1, <1>2, <1>3, <1>4 DEF ReadProgress, ProgressLost, RowTypeOK

(* Nothing but a line that is read changes what is shown. *)
LEMMA OthersShowNothing ==
  ASSUME TypeOK, [Next]_vars, \A c \in Call : ~Reads(c)
  PROVE  UNCHANGED <<shown, plan, read, missed>> /\ Asked' = Asked /\ Reporters' = Reporters
<1>1. UNCHANGED <<shown, plan, read, missed>>
  BY RenderSteps, CallSteps, ClientSteps DEF Next, vars, rowVars, callVars
<1> QED
  BY <1>1, AskedKept, TypeParts DEF Reporters

LEMMA ShownByOneHolds ==
  /\ Init => ShownByOne
  /\ TypeOK /\ ShownByOne /\ [Next]_vars => ShownByOne'
<1>1. ASSUME Init
      PROVE  ShownByOne
  <2>1. RowTypeOK
    BY <1>1, InitTypes, TypeParts
  <2>2. Progress(Asked, 0) \in Nat
    BY <2>1, AskedTypes, ProgressTypes
  <2> QED
    BY <1>1, <2>2 DEF Init, ShownByOne
<1>2. ASSUME TypeOK, ShownByOne, [Next]_vars
      PROVE  ShownByOne'
  <2>1. ASSUME NEW c \in Call, Reads(c)
        PROVE  ShownByOne'
    <3>1. SUFFICES ASSUME NEW d \in Call, Reporters' \subseteq {d}
                   PROVE  shown'.processed <= Progress(Asked, read'[c]) /\ d = c
      BY <1>2, <2>1, ReadsFacts DEF ShownByOne
    <3>2. d = c /\ Reporters \subseteq {c}
      BY <1>2, <2>1, <3>1, ReadsFacts
    <3>3. shown.processed <= Progress(Asked, read[c])
      BY <1>2, <3>2 DEF ShownByOne
    <3>4. /\ Progress(Asked, read[c]) \in Nat /\ Progress(Asked, read[c] + 1) \in Nat
          /\ Progress(Asked, read[c]) <= Progress(Asked, read[c] + 1)
      BY <1>2, <2>1, ReadsFacts, ProgressGrows
    <3>5. read'[c] = read[c] + 1 /\ shown.processed \in Nat
      BY <1>2, <2>1, ReadsFacts, TypeParts DEF CallTypeOK
    <3> QED
      BY <1>2, <2>1, <3>2, <3>3, <3>4, <3>5, ReadsFacts
  <2>2. CASE \A c \in Call : ~Reads(c)
    BY <1>2, <2>2, OthersShowNothing DEF ShownByOne
  <2> QED
    BY <2>1, <2>2
<1> QED
  BY <1>1, <1>2

LEMMA OnlyReporter ==
  ASSUME NEW S \in SUBSET Call, NEW c \in S, Cardinality(S) <= 1
  PROVE  S \subseteq {c}
<1>1. IsFiniteSet(Call)
  BY CallAssumption, FS_Interval DEF Call
<1>2. IsFiniteSet(S) /\ Cardinality(S) \in Nat
  BY <1>1, FS_Subset, FS_CardinalityType
<1>3. Cardinality(S) # 0
  BY <1>2, FS_EmptySet
<1> QED
  BY <1>2, <1>3, FS_Singleton

(* The displayed progress goes back only with another reporter. *)
THEOREM ProgressGoesBackOnlyWithACallHolds == Spec => ProgressGoesBackOnlyWithACall
<1>1. ASSUME TypeOK, ShownByOne, [Next]_vars, Cardinality(Reporters') <= 1
      PROVE  shown'.processed >= shown.processed
  <2>1. shown.processed \in Nat
    BY <1>1, TypeParts DEF RowTypeOK
  <2>2. ASSUME NEW c \in Call, Reads(c)
        PROVE  shown'.processed >= shown.processed
    <3>1. c \in Reporters' /\ Reporters' = Reporters \cup {c}
      BY <1>1, <2>2, ReadsFacts
    <3>2. Reporters' \subseteq {c}
      <4>1. Reporters' \in SUBSET Call
        BY DEF Reporters
      <4> QED
        BY <1>1, <3>1, <4>1, OnlyReporter
    <3>3. shown.processed <= Progress(Asked, read[c])
      BY <1>1, <3>1, <3>2 DEF ShownByOne
    <3>4. /\ Progress(Asked, read[c]) \in Nat /\ Progress(Asked, read[c] + 1) \in Nat
          /\ Progress(Asked, read[c]) <= Progress(Asked, read[c] + 1)
      BY <1>1, <2>2, ReadsFacts, ProgressGrows
    <3> QED
      BY <1>1, <2>1, <2>2, <3>3, <3>4, ReadsFacts
  <2>3. CASE \A c \in Call : ~Reads(c)
    BY <1>1, <2>1, <2>3, OthersShowNothing
  <2> QED
    BY <2>2, <2>3
<1>2. TypeOK /\ ShownByOne /\ [Next]_vars =>
        [Cardinality(Reporters') <= 1 => shown'.processed >= shown.processed]_vars
  BY <1>1
<1>3. Spec => []ShownByOne
  BY ShownByOneHolds, RenderTypeCorrect, PTL DEF Spec
<1> QED
  BY <1>2, <1>3, RenderTypeCorrect, PTL DEF Spec, ProgressGoesBackOnlyWithACall

-----------------------------------------------------------------------------
(* Progress at completion.  The invariant follows a line from the script   *)
(* that prints it to the row: a script past its loop has printed them all, *)
(* a call past its scanner has read them all, the row of a completed job   *)
(* belongs to a call that has returned and that nobody aborted, and the    *)
(* row shows the last line read unless the update for that line was lost.  *)

PastLoop == {"released", "movedAside", "encoding", "encoded", "restore", "timedOut", "ok"}

AllPrinted == \A r \in Rendering : at[r] \in PastLoop => drawn[r] = TotalSteps(Asked)

AllRead ==
  \A c \in Call :
    /\ call[c] \in {"idle", "service"} => read[c] = 0
    /\ call[c] \in {"verify", "complete"} => read[c] \in {0, TotalSteps(Asked)}

CompletedBy(c) ==
  /\ cancel = None /\ c \in Call \ aborted
  /\ call[c] = "returned" /\ read[c] \in {0, TotalSteps(Asked)}

CompletedByAReturnedCall == row.status = "COMPLETED" => CompletedBy(row.worker)

ShownIsLastLine ==
  \A c \in Call :
    Reporters = {c} /\ c \notin aborted \cup missed /\ row.status \in HasRow =>
      shown = [processed |-> Progress(Asked, read[c]), total |-> Asked.frames]

ProgressInv == AllPrinted /\ AllRead /\ CompletedByAReturnedCall /\ ShownIsLastLine

LEMMA AskedStays ==
  ASSUME TypeOK, [Next]_vars
  PROVE  Asked' = Asked
BY ReadsFacts, OthersShowNothing

LEMMA AllPrintedHolds ==
  ASSUME TypeOK, AllPrinted, [Next]_vars
  PROVE  AllPrinted'
<1>0. /\ Asked \in Plans /\ Asked' = Asked
      /\ at \in [Rendering -> {"none", "started"} \cup Busy \cup Ended]
      /\ drawn \in [Rendering -> Nat]
      /\ TotalSteps(Asked) \in Nat
      /\ \A r \in Rendering : drawn[r] <= TotalSteps(Asked)
  BY AskedStays, AskedTypes, TypeParts DEF RenderTypeOK, LinesOK
<1> USE DEF AllPrinted, PastLoop, Goto
<1>1. ASSUME NEW r \in Rendering, RenderStep(r)
      PROVE  AllPrinted'
  <2>1. CASE Release(r)
    <3>1. drawn[r] = TotalSteps(Asked)
      BY <1>0, <2>1, EveryStepRuns DEF Release
    <3> QED
      BY <1>0, <2>1, <3>1 DEF Release
  <2>2. CASE DrawStep(r)
    <3>1. drawn' = [drawn EXCEPT ![r] = drawn[r] + 1] /\ at' = at /\ at[r] = "drawing"
      BY <2>2 DEF DrawStep
    <3> QED
      BY <1>0, <3>1
  <2>3. CASE OpenWriter(r) \/ RenderRaises(r) \/ OrphanEnds(r)
    BY <1>0, <2>3 DEF OpenWriter, RenderRaises, OrphanEnds
  <2>4. CASE \/ MoveAside(r) \/ EncodeStarts(r) \/ EncodeRefused(r) \/ EncodeOk(r)
             \/ EncodeFails(r) \/ RemoveRaw(r) \/ Restore(r) \/ LookForRaw(r)
    BY <1>0, <2>4 DEF MoveAside, EncodeStarts, EncodeRefused, EncodeOk, EncodeFails,
      RemoveRaw, Restore, LookForRaw, Rename
  <2> QED
    BY <1>1, <2>1, <2>2, <2>3, <2>4 DEF RenderStep
<1>2. ASSUME NEW c \in Call, CallStep(c)
      PROVE  AllPrinted'
  <2>1. CASE Claim(c) \/ ServiceGivenUp(c) \/ KillScript(c)
    BY <1>0, <2>1 DEF Claim, ServiceGivenUp, KillScript, Start, Script, Service, Rendering
  <2>2. CASE \/ ServiceAnswers(c) \/ ServiceCancelled(c) \/ Reads(c) \/ ScriptOk(c)
             \/ ScriptFails(c) \/ Verify(c) \/ Complete(c) \/ StatementFails(c)
    BY <1>0, <2>2 DEF ServiceAnswers, ServiceCancelled, Reads, ReadProgress, ProgressLost,
      ReadLine, ScriptOk, ScriptFails, Verify, Complete, StatementFails, renderVars
  <2> QED
    BY <1>2, <2>1, <2>2 DEF CallStep, Reads
<1>3. CASE \/ LeaseExpires \/ LeaseLapses \/ Sweep \/ AbortJob \/ RemoveVideo \/ DeleteRow
           \/ Poll \/ UNCHANGED vars
  BY <1>0, <1>3 DEF LeaseExpires, LeaseLapses, Lapses, Sweep, AbortJob, RemoveVideo,
    DeleteRow, Poll, vars, renderVars
<1> QED
  BY <1>1, <1>2, <1>3 DEF Next

(* Steps that leave every call where it is, with what it has read. *)
LEMMA CallsStay ==
  ASSUME TypeOK, [Next]_vars, \A c \in Call : ~CallStep(c)
  PROVE  /\ UNCHANGED <<call, read, cancel>>
         /\ row' = row \/ row'.status # "COMPLETED"
         /\ aborted' = aborted \/ cancel # None
BY RenderSteps, ClientSteps DEF Next, vars, rowVars, callVars, Unfinished

LEMMA AllReadHolds ==
  ASSUME TypeOK, AllPrinted, AllRead, [Next]_vars
  PROVE  AllRead'
<1>0. /\ Asked' = Asked /\ TotalSteps(Asked) \in Nat
      /\ call \in [Call -> {"idle", "service", "script", "verify", "complete", "returned"}]
      /\ read \in [Call -> Nat]
  BY AskedStays, AskedTypes, TypeParts DEF CallTypeOK
<1> USE DEF AllRead
<1>1. ASSUME NEW c \in Call, CallStep(c)
      PROVE  AllRead'
  <2> USE DEF Advance
  <2>1. CASE ScriptOk(c)
    <3>1. Script(c) \in Rendering /\ drawn[Script(c)] \in Nat /\ read[c] <= drawn[Script(c)]
      BY <1>0, TypeParts DEF Script, Rendering, RenderTypeOK, LinesOK
    <3>2. drawn[Script(c)] = TotalSteps(Asked)
      BY <2>1, <3>1 DEF ScriptOk, AllPrinted, PastLoop
    <3>3. read[c] = TotalSteps(Asked)
      BY <1>0, <2>1, <3>1, <3>2 DEF ScriptOk, Unread
    <3> QED
      BY <1>0, <2>1, <3>3 DEF ScriptOk
  <2>2. CASE Reads(c)
    <3>1. call[c] = "script" /\ call' = call
      BY <2>2 DEF Reads, ReadProgress, ProgressLost, ReadLine
    <3>2. \A d \in Call \ {c} : read'[d] = read[d]
      BY <1>0, <2>2, ReadsFacts
    <3> QED
      BY <1>0, <3>1, <3>2
  <2>3. CASE Claim(c) \/ ServiceAnswers(c) \/ ServiceGivenUp(c) \/ KillScript(c)
    BY <1>0, <2>3 DEF Claim, ServiceAnswers, ServiceGivenUp, KillScript, callVars
  <2>4. CASE \/ ServiceCancelled(c) \/ ScriptFails(c) \/ Verify(c) \/ Complete(c)
             \/ StatementFails(c)
    BY <1>0, <2>4 DEF ServiceCancelled, ScriptFails, Verify, Complete, StatementFails, Return
  <2> QED
    BY <1>1, <2>1, <2>2, <2>3, <2>4 DEF CallStep, Reads
<1>2. CASE \A c \in Call : ~CallStep(c)
  BY <1>0, <1>2, CallsStay
<1> QED
  BY <1>1, <1>2

LEMMA CompletedByHolds ==
  ASSUME TypeOK, AllRead, CompletedByAReturnedCall, [Next]_vars
  PROVE  CompletedByAReturnedCall'
<1>0. /\ Asked' = Asked /\ row \in Rows(Call)
      /\ call \in [Call -> {"idle", "service", "script", "verify", "complete", "returned"}]
      /\ read \in [Call -> Nat]
  BY AskedStays, TypeParts DEF CallTypeOK, RowTypeOK
<1> USE DEF CompletedByAReturnedCall, CompletedBy
<1>1. ASSUME NEW c \in Call, CallStep(c)
      PROVE  CompletedByAReturnedCall'
  <2> USE DEF Advance, Return
  <2>1. CASE Complete(c)
    <3>1. CASE c \notin aborted /\ OwnedBy(row, c)
      <4>1. row'.worker = c
        BY <1>0, <2>1, <3>1, RowFields DEF Complete, OwnedBy
      <4>2. /\ cancel' = None /\ aborted' = aborted
            /\ call'[c] = "returned" /\ read'[c] \in {0, TotalSteps(Asked)}
        BY <1>0, <2>1 DEF Complete, AllRead
      <4> QED
        BY <1>0, <3>1, <4>1, <4>2
    <3>2. CASE ~(c \notin aborted /\ OwnedBy(row, c))
      BY <1>0, <2>1, <3>2 DEF Complete
    <3> QED
      BY <3>1, <3>2
  <2>2. CASE Claim(c) \/ ScriptFails(c)
    BY <1>0, <2>2, RowFields DEF Claim, CanClaim, ScriptFails
  <2>3. CASE \/ ServiceAnswers(c) \/ ServiceGivenUp(c) \/ ServiceCancelled(c)
             \/ KillScript(c) \/ ScriptOk(c) \/ Verify(c) \/ StatementFails(c)
    BY <1>0, <2>3 DEF ServiceAnswers, ServiceGivenUp, ServiceCancelled, KillScript,
      ScriptOk, Verify, StatementFails, ScriptFailed, rowVars, callVars
  <2>4. CASE Reads(c)
    <3>1. row' = row /\ UNCHANGED <<call, cancel, aborted>> /\ call[c] = "script"
      BY <2>4 DEF Reads, ReadProgress, ProgressLost, ReadLine
    <3>2. \A d \in Call \ {c} : read'[d] = read[d]
      BY <1>0, <2>4, ReadsFacts
    <3> QED
      BY <1>0, <3>1, <3>2
  <2> QED
    BY <1>1, <2>1, <2>2, <2>3, <2>4 DEF CallStep, Reads
<1>2. CASE \A c \in Call : ~CallStep(c)
  BY <1>0, <1>2, CallsStay
<1> QED
  BY <1>1, <1>2

LEMMA AbortedStay ==
  ASSUME TypeOK, [Next]_vars
  PROVE  aborted \subseteq aborted'
BY RenderSteps, CallSteps, ClientSteps DEF Next, vars, callVars

LEMMA ShownIsLastLineHolds ==
  ASSUME TypeOK, ShownIsLastLine, [Next]_vars
  PROVE  ShownIsLastLine'
<1> SUFFICES ASSUME NEW c \in Call, Reporters' = {c}, c \notin aborted', c \notin missed',
                    row'.status \in HasRow
             PROVE  shown' = [processed |-> Progress(Asked', read'[c]),
                              total     |-> Asked'.frames]
  BY DEF ShownIsLastLine
<1>1. ASSUME NEW d \in Call, Reads(d)
      PROVE  shown' = [processed |-> Progress(Asked', read'[c]), total |-> Asked'.frames]
  <2>1. d = c /\ Asked' = Asked /\ read' = [read EXCEPT ![d] = read[d] + 1]
    BY <1>1, ReadsFacts
  <2>2. ReadProgress(c)
    BY <1>1, <2>1 DEF Reads, ProgressLost
  <2>3. c \notin aborted /\ row.status \in HasRow
    BY <2>2 DEF ReadProgress, ReadLine
  <2>4. shown' = [processed |-> Progress(Asked, read[c] + 1), total |-> Asked.frames]
    BY <2>2, <2>3 DEF ReadProgress
  <2> QED
    BY <2>1, <2>4, TypeParts DEF CallTypeOK
<1>2. CASE \A d \in Call : ~Reads(d)
  <2>1. UNCHANGED <<shown, read, missed>> /\ Asked' = Asked /\ Reporters' = Reporters
    BY <1>2, OthersShowNothing
  <2>2. c \notin aborted /\ row.status \in HasRow
    BY AbortedStay, FinalStays DEF HasRow, Terminal, Unfinished
  <2> QED
    BY <2>1, <2>2 DEF ShownIsLastLine
<1> QED
  BY <1>1, <1>2

LEMMA ProgressInvInit ==
  ASSUME Init
  PROVE  ProgressInv
BY DEF Init, ProgressInv, AllPrinted, PastLoop, AllRead, CompletedByAReturnedCall,
       ShownIsLastLine, Reporters, CreateJob, Absent

(* A job completed by a script, whose call alone has reported and whose    *)
(* last line the database took, shows all its frames: whatever happened to *)
(* the updates before it, and whatever other calls and renderings do.      *)
THEOREM CompletedShowsAllFramesHolds == Spec => []CompletedShowsAllFrames
<1>1. Init => ProgressInv
  BY ProgressInvInit
<1>2. TypeOK /\ ProgressInv /\ [Next]_vars => ProgressInv'
  BY AllPrintedHolds, AllReadHolds, CompletedByHolds, ShownIsLastLineHolds DEF ProgressInv
<1>3. TypeOK /\ ProgressInv => CompletedShowsAllFrames
  <2> SUFFICES ASSUME TypeOK, ProgressInv, NEW c \in Call,
                      row.status = "COMPLETED", row.worker = c, Reporters = {c},
                      c \notin missed
               PROVE  shown = [processed |-> FramesAfter(Asked, TotalSteps(Asked)),
                               total     |-> Asked.frames]
    BY DEF CompletedShowsAllFrames
  <2>1. c \notin aborted /\ read[c] = TotalSteps(Asked)
    BY DEF ProgressInv, CompletedByAReturnedCall, CompletedBy, Reporters
  <2>2. shown = [processed |-> Progress(Asked, TotalSteps(Asked)), total |-> Asked.frames]
    BY <2>1 DEF ProgressInv, ShownIsLastLine, HasRow, Terminal
  <2>3. Asked \in Plans /\ TotalSteps(Asked) \in 0..TotalSteps(Asked)
    BY AskedTypes, TypeParts
  <2> QED
    BY <2>2, <2>3, ProgressIsFramesWritten
<1> QED
  BY <1>1, <1>2, <1>3, RenderTypeCorrect, PTL DEF Spec

-----------------------------------------------------------------------------
(* The video.  SoleRenderingIsWhole follows the two names and the open     *)
(* file through the stages of the rendering that opened the video last.    *)

(* A rendering has a file open while it writes. *)
WritersHold == \A r \in Rendering : sink[r] # None <=> at[r] \in Writing

(* A call starts each of its renderings once. *)
StartedOnce ==
  \A c \in Call :
    /\ call[c] = "idle" => at[Service(c)] = "none"
    /\ call[c] \in {"idle", "service"} => at[Script(c)] = "none"

(* The file that ffmpeg will write has no name before ffmpeg opens it.     *)
Unencoded == {"none", "started", "drawing", "released", "movedAside"}

EncodesAnew ==
  \A r \in Rendering : at[r] \in Unencoded => <<r, "encoding">> \notin {dir.out, dir.raw}

OutHolds(c) == dir.out # None /\ content[dir.out] = c
RawHolds(c) == dir.raw # None /\ content[dir.raw] = c

(* What an undisturbed rendering has made of the two names so far. *)
Stage(r) ==
  /\ at[r] = "drawing"                => OutHolds("partial") /\ sink[r] = dir.out
  /\ at[r] = "released"               => OutHolds("whole")
  /\ at[r] = "movedAside"             => RawHolds("whole") /\ dir.out = None
  /\ at[r] = "encoding"               => RawHolds("whole") /\ OutHolds("partial")
                                                           /\ sink[r] = dir.out
  /\ at[r] \in {"restore", "timedOut"} => RawHolds("whole")
  /\ at[r] = "encoded"                => OutHolds("whole") /\ dir.raw # None
  /\ at[r] = "ok"                     => OutHolds("whole") /\ dir.raw = None

Alone(r) == \A q \in Rendering : at[q] \in Busy => q = r

SoleInStage == \A r \in Rendering : latest = r /\ sole => Alone(r) /\ Stage(r)

SoleInv == WritersHold /\ StartedOnce /\ EncodesAnew /\ SoleInStage

LEMMA SoleInit ==
  ASSUME Init
  PROVE  SoleInv
<1>1. WritersHold /\ StartedOnce
  BY DEF Init, WritersHold, StartedOnce, Writing, Rendering, Service, Script
<1>2. EncodesAnew
  BY NoneAssumption DEF Init, EncodesAnew, File
<1>3. SoleInStage
  BY DEF Init, SoleInStage
<1> QED
  BY <1>1, <1>2, <1>3 DEF SoleInv

-----------------------------------------------------------------------------
(* What a step does to the renderings *)

LEMMA OtherRenderings ==
  ASSUME TypeOK, NEW r \in Rendering, RenderStep(r)
  PROVE  \A q \in Rendering \ {r} : at'[q] = at[q] /\ sink'[q] = sink[q]
BY TypeParts DEF RenderTypeOK, RenderStep, OpenWriter, DrawStep, RenderRaises, Release,
   MoveAside, EncodeStarts, EncodeRefused, EncodeOk, EncodeFails, RemoveRaw, Restore,
   LookForRaw, OrphanEnds, Rename, Goto, Opens, Closes

(* A call only starts a rendering that has not begun, or kills its script. *)
LEMMA CallRenderings ==
  ASSUME TypeOK, StartedOnce, NEW c \in Call, CallStep(c)
  PROVE  \/ UNCHANGED <<renderVars, fileVars>>
         \/ /\ \E r \in Rendering : at[r] = "none" /\ Start(r)
            /\ UNCHANGED <<sink, fileVars>>
         \/ KillScript(c)
<1>1. Service(c) \in Rendering /\ Script(c) \in Rendering
  BY DEF Service, Script, Rendering
<1>2. CASE Claim(c)
  BY <1>1, <1>2 DEF Claim, StartedOnce
<1>3. CASE ServiceGivenUp(c)
  BY <1>1, <1>3 DEF ServiceGivenUp, StartedOnce
<1> QED
  BY <1>2, <1>3 DEF CallStep, ServiceAnswers, ServiceCancelled, ReadProgress, ProgressLost,
                    ReadLine, ScriptOk, ScriptFails, Verify, Complete, StatementFails

LEMMA ClientRenderings ==
  ASSUME \/ LeaseExpires \/ LeaseLapses \/ Sweep \/ AbortJob \/ RemoveVideo \/ DeleteRow \/ Poll
         \/ UNCHANGED vars
  PROVE  /\ UNCHANGED renderVars
         /\ \/ UNCHANGED fileVars
            \/ RemoveVideo
BY DEF LeaseExpires, LeaseLapses, Lapses, Sweep, AbortJob, RemoveVideo, DeleteRow, Poll,
       vars, renderVars, fileVars

(* A named file keeps what the step put there. *)
LEMMA NamedKept ==
  ASSUME NEW files, Kept(files), NEW i \in File, i = dir'.out \/ i = dir'.raw
  PROVE  content'[i] = files[i]
BY DEF Kept

LEMMA WritersHoldHolds ==
  ASSUME TypeOK, StartedOnce, WritersHold, [Next]_vars
  PROVE  WritersHold'
<1>0. /\ at \in [Rendering -> {"none", "started"} \cup Busy \cup Ended]
      /\ sink \in [Rendering -> {None} \cup File]
  BY TypeParts DEF RenderTypeOK
<1>1. ASSUME NEW r \in Rendering, RenderStep(r)
      PROVE  WritersHold'
  <2>1. sink'[r] # None <=> at'[r] \in Writing
    <3> USE <1>0 DEF WritersHold, Writing, Goto, Closes, Opens
    <3>1. CASE OpenWriter(r)
      BY <3>1, ContentTypes, NoneAssumption, TypeParts DEF OpenWriter
    <3>2. CASE EncodeStarts(r)
      BY <3>2, ContentTypes, NoneAssumption, TypeParts DEF EncodeStarts
    <3>3. CASE RenderRaises(r) \/ Release(r) \/ EncodeOk(r) \/ EncodeFails(r) \/ OrphanEnds(r)
      BY <3>3 DEF RenderRaises, Release, EncodeOk, EncodeFails, OrphanEnds
    <3>4. CASE \/ DrawStep(r) \/ MoveAside(r) \/ EncodeRefused(r) \/ RemoveRaw(r)
               \/ Restore(r) \/ LookForRaw(r)
      BY <3>4 DEF DrawStep, MoveAside, EncodeRefused, RemoveRaw, Restore, LookForRaw, Rename,
                  fileVars
    <3> QED
      BY <1>1, <3>1, <3>2, <3>3, <3>4 DEF RenderStep
  <2> QED
    BY <1>1, <2>1, OtherRenderings DEF WritersHold
<1>2. ASSUME NEW c \in Call, CallStep(c)
      PROVE  WritersHold'
  <2>1. CASE UNCHANGED <<renderVars, fileVars>>
    BY <2>1 DEF renderVars, WritersHold
  <2>2. CASE (\E r \in Rendering : at[r] = "none" /\ Start(r)) /\ UNCHANGED <<sink, fileVars>>
    BY <1>0, <2>2 DEF WritersHold, Writing, Start, Goto
  <2>3. CASE KillScript(c)
    BY <1>0, <2>3 DEF WritersHold, Writing, KillScript, Goto, Closes, Busy
  <2> QED
    BY <1>2, <2>1, <2>2, <2>3, CallRenderings
<1>3. ASSUME \/ LeaseExpires \/ LeaseLapses \/ Sweep \/ AbortJob \/ RemoveVideo
             \/ DeleteRow \/ Poll \/ UNCHANGED vars
      PROVE  WritersHold'
  BY <1>3, ClientRenderings DEF WritersHold, renderVars
<1> QED
  BY <1>1, <1>2, <1>3 DEF Next

LEMMA StartedOnceHolds ==
  ASSUME TypeOK, StartedOnce, [Next]_vars
  PROVE  StartedOnce'
<1>0. /\ at \in [Rendering -> {"none", "started"} \cup Busy \cup Ended]
      /\ call \in [Call -> {"idle", "service", "script", "verify", "complete", "returned"}]
      /\ \A d \in Call : /\ Service(d) \in Rendering /\ Script(d) \in Rendering
                         /\ \A c \in Call : /\ Service(d) # Script(c)
                                            /\ c # d => Service(c) # Service(d)
                                            /\ c # d => Script(c) # Script(d)
  BY TypeParts DEF RenderTypeOK, CallTypeOK, Service, Script, Rendering
<1>1. ASSUME NEW r \in Rendering, RenderStep(r)
      PROVE  StartedOnce'
  <2>1. at[r] # "none"
    BY <1>1 DEF RenderStep, OpenWriter, DrawStep, RenderRaises, Release, MoveAside,
       EncodeStarts, EncodeRefused, EncodeOk, EncodeFails, RemoveRaw, Restore, LookForRaw,
       OrphanEnds
  <2>2. UNCHANGED call
    BY <1>1, RenderSteps DEF callVars
  <2> QED
    BY <1>0, <1>1, <2>1, <2>2, OtherRenderings DEF StartedOnce
<1>2. ASSUME NEW c \in Call, CallStep(c)
      PROVE  StartedOnce'
  <2>1. CASE Claim(c) \/ ServiceGivenUp(c)
    BY <1>0, <2>1 DEF Claim, ServiceGivenUp, StartedOnce, Advance, Start, Goto
  <2>2. CASE KillScript(c)
    BY <1>0, <2>2 DEF KillScript, StartedOnce, Goto, Busy, Writing, callVars
  <2>3. CASE \/ ServiceAnswers(c) \/ ServiceCancelled(c) \/ Reads(c) \/ ScriptOk(c)
             \/ ScriptFails(c) \/ Verify(c) \/ Complete(c) \/ StatementFails(c)
    <3>1. UNCHANGED at
      BY <2>3 DEF ServiceAnswers, ServiceCancelled, Reads, ReadProgress, ProgressLost,
         ReadLine, ScriptOk, ScriptFails, Verify, Complete, StatementFails, renderVars
    <3>2. call' = call \/ \E l \in {"verify", "complete", "returned"} : Advance(c, l)
      BY <2>3 DEF ServiceAnswers, ServiceCancelled, Reads, ReadProgress, ProgressLost,
         ReadLine, ScriptOk, ScriptFails, Verify, Complete, StatementFails, Return
    <3> QED
      BY <1>0, <3>1, <3>2 DEF StartedOnce, Advance
  <2> QED
    BY <1>2, <2>1, <2>2, <2>3 DEF CallStep, Reads
<1>3. ASSUME \/ LeaseExpires \/ LeaseLapses \/ Sweep \/ AbortJob \/ RemoveVideo
             \/ DeleteRow \/ Poll \/ UNCHANGED vars
      PROVE  StartedOnce'
  <2>1. UNCHANGED call
    BY <1>3, ClientSteps DEF vars, callVars
  <2> QED
    BY <1>3, <2>1, ClientRenderings DEF StartedOnce, renderVars
<1> QED
  BY <1>1, <1>2, <1>3 DEF Next

(* No step brings a rendering back before its encoding, and the names the  *)
(* step gives are old, made by a rendering's loop, or made by ffmpeg.      *)
LEMMA EncodesAnewHolds ==
  ASSUME TypeOK, StartedOnce, EncodesAnew, [Next]_vars
  PROVE  EncodesAnew'
<1> DEFINE Back    == \A q \in Rendering : at'[q] \in Unencoded => at[q] \in Unencoded
           Given   == {dir'.out, dir'.raw}
           Old     == {dir.out, dir.raw, None}
<1>0. at \in [Rendering -> {"none", "started"} \cup Busy \cup Ended]
  BY TypeParts DEF RenderTypeOK
<1>1. ASSUME Back, Given \subseteq Old
      PROVE  EncodesAnew'
  BY <1>1, NoneAssumption DEF EncodesAnew, File
<1>2. ASSUME NEW r \in Rendering, RenderStep(r)
      PROVE  EncodesAnew'
  <2>0. dir \in [out : {None} \cup File, raw : {None} \cup File]
    BY TypeParts DEF FileTypeOK
  <2>1. at'[r] \in Unencoded => at[r] \in Unencoded
    BY <1>0, <1>2 DEF RenderStep, OpenWriter, DrawStep, RenderRaises, Release,
       MoveAside, EncodeStarts, EncodeRefused, EncodeOk, EncodeFails, RemoveRaw, Restore,
       LookForRaw, OrphanEnds, Rename, Goto, Unencoded
  <2>2. Back
    BY <1>2, <2>1, OtherRenderings
  <2>3. CASE OpenWriter(r)
    <3>1. Given \subseteq Old \cup {<<r, "drawing">>}
      BY <2>0, <2>3 DEF OpenWriter, Opens, OutOr
    <3> QED
      BY <2>2, <3>1, NoneAssumption DEF EncodesAnew, File
  <2>4. CASE EncodeStarts(r)
    <3>1. Given \subseteq Old \cup {<<r, "encoding">>}
      BY <2>0, <2>4 DEF EncodeStarts, Opens, OutOr
    <3>2. at'[r] \notin Unencoded
      BY <1>0, <2>4 DEF EncodeStarts, Goto, Unencoded
    <3> QED
      BY <2>2, <3>1, <3>2, NoneAssumption DEF EncodesAnew, File
  <2>5. CASE ~OpenWriter(r) /\ ~EncodeStarts(r)
    <3>1. Given \subseteq Old
      BY <1>2, <2>0, <2>5 DEF RenderStep, DrawStep, RenderRaises, Release, MoveAside,
         EncodeRefused, EncodeOk, EncodeFails, RemoveRaw, Restore, LookForRaw, OrphanEnds,
         Rename, fileVars
    <3> QED
      BY <1>1, <2>2, <3>1
  <2> QED
    BY <2>3, <2>4, <2>5
<1>3. ASSUME NEW c \in Call, CallStep(c)
      PROVE  EncodesAnew'
  <2>1. Back
    <3>1. CASE UNCHANGED <<renderVars, fileVars>>
      BY <3>1 DEF renderVars
    <3>2. CASE (\E r \in Rendering : at[r] = "none" /\ Start(r)) /\ UNCHANGED <<sink, fileVars>>
      BY <1>0, <3>2 DEF Start, Goto, Unencoded
    <3>3. CASE KillScript(c)
      BY <1>0, <3>3 DEF KillScript, Goto, Unencoded
    <3> QED
      BY <1>3, <3>1, <3>2, <3>3, CallRenderings
  <2>2. UNCHANGED dir
    BY <1>3, CallRenderings DEF fileVars, KillScript
  <2> QED
    BY <1>1, <2>1, <2>2
<1>4. ASSUME \/ LeaseExpires \/ LeaseLapses \/ Sweep \/ AbortJob \/ RemoveVideo
             \/ DeleteRow \/ Poll \/ UNCHANGED vars
      PROVE  EncodesAnew'
  <2>1. Back
    BY <1>4, ClientRenderings DEF renderVars
  <2>2. Given \subseteq Old
    BY <1>4, ClientRenderings, TypeParts DEF fileVars, RemoveVideo, FileTypeOK
  <2> QED
    BY <1>1, <2>1, <2>2
<1> QED
  BY <1>2, <1>3, <1>4 DEF Next

-----------------------------------------------------------------------------
(* The stages *)

(* A step that leaves a rendering, the names and the named files alone     *)
(* leaves its stage.                                                       *)
LEMMA StageKept ==
  ASSUME TypeOK, NEW r \in Rendering, Stage(r), at'[r] = at[r], sink'[r] = sink[r],
         UNCHANGED dir, UNCHANGED content \/ Kept(content)
  PROVE  Stage(r)'
<1>1. dir.out # None => content'[dir.out] = content[dir.out]
  BY NamedKept, TypeParts DEF FileTypeOK
<1>2. dir.raw # None => content'[dir.raw] = content[dir.raw]
  BY NamedKept, TypeParts DEF FileTypeOK
<1> QED
  BY <1>1, <1>2 DEF Stage, OutHolds, RawHolds

(* The video is opened: with nobody else busy nobody else writes it.       *)
LEMMA StageOpened ==
  ASSUME TypeOK, WritersHold, NEW r \in Rendering, OpenWriter(r), sole'
  PROVE  Alone(r)' /\ Stage(r)'
<1> DEFINE i == OutOr(<<r, "drawing">>)
<1>0. /\ at \in [Rendering -> {"none", "started"} \cup Busy \cup Ended]
      /\ sink \in [Rendering -> {None} \cup File] /\ content \in [File -> Content]
      /\ i \in File /\ i # None
  <2>1. FileTypeOK /\ RenderTypeOK
    BY TypeParts
  <2>2. i \in File
    BY <2>1, ContentTypes
  <2> QED
    BY <2>1, <2>2, NoneAssumption DEF RenderTypeOK, FileTypeOK
<1>1. \A q \in Rendering \ {r} : at[q] \notin Busy /\ sink[q] = None
  <2>1. OthersBusy(r) = {}
    BY DEF OpenWriter
  <2>2. \A q \in Rendering \ {r} : at[q] \notin Busy
    BY <2>1 DEF OthersBusy
  <2> QED
    BY <2>2 DEF WritersHold, Busy
<1>2. Alone(r)'
  <2>1. RenderStep(r)
    BY DEF RenderStep
  <2>2. \A q \in Rendering \ {r} : at'[q] = at[q]
    BY <2>1, OtherRenderings
  <2> QED
    BY <1>1, <2>2 DEF Alone
<1>3. OpenAnew(r, i)[i] = "partial"
  BY <1>0, <1>1 DEF OpenAnew
<1>4. at'[r] = "drawing" /\ dir'.out = i /\ sink'[r] = i /\ Kept(OpenAnew(r, i))
  BY <1>0, TypeParts DEF OpenWriter, Opens, Goto, FileTypeOK
<1>5. content'[i] = "partial"
  BY <1>0, <1>3, <1>4, NamedKept
<1> QED
  BY <1>0, <1>2, <1>4, <1>5 DEF Stage, OutHolds

(* A step of the rendering itself takes it to its next stage. *)
LEMMA StageMoves ==
  ASSUME TypeOK, WritersHold, EncodesAnew, NEW r \in Rendering, Alone(r), Stage(r),
         RenderStep(r), ~OpenWriter(r)
  PROVE  Stage(r)'
<1>0. /\ at \in [Rendering -> {"none", "started"} \cup Busy \cup Ended]
      /\ sink \in [Rendering -> {None} \cup File] /\ content \in [File -> Content]
      /\ dir \in [out : {None} \cup File, raw : {None} \cup File]
  BY TypeParts DEF RenderTypeOK, FileTypeOK
<1>1. CASE DrawStep(r)
  BY <1>1, StageKept DEF DrawStep, fileVars
<1>2. CASE RenderRaises(r)
  BY <1>0, <1>2 DEF RenderRaises, Goto, Stage
<1>3. CASE Release(r)
  <2>1. /\ at'[r] = "released" /\ UNCHANGED dir /\ Kept(Closed(sink[r]))
        /\ dir.out # None /\ content[dir.out] = "partial" /\ sink[r] = dir.out
    BY <1>0, <1>3 DEF Release, Goto, Stage, OutHolds
  <2>2. Closed(sink[r])[dir.out] = "whole"
    BY <1>0, <2>1 DEF Closed
  <2>3. content'[dir.out] = "whole"
    BY <1>0, <2>1, <2>2, NamedKept
  <2> QED
    BY <2>1, <2>3 DEF Stage, OutHolds
<1>4. CASE MoveAside(r)
  <2>1. dir.out # None /\ content[dir.out] = "whole"
    BY <1>4 DEF MoveAside, Stage, OutHolds
  <2>2. at'[r] = "movedAside" /\ dir' = [out |-> None, raw |-> dir.out] /\ Kept(content)
    BY <1>0, <1>4, <2>1 DEF MoveAside, Rename, Goto
  <2>3. content'[dir.out] = "whole"
    BY <1>0, <2>1, <2>2, NamedKept
  <2> QED
    BY <2>1, <2>2, <2>3 DEF Stage, RawHolds
<1>5. CASE EncodeStarts(r)
  <2> DEFINE i == <<r, "encoding">>
  <2>1. /\ at[r] = "movedAside" /\ dir.out = None
        /\ dir.raw \in File /\ dir.raw # None /\ content[dir.raw] = "whole"
    BY <1>0, <1>5 DEF EncodeStarts, Stage, RawHolds
  <2>2. i \in File /\ i # None /\ i # dir.raw
    BY <2>1, NoneAssumption DEF EncodesAnew, Unencoded, File
  <2>3. /\ at'[r] = "encoding" /\ dir' = [dir EXCEPT !.out = i] /\ sink'[r] = i
        /\ Kept(OpenAnew(r, i))
    BY <1>0, <1>5, <2>1 DEF EncodeStarts, Opens, OutOr, Goto
  <2>4. \A q \in Rendering \ {r} : sink[q] = None
    BY DEF Alone, WritersHold, Busy
  <2>5. OpenAnew(r, i)[i] = "partial" /\ OpenAnew(r, i)[dir.raw] = "whole"
    BY <1>0, <2>1, <2>2, <2>4 DEF OpenAnew
  <2>6. dir'.out = i /\ dir'.raw = dir.raw
    BY <1>0, <2>3
  <2>7. content'[i] = "partial" /\ content'[dir.raw] = "whole"
    BY <2>1, <2>2, <2>3, <2>5, <2>6, NamedKept
  <2> QED
    BY <2>1, <2>2, <2>3, <2>6, <2>7 DEF Stage, OutHolds, RawHolds
<1>6. CASE EncodeRefused(r)
  <2>1. at'[r] = "restore" /\ UNCHANGED <<dir, content>> /\ RawHolds("whole")
    BY <1>0, <1>6 DEF EncodeRefused, Goto, Stage, fileVars
  <2> QED
    BY <2>1 DEF Stage, RawHolds
<1>7. CASE EncodeOk(r)
  <2>1. /\ at'[r] = "encoded" /\ UNCHANGED dir /\ Kept(Closed(sink[r])) /\ dir.raw # None
        /\ dir.out # None /\ content[dir.out] = "partial" /\ sink[r] = dir.out
    BY <1>0, <1>7 DEF EncodeOk, Goto, Stage, OutHolds, RawHolds
  <2>2. Closed(sink[r])[dir.out] = "whole"
    BY <1>0, <2>1 DEF Closed
  <2>3. content'[dir.out] = "whole"
    BY <1>0, <2>1, <2>2, NamedKept
  <2> QED
    BY <2>1, <2>3 DEF Stage, OutHolds
<1>8. CASE EncodeFails(r)
  <2>1. /\ at'[r] \in {"restore", "timedOut"} /\ UNCHANGED dir /\ Kept(content)
        /\ dir.raw # None /\ content[dir.raw] = "whole"
    BY <1>0, <1>8 DEF EncodeFails, Goto, Stage, RawHolds
  <2>2. content'[dir.raw] = "whole"
    BY <1>0, <2>1, NamedKept
  <2> QED
    BY <2>1, <2>2 DEF Stage, RawHolds
<1>9. CASE RemoveRaw(r)
  <2>1. /\ dir.raw # None /\ dir.out # None /\ content[dir.out] = "whole"
    BY <1>9 DEF RemoveRaw, Stage, OutHolds
  <2>2. at'[r] = "ok" /\ dir'.out = dir.out /\ dir'.raw = None /\ Kept(content)
    BY <1>0, <1>9, <2>1 DEF RemoveRaw, Goto
  <2>3. content'[dir.out] = "whole"
    BY <1>0, <2>1, <2>2, NamedKept
  <2> QED
    BY <2>1, <2>2, <2>3 DEF Stage, OutHolds
<1>10. CASE Restore(r)
  <2>1. dir.raw # None /\ content[dir.raw] = "whole"
    BY <1>10 DEF Restore, Stage, RawHolds
  <2>2. at'[r] = "ok" /\ dir' = [out |-> dir.raw, raw |-> None] /\ Kept(content)
    BY <1>0, <1>10, <2>1 DEF Restore, Rename, Goto
  <2>3. content'[dir.raw] = "whole"
    BY <1>0, <2>1, <2>2, NamedKept
  <2> QED
    BY <2>1, <2>2, <2>3 DEF Stage, OutHolds
<1>11. CASE LookForRaw(r)
  <2>1. at'[r] = "restore" /\ UNCHANGED <<dir, content>> /\ RawHolds("whole")
    BY <1>0, <1>11 DEF LookForRaw, Goto, Stage, RawHolds, fileVars
  <2> QED
    BY <2>1 DEF Stage, RawHolds
<1>12. CASE OrphanEnds(r)
  BY <1>0, <1>12 DEF OrphanEnds, Goto, Stage
<1> QED
  BY <1>1, <1>2, <1>3, <1>4, <1>5, <1>6, <1>7, <1>8, <1>9, <1>10, <1>11, <1>12 DEF RenderStep

(* Every other step finds the other renderings not busy: it starts one, or *)
(* ends one before it opened a file.                                       *)
LEMMA SoleInStageHolds ==
  ASSUME TypeOK, WritersHold, StartedOnce, EncodesAnew, SoleInStage, [Next]_vars
  PROVE  SoleInStage'
<1>0. at \in [Rendering -> {"none", "started"} \cup Busy \cup Ended]
  BY TypeParts DEF RenderTypeOK
<1>1. ASSUME NEW q \in Rendering, OpenWriter(q)
      PROVE  SoleInStage'
  <2>1. latest' = q
    BY <1>1 DEF OpenWriter
  <2>2. sole' => Alone(q)' /\ Stage(q)'
    BY <1>1, StageOpened
  <2> QED
    BY <2>1, <2>2 DEF SoleInStage
<1>2. ASSUME \A q \in Rendering : ~OpenWriter(q)
      PROVE  SoleInStage'
  <2> SUFFICES ASSUME NEW r \in Rendering, latest' = r, sole'
               PROVE  Alone(r)' /\ Stage(r)'
    BY DEF SoleInStage
  <2>1. ASSUME NEW q \in Rendering, RenderStep(q)
        PROVE  Alone(r)' /\ Stage(r)'
    <3>1. UNCHANGED <<latest, sole>>
      BY <1>2, <2>1 DEF RenderStep, DrawStep, RenderRaises, Release, MoveAside, EncodeStarts,
         EncodeRefused, EncodeOk, EncodeFails, RemoveRaw, Restore, LookForRaw, OrphanEnds,
         Rename, fileVars
    <3>2. Alone(r) /\ Stage(r)
      BY <3>1 DEF SoleInStage
    <3>3. at'[q] \in Busy => at[q] \in Busy
      BY <1>0, <1>2, <2>1 DEF RenderStep, DrawStep, RenderRaises, Release, MoveAside,
         EncodeStarts, EncodeRefused, EncodeOk, EncodeFails, RemoveRaw, Restore, LookForRaw,
         OrphanEnds, Rename, Goto, Busy, Writing
    <3>4. Alone(r)'
      BY <2>1, <3>2, <3>3, OtherRenderings DEF Alone
    <3>5. CASE q = r
      BY <1>2, <2>1, <3>2, <3>4, <3>5, StageMoves
    <3>6. CASE q # r
      <4>1. at[q] \notin Busy
        BY <3>2, <3>6 DEF Alone
      <4>2. RenderRaises(q)
        BY <1>2, <2>1, <4>1 DEF RenderStep, DrawStep, Release, MoveAside, EncodeStarts,
           EncodeRefused, EncodeOk, EncodeFails, RemoveRaw, Restore, LookForRaw, OrphanEnds,
           Busy, Writing
      <4>3. UNCHANGED dir /\ Kept(content)
        BY <4>2 DEF RenderRaises
      <4>4. at'[r] = at[r] /\ sink'[r] = sink[r]
        BY <2>1, <3>6, OtherRenderings
      <4> QED
        BY <3>2, <3>4, <4>3, <4>4, StageKept
    <3> QED
      BY <3>5, <3>6
  <2>2. ASSUME NEW c \in Call, CallStep(c)
        PROVE  Alone(r)' /\ Stage(r)'
    <3>1. UNCHANGED <<latest, sole>>
      BY <2>2, CallRenderings DEF fileVars, KillScript
    <3>2. Alone(r) /\ Stage(r)
      BY <3>1 DEF SoleInStage
    <3>3. CASE UNCHANGED <<renderVars, fileVars>>
      BY <3>2, <3>3, StageKept DEF Alone, renderVars, fileVars
    <3>4. CASE (\E q \in Rendering : at[q] = "none" /\ Start(q)) /\ UNCHANGED <<sink, fileVars>>
      <4>1. PICK q \in Rendering : at[q] = "none" /\ Start(q)
        BY <3>4
      <4>2. Alone(r)'
        BY <1>0, <3>2, <4>1 DEF Alone, Start, Goto, Busy, Writing
      <4>3. CASE q = r
        BY <1>0, <4>1, <4>2, <4>3 DEF Start, Goto, Stage
      <4>4. CASE q # r
        <5>1. at'[r] = at[r] /\ sink'[r] = sink[r]
          BY <1>0, <3>4, <4>1, <4>4 DEF Start, Goto
        <5> QED
          BY <3>2, <3>4, <4>2, <5>1, StageKept DEF fileVars
      <4> QED
        BY <4>3, <4>4
    <3>5. CASE KillScript(c)
      <4> DEFINE q == Script(c)
      <4>1. q \in Rendering
        BY DEF Script, Rendering
      <4>2. /\ at'[q] \in {"orphan", "killed"} /\ UNCHANGED dir /\ Kept(content)
            /\ \A p \in Rendering \ {q} : at'[p] = at[p] /\ sink'[p] = sink[p]
            /\ at'[q] = "orphan" => at[q] = "encoding"
        BY <1>0, <3>5, <4>1, TypeParts DEF KillScript, Goto, Closes, RenderTypeOK
      <4>3. Alone(r)'
        BY <3>2, <4>1, <4>2 DEF Alone, Busy, Writing
      <4>4. CASE q = r
        BY <4>2, <4>3, <4>4 DEF Stage
      <4>5. CASE q # r
        BY <3>2, <4>2, <4>3, <4>5, StageKept
      <4> QED
        BY <4>4, <4>5
    <3> QED
      BY <2>2, <3>3, <3>4, <3>5, CallRenderings
  <2>3. ASSUME \/ LeaseExpires \/ LeaseLapses \/ Sweep \/ AbortJob \/ RemoveVideo
               \/ DeleteRow \/ Poll \/ UNCHANGED vars
        PROVE  Alone(r)' /\ Stage(r)'
    <3>1. UNCHANGED <<renderVars, fileVars>>
      BY <2>3, ClientRenderings DEF RemoveVideo
    <3>2. Alone(r) /\ Stage(r)
      BY <3>1 DEF SoleInStage, fileVars
    <3> QED
      BY <3>1, <3>2, StageKept DEF Alone, renderVars, fileVars
  <2> QED
    BY <2>1, <2>2, <2>3 DEF Next
<1> QED
  BY <1>1, <1>2

(* A rendering that nobody disturbed leaves a whole video and no raw file, *)
(* after any calls, kills, failures and deletes before it.                 *)
THEOREM SoleRenderingIsWholeHolds == Spec => []SoleRenderingIsWhole
<1>1. Init => SoleInv
  BY SoleInit
<1>2. TypeOK /\ SoleInv /\ [Next]_vars => SoleInv'
  BY WritersHoldHolds, StartedOnceHolds, EncodesAnewHolds, SoleInStageHolds DEF SoleInv
<1>3. TypeOK /\ SoleInv => SoleRenderingIsWhole
  BY TypeParts DEF SoleInv, SoleInStage, Stage, OutHolds, SoleRenderingIsWhole, FileTypeOK
<1> QED
  BY <1>1, <1>2, <1>3, RenderTypeCorrect, PTL DEF Spec

-----------------------------------------------------------------------------
(* Render follows JobLifecycle.  Calls claim in their order, and between   *)
(* two claims there is one recovery: the version of the row tells which    *)
(* call holds it.                                                          *)

ClaimedUpTo(n) == \A c \in Call : call[c] # "idle" <=> c <= n

RoundInv ==
  \E n \in 0..Calls :
    /\ ClaimedUpTo(n)
    /\ row.status # "ABSENT"
    /\ row.status = "PENDING" => row.version = 2 * n
    /\ row.status = "PROCESSING" => row.worker = n /\ row.version = 2 * n - 1

LEMMA Versions ==
  ASSUME NEW r \in Rows(Call)
  PROVE  /\ \A c \in Call : ClaimJobCAS(r, c).version = r.version + 1
         /\ MarkCompleted(r, "local").version = r.version + 1
         /\ MarkFailed(r).version = r.version + 1
         /\ Lapse(r).version = r.version
         /\ Recover(r).version = r.version + 1
         /\ DeleteJob(r).version = r.version
BY DEF Rows, ClaimJobCAS, MarkCompleted, MarkFailed, Lapse, Recover, DeleteJob, Absent

(* What a call does to the row and to its own place, by its kinds of step. *)
InHand == {"service", "script", "verify", "complete"}

Claims(c) ==
  /\ call[c] = "idle" /\ row.status = "PENDING"
  /\ \A d \in 1..(c - 1) : call[d] # "idle"
  /\ row' = ClaimJobCAS(row, c)
  /\ \E l \in InHand : Advance(c, l)

GoesOn(c) ==
  /\ row' = row
  /\ call' = call \/ (call[c] \in InHand /\ \E l \in InHand : Advance(c, l))

LetsGo(c) == row' = row /\ call[c] \in InHand /\ Advance(c, "returned")

Finishes(c) ==
  /\ call[c] \in InHand /\ OwnedBy(row, c) /\ Advance(c, "returned")
  /\ row' \in {MarkFailed(row), MarkCompleted(row, "local")}

LEMMA CallKinds ==
  ASSUME TypeOK, NEW c \in Call, CallStep(c)
  PROVE  Claims(c) \/ GoesOn(c) \/ LetsGo(c) \/ Finishes(c)
<1> USE DEF InHand, rowVars, callVars
<1>1. CASE Claim(c)
  BY <1>1 DEF Claim, CanClaim, Claims
<1>2. CASE ServiceAnswers(c) \/ ServiceGivenUp(c) \/ ScriptOk(c)
  BY <1>2 DEF ServiceAnswers, ServiceGivenUp, ScriptOk, GoesOn
<1>3. CASE KillScript(c) \/ ReadProgress(c) \/ ProgressLost(c)
  BY <1>3 DEF KillScript, ReadProgress, ProgressLost, ReadLine, GoesOn
<1>4. CASE ServiceCancelled(c)
  BY <1>4 DEF ServiceCancelled, Return, LetsGo
<1>5. CASE Verify(c)
  BY <1>5 DEF Verify, Return, GoesOn, LetsGo
<1>6. CASE ScriptFails(c)
  BY <1>6 DEF ScriptFails, ScriptFailed, Return, LetsGo, Finishes
<1>7. CASE Complete(c)
  BY <1>7 DEF Complete, Return, LetsGo, Finishes
<1>8. CASE StatementFails(c)
  BY <1>8 DEF StatementFails, ScriptFailed, Return, LetsGo
<1> QED
  BY <1>1, <1>2, <1>3, <1>4, <1>5, <1>6, <1>7, <1>8 DEF CallStep

(* What the clock, the sweep and the client do to them. *)
LEMMA RowKinds ==
  ASSUME TypeOK,
         LeaseExpires \/ LeaseLapses \/ Sweep \/ AbortJob \/ RemoveVideo \/ DeleteRow \/ Poll
  PROVE  /\ call' = call
         /\ \/ row'.status = row.status /\ row'.worker = row.worker /\ row'.version = row.version
            \/ row.status = "PROCESSING" /\ row' = Recover(row)
            \/ row' = DeleteJob(row)
<1>0. row \in Rows(Call)
  BY TypeParts DEF RowTypeOK
<1>1. CASE LeaseExpires \/ LeaseLapses
  BY <1>0, <1>1, RowFields, Versions DEF LeaseExpires, LeaseLapses, Lapses, callVars
<1>2. CASE Sweep \/ DeleteRow
  BY <1>2 DEF Sweep, Stalled, DeleteRow, callVars
<1>3. CASE AbortJob \/ RemoveVideo \/ Poll
  BY <1>3 DEF AbortJob, RemoveVideo, Poll, rowVars, callVars
<1> QED
  BY <1>1, <1>2, <1>3

LEMMA ClaimsInOrder ==
  ASSUME CallTypeOK, NEW c \in Call, call[c] = "idle", \A d \in 1..(c - 1) : call[d] # "idle",
         NEW n \in 0..Calls, ClaimedUpTo(n)
  PROVE  c = n + 1
<1>0. Calls \in Nat /\ Call = 1..Calls
  BY CallAssumption DEF Call
<1>1. c > n
  BY <1>0 DEF ClaimedUpTo
<1>2. CASE c > n + 1
  <2>1. n + 1 \in Call /\ n + 1 \in 1..(c - 1)
    BY <1>0, <1>2
  <2> QED
    BY <2>1 DEF ClaimedUpTo
<1> QED
  BY <1>0, <1>1, <1>2

LEMMA RoundInit == Init => RoundInv
<1> SUFFICES ASSUME Init PROVE RoundInv
  OBVIOUS
<1>1. 0 \in 0..Calls /\ ClaimedUpTo(0)
  BY CallAssumption DEF Init, ClaimedUpTo, Call
<1>2. row.status = "PENDING" /\ row.version = 2 * 0
  BY DEF Init, CreateJob, Absent
<1> QED
  BY <1>1, <1>2 DEF RoundInv

LEMMA RoundStep == TypeOK /\ RoundInv /\ [Next]_vars => RoundInv'
<1> SUFFICES ASSUME TypeOK, RoundInv, [Next]_vars PROVE RoundInv'
  OBVIOUS
<1>0. row \in Rows(Call) /\ CallTypeOK /\ Calls \in Nat /\ Call = 1..Calls
  BY TypeParts, CallAssumption DEF RowTypeOK, Call
<1>n. PICK n \in 0..Calls :
        /\ ClaimedUpTo(n) /\ row.status # "ABSENT"
        /\ row.status = "PENDING" => row.version = 2 * n
        /\ row.status = "PROCESSING" => row.worker = n /\ row.version = 2 * n - 1
  BY DEF RoundInv
<1>1. ASSUME NEW c \in Call, Claims(c)
      PROVE  RoundInv'
  <2>1. c = n + 1 /\ c \in 0..Calls
    BY <1>0, <1>1, <1>n, ClaimsInOrder DEF Claims
  <2>2. row'.status = "PROCESSING" /\ row'.worker = c /\ row'.version = 2 * n + 1
    BY <1>0, <1>1, <1>n, RowFields, Versions DEF Claims
  <2>3. ClaimedUpTo(c)'
    BY <1>0, <1>1, <1>n, <2>1 DEF Claims, Advance, ClaimedUpTo, CallTypeOK, InHand
  <2>4. 2 * n + 1 = 2 * c - 1
    BY <1>0, <2>1
  <2> QED
    BY <2>1, <2>2, <2>3, <2>4 DEF RoundInv
<1>2. ASSUME NEW c \in Call, GoesOn(c) \/ LetsGo(c) \/ Finishes(c)
      PROVE  RoundInv'
  <2>1. ClaimedUpTo(n)'
    BY <1>0, <1>2, <1>n DEF GoesOn, LetsGo, Finishes, Advance, ClaimedUpTo, CallTypeOK, InHand
  <2>2. row' = row \/ row'.status \in Terminal
    BY <1>0, <1>2, RowFields DEF GoesOn, LetsGo, Finishes, Terminal
  <2> QED
    BY <1>n, <2>1, <2>2 DEF RoundInv, Terminal
<1>3. CASE LeaseExpires \/ LeaseLapses \/ Sweep \/ AbortJob \/ RemoveVideo \/ DeleteRow \/ Poll
  <2>1. ClaimedUpTo(n)'
    BY <1>n, <1>3, RowKinds DEF ClaimedUpTo
  <2>2. CASE row'.status = row.status /\ row'.worker = row.worker /\ row'.version = row.version
    BY <1>n, <2>1, <2>2 DEF RoundInv
  <2>3. CASE row.status = "PROCESSING" /\ row' = Recover(row)
    <3>1. row'.status = "PENDING" /\ row'.version = (2 * n - 1) + 1
      BY <1>0, <1>n, <2>3, RowFields, Versions
    <3>2. row'.version = 2 * n
      BY <3>1
    <3> QED
      BY <2>1, <3>1, <3>2 DEF RoundInv
  <2>4. CASE row' = DeleteJob(row)
    <3>1. row'.status = "DELETED"
      BY <1>0, <2>4, RowFields
    <3> QED
      BY <1>n, <2>1, <3>1 DEF RoundInv
  <2> QED
    BY <1>3, <2>2, <2>3, <2>4, RowKinds
<1>4. ASSUME UNCHANGED <<row, call>>
      PROVE  RoundInv'
  BY <1>n, <1>4 DEF RoundInv, ClaimedUpTo
<1>5. ASSUME (\E r \in Rendering : RenderStep(r)) \/ UNCHANGED vars
      PROVE  RoundInv'
  BY <1>4, <1>5, RenderSteps DEF vars, rowVars, callVars
<1> QED
  BY <1>1, <1>2, <1>3, <1>5, CallKinds DEF Next

-----------------------------------------------------------------------------
(* The steps, one kind after the other *)

LEMMA MapKept ==
  ASSUME row'.status = row.status, row'.version = row.version,
         \A c \in Call : Works(c)' <=> Works(c)
  PROVE  UNCHANGED Lifecycle!jvars
BY DEF Phase, Round, Held, Lifecycle!jvars

(* The claims of the other calls stay. *)
LEMMA HeldBy ==
  ASSUME CallTypeOK, NEW c \in Call, NEW l, Advance(c, l)
  PROVE  /\ l \in InHand => Held' = [Held EXCEPT ![c] = <<"job", 2 * c - 1>>]
         /\ l = "returned" => Held' = [Held EXCEPT ![c] = None]
<1>1. call' = [call EXCEPT ![c] = l] /\ call \in [Call -> {"idle", "returned"} \cup InHand]
  BY DEF Advance, CallTypeOK, InHand
<1>2. \A d \in Call \ {c} : Works(d)' <=> Works(d)
  BY <1>1 DEF Works
<1>3. (l \in InHand => Works(c)') /\ (l = "returned" => ~Works(c)')
  BY <1>1 DEF Works, InHand
<1> QED
  BY <1>2, <1>3 DEF Held

LEMMA PhaseMaps ==
  /\ Phase["job"] = row.status /\ Round["job"] = row.version
  /\ Phase' = [Phase EXCEPT !["job"] = row'.status]
  /\ Round' = [Round EXCEPT !["job"] = row'.version]
BY DEF Phase, Round

LEMMA CallMaps ==
  ASSUME TypeOK, RoundInv, NEW c \in Call, CallStep(c)
  PROVE  Lifecycle!JNext \/ UNCHANGED Lifecycle!jvars
<1>0. row \in Rows(Call) /\ CallTypeOK /\ Calls \in Nat /\ Call = 1..Calls
  BY TypeParts, CallAssumption DEF RowTypeOK, Call
<1>n. PICK n \in 0..Calls :
        /\ ClaimedUpTo(n) /\ row.status # "ABSENT"
        /\ row.status = "PENDING" => row.version = 2 * n
        /\ row.status = "PROCESSING" => row.worker = n /\ row.version = 2 * n - 1
  BY DEF RoundInv
<1>1. CASE Claims(c)
  <2>1. c = n + 1
    BY <1>0, <1>1, <1>n, ClaimsInOrder DEF Claims
  <2>2. row'.status = "PROCESSING" /\ row'.version = row.version + 1 /\ row.version + 1 = 2 * c - 1
    BY <1>0, <1>1, <1>n, <2>1, RowFields, Versions DEF Claims
  <2>3. Lifecycle!Advance("job", "PROCESSING")
    BY <2>2, PhaseMaps DEF Lifecycle!Advance
  <2>4. Held' = [Held EXCEPT ![c] = <<"job", Round["job"] + 1>>]
    BY <1>0, <1>1, <2>2, HeldBy, PhaseMaps DEF Claims
  <2>5. Phase["job"] = "PENDING" /\ Held[c] = None
    BY <1>1, PhaseMaps DEF Claims, Held, Works
  <2>6. Lifecycle!Take(c, "job")
    BY <2>3, <2>4, <2>5 DEF Lifecycle!Take
  <2> QED
    BY <2>6 DEF Lifecycle!JNext
<1>2. CASE GoesOn(c)
  <2>1. \A d \in Call : Works(d)' <=> Works(d)
    BY <1>0, <1>2 DEF GoesOn, Advance, Works, CallTypeOK, InHand
  <2> QED
    BY <1>2, <2>1, MapKept DEF GoesOn
<1>3. CASE LetsGo(c)
  <2>1. Held' = [Held EXCEPT ![c] = None]
    BY <1>0, <1>3, HeldBy DEF LetsGo
  <2>2. Held' = [d \in Call |-> IF d \in {c} THEN None ELSE Held[d]]
    BY <2>1 DEF Held
  <2>3. UNCHANGED <<Phase, Round>>
    BY <1>3 DEF LetsGo, Phase, Round
  <2>4. Lifecycle!LetGo
    BY <2>2, <2>3 DEF Lifecycle!LetGo
  <2> QED
    BY <2>4 DEF Lifecycle!JNext
<1>4. CASE Finishes(c)
  <2>1. row.status = "PROCESSING" /\ row.worker = c /\ c = n /\ row.version = 2 * c - 1
    BY <1>4, <1>n DEF Finishes, OwnedBy
  <2>2. row'.status \in Lifecycle!Finished /\ row'.version = row.version + 1
    BY <1>0, <1>4, RowFields, Versions DEF Finishes, Lifecycle!Finished
  <2>3. Lifecycle!Advance("job", row'.status)
    BY <2>2, PhaseMaps DEF Lifecycle!Advance
  <2>4. Held[c] = <<"job", Round["job"]>>
    BY <1>4, <2>1, PhaseMaps DEF Finishes, Held, Works, InHand
  <2>5. Held' = [Held EXCEPT ![c] = None]
    BY <1>0, <1>4, HeldBy DEF Finishes
  <2>6. Lifecycle!Finish(c, "job")
    BY <2>1, <2>2, <2>3, <2>4, <2>5, PhaseMaps DEF Lifecycle!Finish
  <2> QED
    BY <2>6 DEF Lifecycle!JNext
<1> QED
  BY <1>1, <1>2, <1>3, <1>4, CallKinds

LEMMA RowMaps ==
  ASSUME TypeOK, RoundInv,
         LeaseExpires \/ LeaseLapses \/ Sweep \/ AbortJob \/ RemoveVideo \/ DeleteRow \/ Poll
  PROVE  Lifecycle!JNext \/ UNCHANGED Lifecycle!jvars
<1>0. row \in Rows(Call)
  BY TypeParts DEF RowTypeOK
<1>1. UNCHANGED Held
  BY RowKinds DEF Held, Works
<1>2. CASE row'.status = row.status /\ row'.version = row.version
  BY <1>1, <1>2 DEF Phase, Round, Lifecycle!jvars
<1>3. CASE row.status = "PROCESSING" /\ row' = Recover(row)
  <2>1. row'.status = "PENDING" /\ row'.version = row.version + 1
    BY <1>0, <1>3, RowFields, Versions
  <2>2. {"job"} \in SUBSET {j \in {"job"} : Phase[j] = "PROCESSING"}
    BY <1>3, PhaseMaps
  <2>3. /\ Phase' = [j \in {"job"} |-> IF j \in {"job"} THEN "PENDING" ELSE Phase[j]]
        /\ Round' = [j \in {"job"} |-> IF j \in {"job"} THEN Round[j] + 1 ELSE Round[j]]
    BY <2>1 DEF Phase, Round
  <2>4. Lifecycle!Release
    BY <1>1, <2>2, <2>3 DEF Lifecycle!Release
  <2> QED
    BY <2>4 DEF Lifecycle!JNext
<1>4. CASE row' = DeleteJob(row)
  <2>1. row'.status = "DELETED" /\ row'.version = row.version
    BY <1>0, <1>4, RowFields, Versions
  <2>2. row.status # "ABSENT"
    BY DEF RoundInv
  <2>3. Lifecycle!Remove("job")
    BY <1>1, <2>1, <2>2, PhaseMaps DEF Lifecycle!Remove, Round
  <2> QED
    BY <2>3 DEF Lifecycle!JNext
<1> QED
  BY <1>2, <1>3, <1>4, RowKinds

(* After its INSERT the job follows its life cycle, whatever its calls and *)
(* their renderings do: each step is a step of JobLifecycle or a stutter.  *)
THEOREM FollowsLifecycleHolds == Spec => FollowsLifecycle
<1>1. Spec => []RoundInv
  BY RoundInit, RoundStep, RenderTypeCorrect, PTL DEF Spec
<1>2. TypeOK /\ RoundInv /\ [Next]_vars => [Lifecycle!JNext]_(Lifecycle!jvars)
  <2> SUFFICES ASSUME TypeOK, RoundInv, [Next]_vars
               PROVE  Lifecycle!JNext \/ UNCHANGED Lifecycle!jvars
    OBVIOUS
  <2>1. ASSUME (\E r \in Rendering : RenderStep(r)) \/ UNCHANGED vars
        PROVE  UNCHANGED Lifecycle!jvars
    <3>1. UNCHANGED <<row, call>>
      BY <2>1, RenderSteps DEF vars, rowVars, callVars
    <3> QED
      BY <3>1, MapKept DEF Works
  <2> QED
    BY <2>1, CallMaps, RowMaps DEF Next
<1> QED
  BY <1>1, <1>2, RenderTypeCorrect, PTL DEF Spec, FollowsLifecycle
=============================================================================
