------------------------------ MODULE Composer ------------------------------
(***************************************************************************)
(* A message composer: the text, the attachment that is uploaded while the *)
(* text is typed (presign, PUT to storage, cancel, retry, remove), and the *)
(* sends that take both.  The three composers of the client differ in what *)
(* an ended send leaves behind.  A composer that is disabled by its thread *)
(* accepts nothing: it is one that waits.                                  *)
(*                                                                         *)
(* An upload is known by its number, and so is the key presigned for it.   *)
(***************************************************************************)
EXTENDS Integers, Sequences

CONSTANTS
  Files,        \* what people attach
  BadFiles,     \* those of an unsupported type, empty or too large
  NoFile,
  MaxUploads,   \* bound: uploads that reach the service
  MaxComposed   \* bound: sends

ASSUME ComposerAssumption ==
  /\ BadFiles \subseteq Files /\ NoFile \notin Files
  /\ MaxUploads \in Nat /\ MaxComposed \in Nat

VARIABLES
  composer,     \* the form, useComposerMediaAttachment and useMediaUpload
  uploads,      \* the calls of uploadMediaViaPresignedPut, by number
  objects,      \* storage: the uploads whose object is there
  composed      \* history: what the sends took

composerVars == <<composer, uploads, objects, composed>>

ComposerKinds == {"thread", "followUp", "first"}
Blank(kind) == [kind |-> kind, text |-> FALSE, name |-> NoFile, submitting |-> FALSE,
                uploading |-> FALSE, error |-> FALSE, result |-> 0, last |-> NoFile, current |-> 0]

ComposerTypeOK ==
  /\ composer \in [kind: ComposerKinds, text: BOOLEAN, name: Files \cup {NoFile}, submitting: BOOLEAN,
                   uploading: BOOLEAN, error: BOOLEAN, result: 0 .. MaxUploads,
                   last: Files \cup {NoFile}, current: 0 .. MaxUploads]
  /\ uploads \in Seq([file: Files, step: {"presign", "renew", "put", "over"}, aborted: BOOLEAN])
  /\ objects \subseteq 1 .. MaxUploads
  /\ composed \in Seq([key: 0 .. MaxUploads, name: Files \cup {NoFile}])

ComposerInit ==
  /\ composer \in {Blank(kind) : kind \in ComposerKinds}
  /\ uploads = <<>> /\ objects = {} /\ composed = <<>>

-----------------------------------------------------------------------------
(* useMediaUpload.                                                         *)

Under(i) == i # 0 /\ uploads[i].step # "over"
Live == {i \in DOMAIN uploads : Under(i) /\ ~uploads[i].aborted}

M_Aborted(i) == uploads

\* The signal ends the presign request and the PUT at once, but not a request
\* that waits for the refresh of the session.
Aborted(i) ==
  IF ~Under(i) THEN uploads
  ELSE [uploads EXCEPT ![i].aborted = TRUE, ![i].step = IF @ = "renew" THEN "renew" ELSE "over"]

\* The finally clause of upload i.
Over(c, i) == [c EXCEPT !.uploading = FALSE, !.current = IF @ = i THEN 0 ELSE @]

\* reset, and the end of the upload it aborts.
Reset(c) == [c EXCEPT !.uploading = FALSE, !.error = FALSE, !.result = 0, !.last = NoFile, !.current = 0]

\* What uploadMediaViaPresignedPut sends to the service.
Accepted(f) == f \notin BadFiles

\* upload(file): an upload that is still under way is aborted, and its finally
\* clause runs after the new one has begun.  A bad file fails before any request.
Upload(c, f) ==
  LET before == Aborted(composer.current)
      ends == Under(composer.current) /\ before[composer.current].step = "over"
  IN
  IF ~Accepted(f)
  THEN /\ composer' = [Reset(c) EXCEPT !.error = TRUE, !.last = f]
       /\ uploads' = before
  ELSE /\ Len(uploads) < MaxUploads
       /\ composer' = [Reset(c) EXCEPT !.last = f, !.uploading = ~ends, !.current = Len(uploads) + 1]
       /\ uploads' = Append(before, [file |-> f, step |-> "presign", aborted |-> FALSE])

-----------------------------------------------------------------------------
(* The controls of the attachment.                                         *)

\* The dialog of the file input is modal: nothing starts between its two ends.
PickFile(f) ==
  /\ ~composer.uploading /\ ~composer.submitting
  /\ Upload([composer EXCEPT !.name = f], f)
  /\ UNCHANGED <<objects, composed>>

RetryUpload ==
  /\ composer.error /\ ~composer.uploading /\ composer.name # NoFile /\ composer.result = 0
  /\ composer.last # NoFile
  /\ Upload(composer, composer.last)
  /\ UNCHANGED <<objects, composed>>

CancelUpload ==
  /\ composer.uploading
  /\ LET i == composer.current IN
     /\ Under(i)
     /\ uploads' = Aborted(i)
     /\ composer' = IF uploads'[i].step = "over" THEN Over(composer, i) ELSE composer
  /\ UNCHANGED <<objects, composed>>

ClearAttachment(c) ==
  /\ uploads' = Aborted(composer.current)
  /\ composer' = [Reset(c) EXCEPT !.name = NoFile]

RemoveAttachment ==
  /\ ~composer.uploading
  /\ composer.name # NoFile \/ composer.error \/ composer.result # 0
  /\ ClearAttachment(composer)
  /\ UNCHANGED <<objects, composed>>

-----------------------------------------------------------------------------
(* The requests of an upload.                                              *)

At(i, step) == i \in DOMAIN uploads /\ uploads[i].step = step
Reach(i, step) == uploads' = [uploads EXCEPT ![i].step = step]

\* A 401: the interceptor refreshes the session and sends the request again.
PresignUnauthorized(i) ==
  /\ At(i, "presign") /\ Reach(i, "renew")
  /\ UNCHANGED <<composer, objects, composed>>

\* The service answers with a URL for a new key.
Presigned(i) ==
  /\ i \in Live /\ uploads[i].step \in {"presign", "renew"}
  /\ Reach(i, "put")
  /\ UNCHANGED <<composer, objects, composed>>

\* A repeated request finds its signal aborted.
RenewedInVain(i) ==
  /\ At(i, "renew") /\ uploads[i].aborted
  /\ Reach(i, "over") /\ composer' = Over(composer, i)
  /\ UNCHANGED <<objects, composed>>

PutDone(i) ==
  /\ At(i, "put")
  /\ Reach(i, "over") /\ objects' = objects \cup {i}
  /\ composer' = [Over(composer, i) EXCEPT !.result = i, !.last = NoFile]
  /\ UNCHANGED composed

Refused(i) == Reach(i, "over") /\ composer' = [Over(composer, i) EXCEPT !.error = TRUE]

\* The service refuses the request or fails, or its answer is lost.
PresignFails(i) ==
  /\ i \in Live /\ uploads[i].step # "put" /\ Refused(i)
  /\ UNCHANGED <<objects, composed>>

\* Storage refuses the PUT (the URL has expired), or its answer is lost: then
\* the object may be there.
PutFails(i) ==
  /\ At(i, "put") /\ Refused(i)
  /\ objects' \in {objects, objects \cup {i}}
  /\ UNCHANGED composed

-----------------------------------------------------------------------------
(* The form.                                                               *)

Type ==
  /\ ~composer.submitting
  /\ composer' = [composer EXCEPT !.text = ~@]
  /\ UNCHANGED <<uploads, objects, composed>>

\* handleSubmit up to its await: what it sends is what was rendered.
Submit ==
  /\ composer.text \/ composer.result # 0
  /\ ~composer.submitting /\ ~composer.uploading
  /\ Len(composed) < MaxComposed
  /\ composer' = [composer EXCEPT !.submitting = TRUE]
  /\ composed' = Append(composed, [key |-> composer.result, name |-> composer.name])
  /\ UNCHANGED <<uploads, objects>>

Sent(kind) == composer.submitting /\ composer.kind = kind
Emptied == [composer EXCEPT !.text = FALSE, !.submitting = FALSE]

ThreadSent == /\ Sent("thread") /\ ClearAttachment(Emptied)
              /\ UNCHANGED <<objects, composed>>
FollowUpSent == /\ Sent("followUp") /\ ClearAttachment(Emptied)
                /\ UNCHANGED <<objects, composed>>

\* The first message has made a thread: its composer takes the place of this one,
\* to which uploads still report.
FirstSent == /\ Sent("first")
             /\ uploads' = [i \in DOMAIN uploads |-> [uploads[i] EXCEPT !.step = "over"]]
             /\ composer' = Blank("thread")
             /\ UNCHANGED <<objects, composed>>

\* The draft and the attachment stay.
NotSent ==
  /\ composer.submitting
  /\ composer' = [composer EXCEPT !.submitting = FALSE]
  /\ UNCHANGED <<uploads, objects, composed>>

ComposerNext ==
  \/ \E f \in Files : PickFile(f)
  \/ RetryUpload \/ CancelUpload \/ RemoveAttachment
  \/ \E i \in DOMAIN uploads :
       \/ PresignUnauthorized(i) \/ Presigned(i) \/ RenewedInVain(i) \/ PresignFails(i)
       \/ PutDone(i) \/ PutFails(i)
  \/ Type \/ Submit \/ ThreadSent \/ FollowUpSent \/ FirstSent \/ NotSent

ComposerSpec == ComposerInit /\ [][ComposerNext]_composerVars

-----------------------------------------------------------------------------
(* Properties.                                                             *)

IsOf(key, f) == key \in objects /\ uploads[key].file = f

\* The key that a message carries is that of an object in storage, and of the
\* file the composer shows as ready: no cancelled, removed or failed upload, and
\* none that a retry or another file replaced, lends its key to a send.
AttachmentIsIntended ==
  /\ composer.result # 0 => IsOf(composer.result, composer.name)
  /\ \A n \in DOMAIN composed : composed[n].key # 0 => IsOf(composed[n].key, composed[n].name)
=============================================================================
