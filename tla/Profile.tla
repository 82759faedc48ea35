------------------------------- MODULE Profile -------------------------------
(***************************************************************************)
(* The profile of a user: the row PATCH /users/me writes, the photo that   *)
(* is uploaded first, and the settings page of one browser, which fills    *)
(* its form from the user in the auth slice whenever that user changes.    *)
(* Another browser saves too, and the approval of a new device puts back   *)
(* the user it had when it began.                                          *)
(*                                                                         *)
(* The photo of save i is known by the number i, and so is its key.        *)
(***************************************************************************)
EXTENDS Integers, Sequences

CONSTANTS
  Texts,        \* what the fields hold, once trimmed
  NoText,       \* an empty field
  MaxEdits,     \* bound: texts typed and photos chosen
  MaxSaves,     \* bound: saves of this browser
  MaxElsewhere, \* bound: saves of the other browser
  MaxApprovals  \* bound: approvals of a device

ASSUME ProfileAssumption ==
  /\ NoText \in Texts
  /\ {MaxEdits, MaxSaves, MaxElsewhere, MaxApprovals} \subseteq Nat

VARIABLES
  profile,      \* the row: texts and picture
  photos,       \* storage: the saves whose photo is there
  user,         \* auth.user
  form,         \* the settings page, number 0 while it is closed
  saves,        \* the submissions, in order
  approval,     \* approveSync: the user it has kept, and whether it is still auth.user
  edits, elsewhere, approvals

profileVars == <<profile, photos, user, form, saves, approval, edits, elsewhere, approvals>>

Fields == {"name", "status"}
Rows == [texts: [Fields -> Texts], picture: 0 .. MaxSaves]
Nobody == [texts |-> [f \in Fields |-> NoText], picture |-> 0]
Closed(page) == [page |-> page, open |-> FALSE, draft |-> [f \in Fields |-> NoText],
                 photo |-> FALSE, submitting |-> FALSE, typed |-> {}]

ProfileTypeOK ==
  /\ profile \in Rows /\ user \in Rows /\ photos \subseteq 1 .. MaxSaves
  /\ form \in [page: Nat, open: BOOLEAN, draft: [Fields -> Texts], photo: BOOLEAN,
               submitting: BOOLEAN, typed: SUBSET Fields]
  /\ \A i \in DOMAIN saves :
       /\ saves[i].step \in {"presign", "put", "patch", "read", "answer", "over"}
       /\ DOMAIN saves[i].patch \subseteq Fields /\ saves[i].answer \in Rows
  /\ approval \in [step: {"idle", "refreshing"}, user: Rows, same: BOOLEAN]

ProfileInit ==
  /\ \E t \in Texts \ {NoText} :
       profile = [texts |-> [f \in Fields |-> IF f = "name" THEN t ELSE NoText], picture |-> 0]
  /\ photos = {} /\ user = profile /\ form = Closed(0) /\ saves = <<>>
  /\ approval = [step |-> "idle", user |-> Nobody, same |-> FALSE]
  /\ edits = 0 /\ elsewhere = 0 /\ approvals = 0

-----------------------------------------------------------------------------
(* The page.                                                               *)

\* The effect of the page on a new user: drafts that were being typed are lost.
Filled(u, page) ==
  IF page.open THEN [page EXCEPT !.draft = u.texts, !.typed = {}] ELSE page

OpenSettings ==
  /\ ~form.open /\ form.page < MaxSaves
  /\ form' = Filled(user, [Closed(form.page + 1) EXCEPT !.open = TRUE])
  /\ UNCHANGED <<profile, photos, user, saves, approval, edits, elsewhere, approvals>>

\* A save under way goes on.
LeaveSettings ==
  /\ form.open /\ form' = Closed(form.page)
  /\ UNCHANGED <<profile, photos, user, saves, approval, edits, elsewhere, approvals>>

Edits == edits < MaxEdits /\ edits' = edits + 1
TypeField(f, t) ==
  /\ form.open /\ ~form.submitting /\ Edits /\ form.draft[f] # t
  /\ form' = [form EXCEPT !.draft[f] = t, !.typed = @ \cup {f}]
  /\ UNCHANGED <<profile, photos, user, saves, approval, elsewhere, approvals>>

ChoosePhoto ==
  /\ form.open /\ ~form.submitting /\ ~form.photo /\ Edits
  /\ form' = [form EXCEPT !.photo = TRUE]
  /\ UNCHANGED <<profile, photos, user, saves, approval, elsewhere, approvals>>

DiscardPhoto ==
  /\ form.open /\ ~form.submitting /\ form.photo
  /\ form' = [form EXCEPT !.photo = FALSE]
  /\ UNCHANGED <<profile, photos, user, saves, approval, edits, elsewhere, approvals>>

\* The fields to send: those whose draft is not the user's.
M_Changed == Fields
Changed == {f \in Fields : form.draft[f] # user.texts[f]}

SubmitProfile ==
  /\ form.open /\ ~form.submitting /\ Len(saves) < MaxSaves
  /\ Changed # {} \/ form.photo
  /\ form' = [form EXCEPT !.submitting = TRUE]
  /\ saves' = Append(saves,
       [page |-> form.page, photo |-> form.photo, step |-> IF form.photo THEN "presign" ELSE "patch",
        patch |-> [f \in Changed |-> form.draft[f]], typed |-> form.typed, answer |-> Nobody])
  /\ UNCHANGED <<profile, photos, user, approval, edits, elsewhere, approvals>>

-----------------------------------------------------------------------------
(* The save: POST /users/me/avatar/presign, the PUT, PATCH /users/me.      *)

To(i, step) == saves' = [saves EXCEPT ![i].step = step]
Ended(i) == saves' = [saves EXCEPT ![i] = [@ EXCEPT !.step = "over", !.patch = <<>>, !.typed = {}, !.answer = Nobody]]

PresignAvatar(i) ==
  /\ saves[i].step = "presign" /\ To(i, "put")
  /\ UNCHANGED <<profile, photos, user, form, approval, edits, elsewhere, approvals>>

PutAvatar(i) ==
  /\ saves[i].step = "put" /\ To(i, "patch") /\ photos' = photos \cup {i}
  /\ UNCHANGED <<profile, user, form, approval, edits, elsewhere, approvals>>

\* The handlers refuse an empty name; an empty status clears the field.
Valid(s) == "name" \in DOMAIN s.patch => s.patch["name"] # NoText

\* One update of the fields of the patch.
Patched(row, s, i) ==
  [texts |-> [f \in Fields |-> IF f \in DOMAIN s.patch THEN s.patch[f] ELSE row.texts[f]],
   picture |-> IF s.photo THEN i ELSE row.picture]
Updates(i) ==
  /\ saves[i].step = "patch" /\ Valid(saves[i])
  /\ profile' = Patched(profile, saves[i], i) /\ To(i, "read")
  /\ UNCHANGED <<photos, user, form, approval, edits, elsewhere, approvals>>

\* Without a photo the fields come as a form, with one as JSON with its key.
patchMeMultipartBody(i) == ~saves[i].photo /\ Updates(i)
patchMeJsonBody(i) == saves[i].photo /\ Updates(i)

\* The row is read again for the answer.
ReadProfile(i) ==
  /\ saves[i].step = "read"
  /\ saves' = [saves EXCEPT ![i].step = "answer", ![i].answer = profile]
  /\ UNCHANGED <<profile, photos, user, form, approval, edits, elsewhere, approvals>>

\* setUser, and on the page that submitted the end of its submission.
ProfileSaved(i) ==
  /\ saves[i].step = "answer" /\ Ended(i)
  /\ user' = saves[i].answer
  /\ form' = Filled(saves[i].answer,
                    IF form.open /\ form.page = saves[i].page
                    THEN [form EXCEPT !.submitting = FALSE, !.photo = FALSE] ELSE form)
  /\ approval' = [approval EXCEPT !.same = FALSE]
  /\ UNCHANGED <<profile, photos, edits, elsewhere, approvals>>

\* A refusal, a failure of storage, or an answer that was lost.
SaveFails(i) ==
  /\ saves[i].step # "over" /\ Ended(i)
  /\ photos' \in {photos} \cup IF saves[i].step = "put" THEN {photos \cup {i}} ELSE {}
  /\ form' = IF form.page = saves[i].page THEN [form EXCEPT !.submitting = FALSE] ELSE form
  /\ UNCHANGED <<profile, user, approval, edits, elsewhere, approvals>>

\* The other browser of the account saves one field.
SavedElsewhere(f, t) ==
  /\ elsewhere < MaxElsewhere /\ elsewhere' = elsewhere + 1
  /\ t # profile.texts[f] /\ (f = "name" => t # NoText)
  /\ profile' = [profile EXCEPT !.texts[f] = t]
  /\ UNCHANGED <<photos, user, form, saves, approval, edits, approvals>>

-----------------------------------------------------------------------------
(* The approval of a device refreshes the session with the user it keeps.  *)

ApproveStarts ==
  /\ ~form.open /\ approval.step = "idle" /\ approvals < MaxApprovals
  /\ approvals' = approvals + 1
  /\ approval' = [step |-> "refreshing", user |-> user, same |-> TRUE]
  /\ UNCHANGED <<profile, photos, user, form, saves, edits, elsewhere>>

ApproveRefreshed ==
  /\ approval.step = "refreshing"
  /\ approval' = [step |-> "idle", user |-> Nobody, same |-> FALSE]
  /\ user' = approval.user
  /\ form' = IF approval.same THEN form ELSE Filled(approval.user, form)
  /\ UNCHANGED <<profile, photos, saves, edits, elsewhere, approvals>>

ProfileNext ==
  \/ OpenSettings \/ LeaveSettings \/ ChoosePhoto \/ DiscardPhoto \/ SubmitProfile
  \/ \E f \in Fields, t \in Texts : TypeField(f, t) \/ SavedElsewhere(f, t)
  \/ \E i \in DOMAIN saves : \/ PresignAvatar(i) \/ PutAvatar(i)
                             \/ patchMeMultipartBody(i) \/ patchMeJsonBody(i) \/ ReadProfile(i)
                             \/ ProfileSaved(i) \/ SaveFails(i)
  \/ ApproveStarts \/ ApproveRefreshed

ProfileSpec == ProfileInit /\ [][ProfileNext]_profileVars

-----------------------------------------------------------------------------
(* Properties.                                                             *)

\* A save writes no field its page has not typed since the page was filled, so
\* it never takes back what another browser saved; and the picture of the row is
\* in storage, whatever failed on the way.
SavesOnlyEdits ==
  /\ \A i \in DOMAIN saves : DOMAIN saves[i].patch \subseteq saves[i].typed
  /\ profile.picture # 0 => profile.picture \in photos /\ saves[profile.picture].photo
=============================================================================
