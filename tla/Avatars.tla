------------------------------- MODULE Avatars -------------------------------
(***************************************************************************)
(* Avatars: the column users.avatar, the files under ./uploads/avatars and *)
(* the two handlers that write them.  An upload reads the row, writes a    *)
(* file, updates the row and removes the file the row named when it was    *)
(* read; nothing makes these steps one, neither for two uploads of a user  *)
(* nor for an upload and a profile update, which stores whatever avatar    *)
(* the client sends, another user's as well, nor for an upload and a view  *)
(* of the file it removes.                                                 *)
(***************************************************************************)
EXTENDS Integers, FiniteSets

CONSTANTS
  Users,
  Files,    \* names that generateSecureFilename may return
  Reqs,     \* request goroutines that may run at the same time
  Ops,      \* what clients ask for, of "upload", "profile" and "view"
  Faults,   \* what may go wrong: a subset of FaultKinds
  NoFile,   \* no avatar (NULL)
  Foreign   \* an avatar URL that names no file of this server

FaultKinds ==
  { "failed",   \* a statement fails and has no effect
    "unsure",   \* a statement takes effect and its caller gets an error
    "disk",     \* a file cannot be created, written or removed
    "crash" }   \* the process dies

ASSUME AvatarAssumption ==
  /\ NoFile \notin Files /\ Foreign \notin Files /\ NoFile # Foreign
  /\ "nobody" \notin Users
  /\ Ops \subseteq {"upload", "profile", "view"}
  /\ Faults \subseteq FaultKinds

VARIABLES
  avatar,   \* the column users.avatar
  files,    \* the directory: what is under each name
  known,    \* files that some client has been told of
  source,   \* history: what wrote the avatar of a user last
  claimed,  \* history: avatars that an upload of another user has set out to replace
  excused,  \* history: users for whom something has happened that may leave a file behind
  req       \* the local state of every request

vars == <<avatar, files, known, source, claimed, excused, req>>

-----------------------------------------------------------------------------
Avatar == Files \cup {NoFile, Foreign}

Idle == [op |-> "none", pc |-> "idle", user |-> "nobody", old |-> NoFile, new |-> NoFile, status |-> 0]
Request == [op : {"none", "upload", "profile", "view"},
            pc : {"idle", "read", "create", "copy", "update", "undo", "delete", "stat", "send", "done"},
            user : Users \cup {"nobody"}, old : Avatar, new : Avatar,
            status : {0, 200, 404, 422, 500}]

\* What the directory holds after the removal of an avatar: DeleteAvatar ignores
\* an avatar that names no file.
Removed(f) == [g \in Files |-> IF g = f THEN "absent" ELSE files[g]]

FreeFilesAny == Files   \* mutant: names are not random, and files get overwritten
\* A random name is new: nothing and nobody mentions it yet.
FreeFiles == {f \in Files : /\ files[f] = "absent" /\ f \notin known
                            /\ \A u \in Users : avatar[u] # f
                            /\ \A r \in Reqs : f \notin {req[r].old, req[r].new}}

Uploading(u) == \E r \in Reqs : req[r].op = "upload" /\ req[r].user = u /\ req[r].pc # "done"

At(r, op, pc) == req[r].op = op /\ req[r].pc = pc
Goto(r, pc) == req' = [req EXCEPT ![r] = [@ EXCEPT !.pc = pc]]
Finish(r, status) == req' = [req EXCEPT ![r] = [[@ EXCEPT !.pc = "done"] EXCEPT !.status = status]]

-----------------------------------------------------------------------------
(* Upload *)

UploadStart(r, u) ==
  /\ "upload" \in Ops /\ req[r] = Idle
  /\ req' = [req EXCEPT ![r] = [Idle EXCEPT !.op = "upload", !.pc = "read", !.user = u]]
  /\ excused' = IF Uploading(u) THEN excused \cup {u} ELSE excused
  /\ UNCHANGED <<avatar, files, known, source, claimed>>

\* An avatar that a user has uploaded and that the row of another names as well.
Shared(u) == {avatar[v] : v \in {w \in Users \ {u} : source[w] = "upload"}} \cap {avatar[u]}

\* GetByID: the avatar to remove later is the one of now, whoever uploaded it.
UploadRead(r) ==
  /\ At(r, "upload", "read")
  /\ \/ /\ req' = [req EXCEPT ![r] = [[@ EXCEPT !.pc = "create"] EXCEPT !.old = avatar[req[r].user]]]
        /\ claimed' = claimed \cup Shared(req[r].user)
     \/ /\ "failed" \in Faults
        /\ Finish(r, 404)
        /\ UNCHANGED claimed
  /\ UNCHANGED <<avatar, files, known, source, excused>>

\* AvatarUploader.UploadAvatar refuses what is too large or no image, and
\* otherwise opens a file under a name of its own.
UploadCreate(r) ==
  /\ At(r, "upload", "create")
  /\ \/ \E f \in FreeFiles :
          /\ files' = [files EXCEPT ![f] = "partial"]
          /\ req' = [req EXCEPT ![r] = [[@ EXCEPT !.pc = "copy"] EXCEPT !.new = f]]
     \/ /\ Finish(r, 422)
        /\ UNCHANGED files
  /\ UNCHANGED <<avatar, known, source, claimed, excused>>

AfterFailedCopyGoOn(q) == [q EXCEPT !.pc = "update"]   \* mutant: the error of io.Copy is ignored
AfterFailedCopy(q) == [[q EXCEPT !.pc = "done"] EXCEPT !.status = 422]

\* io.Copy: a file that could not be written is removed again, if possible.
UploadCopy(r) ==
  /\ At(r, "upload", "copy")
  /\ \/ /\ files' = [files EXCEPT ![req[r].new] = "complete"]
        /\ Goto(r, "update")
        /\ UNCHANGED excused
     \/ /\ "disk" \in Faults
        /\ files' = Removed(req[r].new)
        /\ req' = [req EXCEPT ![r] = AfterFailedCopy(@)]
        /\ UNCHANGED excused
     \/ /\ "disk" \in Faults
        /\ excused' = excused \cup {req[r].user}
        /\ req' = [req EXCEPT ![r] = AfterFailedCopy(@)]
        /\ UNCHANGED files
  /\ UNCHANGED <<avatar, known, source, claimed>>

AfterFailedUpdateKeep(q) ==   \* mutant: the new file is not removed
  [[q EXCEPT !.pc = "done"] EXCEPT !.status = 500]
AfterFailedUpdate(q) == [q EXCEPT !.pc = "undo"]

\* UpdateAvatar.  After an error the new file is removed, also when the row
\* names it by now.
UploadUpdate(r) ==
  /\ At(r, "upload", "update")
  /\ LET u == req[r].user
     IN \/ /\ avatar' = [avatar EXCEPT ![u] = req[r].new]
           /\ source' = [source EXCEPT ![u] = "upload"]
           /\ Goto(r, "delete")
           /\ UNCHANGED excused
        \/ /\ "unsure" \in Faults
           /\ avatar' = [avatar EXCEPT ![u] = req[r].new]
           /\ source' = [source EXCEPT ![u] = "unsure"]
           /\ excused' = excused \cup {u}
           /\ req' = [req EXCEPT ![r] = AfterFailedUpdate(@)]
        \/ /\ "failed" \in Faults
           /\ req' = [req EXCEPT ![r] = AfterFailedUpdate(@)]
           /\ UNCHANGED <<avatar, source, excused>>
  /\ UNCHANGED <<files, known, claimed>>

\* The avatar that a request removes at its end.
OutdatedOfNow(r) ==   \* mutant: the row is read at the end, not at the start
  IF req[r].pc = "undo" THEN req[r].new ELSE avatar[req[r].user]
Outdated(r) == IF req[r].pc = "undo" THEN req[r].new ELSE req[r].old

\* DeleteAvatar, of the new file after an error and of the old one otherwise.
\* Its own errors are ignored.
UploadDelete(r) ==
  /\ \/ At(r, "upload", "undo") /\ Finish(r, 500)
     \/ At(r, "upload", "delete") /\ Finish(r, 200)
  /\ \/ files' = Removed(Outdated(r)) /\ UNCHANGED excused
     \/ "disk" \in Faults /\ excused' = excused \cup {req[r].user} /\ UNCHANGED files
  /\ UNCHANGED <<avatar, known, source, claimed>>

-----------------------------------------------------------------------------
(* Profile *)

\* PUT /profile: any string at all, which nobody compares with the avatars there
\* are.  A name is 16 random bytes, so a file is named by who has been told of it.
ProfileStart(r, u) ==
  /\ "profile" \in Ops /\ req[r] = Idle
  /\ \E a \in known \cup {NoFile, Foreign} :
       req' = [req EXCEPT ![r] = [Idle EXCEPT !.op = "profile", !.pc = "update", !.user = u, !.new = a]]
  /\ UNCHANGED <<avatar, files, known, source, claimed, excused>>

ProfileUpdate(r) ==
  /\ At(r, "profile", "update")
  /\ \/ /\ \/ Finish(r, 200)
           \/ "unsure" \in Faults /\ Finish(r, 500)
        /\ avatar' = [avatar EXCEPT ![req[r].user] = req[r].new]
        /\ source' = [source EXCEPT ![req[r].user] = "profile"]
        /\ excused' = excused \cup {req[r].user}
     \/ /\ "failed" \in Faults
        /\ Finish(r, 500)
        /\ UNCHANGED <<avatar, source, excused>>
  /\ UNCHANGED <<files, known, claimed>>

-----------------------------------------------------------------------------
(* Static files *)

\* GET /uploads/avatars/<name>: anybody who knows a name may ask for it, and
\* SecureStaticHandler refuses a name it never made up (which changes nothing).
ViewStart(r) ==
  /\ "view" \in Ops /\ req[r] = Idle
  /\ \E f \in known :
       req' = [req EXCEPT ![r] = [Idle EXCEPT !.op = "view", !.pc = "stat", !.new = f]]
  /\ UNCHANGED <<avatar, files, known, source, claimed, excused>>

\* os.Stat
ViewStat(r) ==
  /\ At(r, "view", "stat")
  /\ \/ files[req[r].new] # "absent" /\ Goto(r, "send")
     \/ files[req[r].new] = "absent" /\ Finish(r, 404)
     \/ "disk" \in Faults /\ Finish(r, 500)
  /\ UNCHANGED <<avatar, files, known, source, claimed, excused>>

\* SendFile: the file may have gone since.
ViewSend(r) ==
  /\ At(r, "view", "send")
  /\ Finish(r, IF files[req[r].new] = "absent" THEN 404 ELSE 200)
  /\ UNCHANGED <<avatar, files, known, source, claimed, excused>>

-----------------------------------------------------------------------------
(* Responses and the environment *)

Reply(r) ==
  /\ req[r].pc = "done"
  /\ req' = [req EXCEPT ![r] = Idle]
  /\ known' = IF req[r].op = "upload" /\ req[r].status = 200
              THEN known \cup {req[r].new} ELSE known
  /\ UNCHANGED <<avatar, files, source, claimed, excused>>

\* GET /profile, or the list of users that an administrator reads.
GetProfile(u) ==
  /\ known' = known \cup ({avatar[u]} \cap Files)
  /\ UNCHANGED <<avatar, files, source, claimed, excused, req>>

Crash ==
  /\ "crash" \in Faults
  /\ \E r \in Reqs : req[r] # Idle
  /\ req' = [r \in Reqs |-> Idle]
  /\ excused' = excused \cup {req[r].user : r \in {p \in Reqs : req[p].op = "upload"}}
  /\ UNCHANGED <<avatar, files, known, source, claimed>>

-----------------------------------------------------------------------------
Init ==
  /\ avatar = [u \in Users |-> NoFile]
  /\ files = [f \in Files |-> "absent"]
  /\ known = {}
  /\ source = [u \in Users |-> "none"]
  /\ claimed = {}
  /\ excused = {}
  /\ req = [r \in Reqs |-> Idle]

Next ==
  \/ \E r \in Reqs :
       \/ \E u \in Users : UploadStart(r, u) \/ ProfileStart(r, u)
       \/ UploadRead(r) \/ UploadCreate(r) \/ UploadCopy(r) \/ UploadUpdate(r) \/ UploadDelete(r)
       \/ ProfileUpdate(r) \/ ViewStart(r) \/ ViewStat(r) \/ ViewSend(r) \/ Reply(r)
  \/ \E u \in Users : GetProfile(u)
  \/ Crash

Spec == Init /\ [][Next]_vars
-----------------------------------------------------------------------------
(* Properties *)

\* Every variable holds what the table, the directory and the handlers can hold,
\* and a request has the file that it writes to itself.
TypeOK ==
  /\ avatar \in [Users -> Avatar]
  /\ files \in [Files -> {"absent", "partial", "complete"}]
  /\ known \subseteq Files
  /\ source \in [Users -> {"none", "upload", "profile", "unsure"}]
  /\ claimed \subseteq Files
  /\ excused \subseteq Users
  /\ req \in [Reqs -> Request]
  /\ \A r \in Reqs : /\ At(r, "upload", "copy") => files[req[r].new] = "partial"
                     /\ At(r, "upload", "update") => files[req[r].new] = "complete"

\* An avatar that an upload has put into the row can be served: its file is
\* there and complete, however many uploads, profile updates, failures and
\* crashes are interleaved - with one exception.  PUT /profile stores the avatar
\* of another user as well, and when the user who has sent it uploads, the file
\* is removed for both; so an avatar is excepted from the moment that an upload
\* of somebody else reads it as the one to replace.  (An avatar that a client has
\* sent back may be gone, and so may one whose update was reported as failed.)
AvatarServed ==
  \A u \in Users : source[u] = "upload" /\ avatar[u] \notin claimed => files[avatar[u]] = "complete"

\* Nobody can look at half an image: a name becomes known only once its file is
\* complete, and a file is never written again under a name that is known.
ViewedIsWhole ==
  \A r \in Reqs : req[r].op = "view" => files[req[r].new] # "partial"

\* A file is in somebody's row or in the hands of a running upload - or its user
\* has had two uploads at once, a profile update, a crash, an error of the file
\* system or an update of unknown outcome.  A statement or a copy that merely
\* fails leaves no file behind.
Kept(f) == \/ \E u \in Users : avatar[u] = f
           \/ \E r \in Reqs : req[r].pc \in {"copy", "update", "undo"} /\ req[r].new = f
           \/ \E r \in Reqs : req[r].pc = "delete" /\ f \in {req[r].new, req[r].old}
LeaksHaveACause ==
  excused = {} => \A f \in Files : files[f] # "absent" => Kept(f)
=============================================================================
