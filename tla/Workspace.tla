----------------------------- MODULE Workspace -----------------------------
(***************************************************************************)
(* One workspace directory of the library facade (facade.py): prepare()    *)
(* creates and fills it, and discard() removes it (context_trust.py, the   *)
(* descriptor-relative branch).                                            *)
(*                                                                         *)
(* discard() works by name only up to a point: it opens the directory,     *)
(* checks its owner marker, renames it to a quarantine name, checks that   *)
(* what it renamed is what it has open, empties the open directory and     *)
(* removes the name.  Several discards may run at once, calls die, the     *)
(* system may refuse any call of theirs, and other processes rename        *)
(* entries of the parent directory meanwhile.                              *)
(*                                                                         *)
(* Data abstraction: a directory is a model value and its identity is      *)
(* itself; a context is genuine (a changed one is refused before anything  *)
(* is read), so the one question is which directory holds its marker.  A   *)
(* symbolic link or a file at a name is refused as a foreign directory is. *)
(***************************************************************************)
EXTENDS Naturals, FiniteSets

CONSTANTS
    Own,        \* the directory prepare() creates
    Decoys,     \* other directories that can come to stand at a name
    Discards,   \* calls of discard() with the context
    Home,       \* the name of the workspace
    Absent,     \* no such directory entry, no open directory
    MaxMoves    \* bound: renames by other processes

ASSUME WorkspaceAssumption ==
    /\ Own \notin Decoys
    /\ Home \notin Discards
    /\ Absent \notin Decoys \cup {Own}
    /\ MaxMoves \in Nat

Dirs == {Own} \cup Decoys
Names == {Home} \cup Discards  \* a discard's quarantine name is the discard
Artifacts == {"manifest", "prompt", "route"}
Whole == Artifacts \cup {"marker"}

VARIABLES
    at,         \* the directory at each name
    files,      \* the entries of each directory
    gone,       \* the directories that have been removed
    prep,       \* the next step of prepare()
    pc,         \* the next step of each discard
    fd,         \* the directory each discard holds open
    moves,      \* history: renames by other processes, for MaxMoves
    displaced,  \* history: another process has renamed the workspace
    failed      \* history: what the system has refused, to verify or to remove

disk == <<at, files, gone>>
others == <<moves, displaced, failed>>
vars == <<at, files, gone, prep, pc, fd, moves, displaced, failed>>

PrepareSteps ==
    {"create", "manifest", "prompt", "route", "marker", "ready",
     "remove", "refused", "raised", "dead"}
BeforeDetach == {"idle", "secret", "open", "marker", "detach"}
Refusing == {"refuse", "put_back"}
Emptying == {"unlink", "check", "rmdir"}
Ended == {"done", "refused", "dead"}
DiscardSteps == BeforeDetach \cup {"identity", "recheck"} \cup Refusing \cup Emptying \cup Ended

(* No directory has two names, a removed one has none and is empty, and a    *)
(* discard past its checks holds the workspace open.                         *)
TypeOK ==
    /\ at \in [Names -> Dirs \cup {Absent}]
    /\ \A m, n \in Names : at[m] = at[n] /\ at[m] # Absent => m = n
    /\ files \in [Dirs -> SUBSET (Whole \cup {"other"})]
    /\ gone \subseteq Dirs
    /\ \A o \in gone : files[o] = {} /\ \A n \in Names : at[n] # o
    /\ prep \in PrepareSteps
    /\ pc \in [Discards -> DiscardSteps]
    /\ fd \in [Discards -> Dirs \cup {Absent}]
    /\ \A d \in Discards :
           pc[d] \in {"detach", "identity", "recheck"} \cup Emptying => fd[d] = Own
    /\ moves \in 0 .. MaxMoves
    /\ displaced \in BOOLEAN
    /\ failed \subseteq {"verify", "remove"}

(* Nothing is prepared; the other directories are elsewhere, some empty. *)
Init ==
    /\ at = [n \in Names |-> Absent]
    /\ files \in {f \in [Dirs -> {{}, {"other"}}] : f[Own] = {}}
    /\ gone = {}
    /\ prep = "create"
    /\ pc = [d \in Discards |-> "idle"]
    /\ fd = [d \in Discards |-> Absent]
    /\ moves = 0
    /\ displaced = FALSE
    /\ failed = {}

Goto(d, s) == pc' = [pc EXCEPT ![d] = s]
Is(d, s) == pc[d] = s

(* os.rename() of name m to the free name n. *)
RenameTo(m, n) == at' = [at EXCEPT ![n] = at[m], ![m] = Absent]

-----------------------------------------------------------------------------
(* prepare(): the workspace has a fresh name, which nobody else knows yet *)

Create ==
    /\ prep = "create"
    /\ at' = [at EXCEPT ![Home] = Own]
    /\ prep' = "manifest"
    /\ UNCHANGED <<files, gone, pc, fd, others>>

(* The three artifacts in the order of prepare_pipeline(), then the marker,   *)
(* with which the context can be returned.                                   *)
After == [manifest |-> "prompt", prompt |-> "route", route |-> "marker", marker |-> "ready"]

Write ==
    /\ prep \in DOMAIN After
    /\ files' = [files EXCEPT ![Own] = @ \cup {prep}]
    /\ prep' = After[prep]
    /\ UNCHANGED <<at, gone, pc, fd, others>>

(* A configuration error, an OSError or a status other than OK. *)
GiveUp ==
    /\ prep \in DOMAIN After
    /\ prep' = "remove"
    /\ UNCHANGED <<disk, pc, fd, others>>

(* Any other exception passes through: prompt.txt is encoded after           *)
(* manifest.json has been published, and a text with an unpaired surrogate   *)
(* has no encoding.                                                          *)
Raise ==
    /\ prep = "prompt"
    /\ prep' = "raised"
    /\ UNCHANGED <<disk, pc, fd, others>>

(* _remove_workspace(): entry by entry, then the directory, ... *)
RemoveWorkspace ==
    /\ prep = "remove"
    /\ IF files[Own] # {}
       THEN /\ \E f \in files[Own] : files' = [files EXCEPT ![Own] = @ \ {f}]
            /\ UNCHANGED <<at, gone, prep>>
       ELSE /\ at' = [at EXCEPT ![Home] = Absent]
            /\ gone' = gone \cup {Own}
            /\ prep' = "refused"
            /\ UNCHANGED files
    /\ UNCHANGED <<pc, fd, others>>

(* ... and without an error when the system refuses the rest. *)
RemoveFails ==
    /\ prep = "remove"
    /\ prep' = "refused"
    /\ failed' = failed \cup {"remove"}
    /\ UNCHANGED <<disk, pc, fd, moves, displaced>>

PrepareDies ==
    /\ prep \in DOMAIN After \cup {"remove"}
    /\ prep' = "dead"
    /\ UNCHANGED <<disk, pc, fd, others>>

-----------------------------------------------------------------------------
(* discard() *)

(* _validated_workspace(): no such name, nothing to do. *)
Look(d) ==
    /\ Is(d, "idle") /\ prep = "ready"
    /\ Goto(d, IF at[Home] = Absent THEN "done" ELSE "secret")
    /\ UNCHANGED <<disk, prep, fd, others>>

(* read_owner_secret() by name, and the signature of the context under it.    *)
ReadSecret(d) ==
    /\ Is(d, "secret")
    /\ Goto(d, IF at[Home] # Absent /\ "marker" \in files[at[Home]] THEN "open" ELSE "refused")
    /\ UNCHANGED <<disk, prep, fd, others>>

Open(d) ==
    /\ Is(d, "open")
    /\ fd' = [fd EXCEPT ![d] = at[Home]]
    /\ Goto(d, IF at[Home] = Absent THEN "refused" ELSE "marker")
    /\ UNCHANGED <<disk, prep, others>>

(* Mutant: the directory is emptied before it is renamed. *)
UnlinkInPlace(d) ==
    /\ Is(d, "marker")
    /\ Goto(d, IF "marker" \in files[fd[d]] THEN "unlink" ELSE "refused")
    /\ UNCHANGED <<disk, prep, fd, others>>

(* _require_marker(), relative to the open directory. *)
RequireMarker(d) ==
    /\ Is(d, "marker")
    /\ Goto(d, IF "marker" \in files[fd[d]] THEN "detach" ELSE "refused")
    /\ UNCHANGED <<disk, prep, fd, others>>

(* _detach_pinned(): the quarantine name is fresh. *)
Detach(d) ==
    /\ Is(d, "detach")
    /\ IF at[Home] = Absent
       THEN Goto(d, "refused") /\ UNCHANGED at
       ELSE Goto(d, "identity") /\ RenameTo(Home, d)
    /\ UNCHANGED <<files, gone, prep, fd, others>>

CheckIdentity(d) ==
    /\ Is(d, "identity")
    /\ Goto(d, IF at[d] = fd[d] THEN "recheck" ELSE "refuse")
    /\ UNCHANGED <<disk, prep, fd, others>>

RequireMarkerAgain(d) ==
    /\ Is(d, "recheck")
    /\ Goto(d, IF "marker" \in files[fd[d]] THEN "unlink" ELSE "refuse")
    /\ UNCHANGED <<disk, prep, fd, others>>

(* _restore_pinned_quietly(): look whether the name is free, ... *)
LookHome(d) ==
    /\ Is(d, "refuse")
    /\ Goto(d, IF at[Home] = Absent THEN "put_back" ELSE "refused")
    /\ UNCHANGED <<disk, prep, fd, others>>

(* ... and rename, which replaces an empty directory and fails otherwise. *)
PutBack(d) ==
    /\ Is(d, "put_back")
    /\ IF at[d] = Absent \/ (at[Home] # Absent /\ files[at[Home]] # {})
       THEN UNCHANGED <<at, gone>>
       ELSE RenameTo(d, Home) /\ gone' = gone \cup ({at[Home]} \ {Absent})
    /\ Goto(d, "refused")
    /\ UNCHANGED <<files, prep, fd, others>>

(* Mutant: the tree to remove is found by the quarantine name. *)
UnlinkByName(d) ==
    /\ Is(d, "unlink")
    /\ IF at[d] # Absent /\ files[at[d]] # {}
       THEN /\ \E f \in files[at[d]] : files' = [files EXCEPT ![at[d]] = @ \ {f}]
            /\ UNCHANGED pc
       ELSE Goto(d, "check") /\ UNCHANGED files
    /\ UNCHANGED <<at, gone, prep, fd, others>>

(* Mutant: the directory is taken for empty after the first entry. *)
UnlinkOne(d) ==
    /\ Is(d, "unlink")
    /\ \E f \in files[fd[d]] : files' = [files EXCEPT ![fd[d]] = @ \ {f}]
    /\ Goto(d, "check")
    /\ UNCHANGED <<at, gone, prep, fd, others>>

(* _unlink_tree_pinned(): the entries of the open directory one by one. *)
Unlink(d) ==
    /\ Is(d, "unlink")
    /\ IF files[fd[d]] # {}
       THEN /\ \E f \in files[fd[d]] : files' = [files EXCEPT ![fd[d]] = @ \ {f}]
            /\ UNCHANGED pc
       ELSE Goto(d, "check") /\ UNCHANGED files
    /\ UNCHANGED <<at, gone, prep, fd, others>>

(* Mutant: the name checked is the one the workspace had. *)
CheckHome(d) ==
    /\ Is(d, "check")
    /\ Goto(d, IF at[Home] = fd[d] THEN "rmdir" ELSE "done")
    /\ UNCHANGED <<disk, prep, fd, others>>

(* _rmdir_verified(): look whose the quarantine name is, ... *)
CheckQuarantine(d) ==
    /\ Is(d, "check")
    /\ Goto(d, IF at[d] = fd[d] THEN "rmdir" ELSE "done")
    /\ UNCHANGED <<disk, prep, fd, others>>

(* ... and rmdir, which refuses a directory that is not empty. *)
Rmdir(d) ==
    /\ Is(d, "rmdir")
    /\ IF at[d] # Absent /\ files[at[d]] = {}
       THEN gone' = gone \cup {at[d]} /\ at' = [at EXCEPT ![d] = Absent]
       ELSE UNCHANGED <<at, gone>>
    /\ Goto(d, "done")
    /\ UNCHANGED <<files, prep, fd, others>>

(* Where a discard goes on when the system refuses the call of its step: it   *)
(* passes over an entry it cannot remove (a scan that fails raises), keeps a *)
(* name it cannot remove, and takes a path it cannot look up for absent.     *)
OnFailure ==
    [idle |-> {"done"}, secret |-> {"refused"}, open |-> {"refused"}, marker |-> {"refused"},
     detach |-> {"refused"}, identity |-> {"refuse"}, recheck |-> {"refuse"},
     refuse |-> {"put_back"}, put_back |-> {"refused"},
     unlink |-> {"check", "refused"}, check |-> {"done"}, rmdir |-> {"done"}]

SystemFails(d) ==
    /\ prep = "ready" /\ pc[d] \in DOMAIN OnFailure
    /\ \E s \in OnFailure[pc[d]] : Goto(d, s)
    /\ failed' = failed \cup {IF pc[d] \in Emptying THEN "remove" ELSE "verify"}
    /\ UNCHANGED <<disk, prep, fd, moves, displaced>>

DiscardDies(d) ==
    /\ pc[d] \notin Ended \cup {"idle"}
    /\ Goto(d, "dead")
    /\ UNCHANGED <<disk, prep, fd, others>>

-----------------------------------------------------------------------------
(* Other processes rename what stands at a name away, or another directory   *)
(* to a free name they can know.                                             *)
Move == prep = "ready" /\ moves < MaxMoves /\ moves' = moves + 1

TakeAway(n) ==
    /\ at[n] # Absent
    /\ Move
    /\ at' = [at EXCEPT ![n] = Absent]
    /\ displaced' = (displaced \/ at[n] = Own)
    /\ UNCHANGED <<files, gone, prep, pc, fd, failed>>

Known == {Home} \cup {d \in Discards : pc[d] \notin BeforeDetach}

PutAt(o, n) ==
    /\ at[n] = Absent /\ n \in Known
    /\ o \notin gone /\ \A m \in Names : at[m] # o
    /\ Move
    /\ at' = [at EXCEPT ![n] = o]
    /\ UNCHANGED <<files, gone, prep, pc, fd, displaced, failed>>

-----------------------------------------------------------------------------
Prepare == Create \/ Write \/ GiveUp \/ Raise \/ RemoveWorkspace \/ RemoveFails \/ PrepareDies

Discard(d) ==
    \/ Look(d) \/ ReadSecret(d) \/ Open(d) \/ RequireMarker(d) \/ Detach(d)
    \/ CheckIdentity(d) \/ RequireMarkerAgain(d) \/ LookHome(d) \/ PutBack(d)
    \/ Unlink(d) \/ CheckQuarantine(d) \/ Rmdir(d)

Next ==
    \/ Prepare
    \/ \E d \in Discards : Discard(d) \/ SystemFails(d) \/ DiscardDies(d)
    \/ \E n \in Names : TakeAway(n) \/ \E o \in Dirs : PutAt(o, n)

Spec == Init /\ [][Next]_vars

(* A call of discard() runs on unless it dies. *)
FairSpec == Spec /\ \A d \in Discards : WF_vars(~Is(d, "idle") /\ Discard(d))

-----------------------------------------------------------------------------
(* Properties *)

(* Whatever is renamed under them, discards remove no entry of a directory   *)
(* they have not verified, and no such directory that has entries (ADR-34    *)
(* with issue #52: an unverified tree that is not empty is not removed).     *)
OnlyOwnEmptied ==
    [][\A o \in Decoys : files'[o] = files[o] /\ (files[o] # {} => o \notin gone')]_vars

(* Under its own name the workspace is complete or not there at all, also    *)
(* after a crash of a discard, so that a restore meets no part of it; unless *)
(* another process has renamed the workspace itself.                         *)
WholeOrAway ==
    prep = "ready" /\ at[Home] = Own /\ ~displaced => files[Own] = Whole

(* Concurrent discards do not refuse each other into leaving the workspace:  *)
(* once all have ended it no longer has its name and is removed, unless one  *)
(* died or another process renamed something.  What the system refused to    *)
(* remove may be left, but only away from the name; only a check the system  *)
(* refused leaves the workspace where it was.                                *)
SomeDiscardWins ==
    (prep = "ready" /\ moves = 0 /\ \A d \in Discards : pc[d] \in {"done", "refused"})
        => \/ Discards = {} \/ "verify" \in failed
           \/ at[Home] # Own /\ ("remove" \in failed \/ Own \in gone)

(* A discard that reports success is the end of the artifacts, even if it    *)
(* found nothing to do because another discard had begun; with the same      *)
(* exceptions.  In particular success does not say that they are deleted:    *)
(* the removal is best effort, and what is left has lost its name only.      *)
DiscardedIsGone ==
    \A d \in Discards :
        Is(d, "done") ~> \/ files[Own] = {} \/ "verify" \in failed
                         \/ at[Home] # Own /\ "remove" \in failed
                         \/ moves > 0 \/ \E e \in Discards : pc[e] = "dead"

(* "On a refusal the working subdirectory does not stay on the disk"         *)
(* (tests/test_facade_prepare.py:143): a prepare() that ended with an        *)
(* exception, did not die and could remove, leaves no workspace.             *)
FailedLeavesNothing ==
    prep \in {"refused", "raised"} => Own \in gone \/ "remove" \in failed
=============================================================================
