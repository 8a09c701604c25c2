------------------------------ MODULE Gateway ------------------------------
(***************************************************************************)
(* The command line's prepare, restore and key rotate on one machine: runs *)
(* and restores of an output directory (Artifacts) that take their keys    *)
(* from a keyring (Keystore) other processes rotate at the same time.      *)
(*                                                                         *)
(* prepare reads the active key once, before it publishes anything; a      *)
(* restore calls get_all_keys() after it has verified the manifest, and    *)
(* that call is two keyring reads.                                         *)
(***************************************************************************)
EXTENDS Naturals, FiniteSets, Sequences

CONSTANTS
    Keys, Writers, NoKey, Commands, Lossy,              \* see Keystore
    Runs, Restores, Tokens, TokensOf, Overwriters,      \* see Artifacts
    Fallible, Absent, Plain

VARIABLES
    active, retired, kpc, cur, new, prev, found, used, replaced, stable,
    manifest, prompt, route, pc, key, sum, overlapped, at, resp, seen, left, got,
    age  \* history: generations of keys since a run read the active one

KS == INSTANCE Keystore WITH Readers <- Restores, pc <- kpc, keys <- found
AR == INSTANCE Artifacts

ASSUME GatewayAssumption == KS!KeystoreAssumption /\ AR!ArtifactsAssumption

keyring == <<active, retired, kpc, cur, new, prev, found, used, replaced, stable>>
directory == <<manifest, prompt, route, pc, key, sum, overlapped, at, resp, seen, left, got>>
vars == <<keyring, directory, age>>

(* A key was created, and the older history of the keyring does not matter.  *)
Init ==
    /\ KS!Init /\ active # NoKey
    /\ AR!Init
    /\ age = [r \in Runs |-> 0]

(* A confirmed rotation ages the runs that have read a key by a generation;  *)
(* deleting the key, or creating another one, ends the history.              *)
Generations(r) ==
    IF pc[r] = "start" \/ active' = active THEN 0
    ELSE IF replaced' = NoKey THEN 2 ELSE 1

Age == age' = [r \in Runs |-> age[r] + Generations(r)]

Rotate(w) ==
    /\ KS!WriterStep(w) /\ KS!Observe
    /\ Age
    /\ UNCHANGED directory

(* _cmd_prepare: get_key(), then prepare_pipeline(). *)
Prepare(r) ==
    /\ \/ active # NoKey /\ AR!Preflight(r, active)
       \/ AR!BlockInput(r) \/ AR!Publish(r) \/ AR!Fail(r)
    /\ UNCHANGED <<keyring, age>>

Restore(q) ==
    /\ AR!RestoreStep(q)
    /\ UNCHANGED <<keyring, age>>

(* restore_text() calls get_all_keys(), *)
ReadKeyring(q) ==
    /\ at[q] = "keys"
    /\ KS!ReadActive(q) \/ KS!ReadRetired(q)
    /\ KS!Observe
    /\ UNCHANGED <<directory, age>>

(* which returns the keys or raises KeyNotFoundError. *)
GetKeys(q) ==
    /\ \/ kpc[q] = "done" /\ AR!GetKeys(q, found[q])
       \/ kpc[q] = "idle" /\ active = NoKey /\ AR!GetKeys(q, <<>>)
    /\ UNCHANGED <<keyring, age>>

Next ==
    \/ \E w \in Writers : Rotate(w)
    \/ \E r \in Runs : Prepare(r)
    \/ \E q \in Restores : Restore(q) \/ ReadKeyring(q) \/ GetKeys(q)

Spec == Init /\ [][Next]_vars

-----------------------------------------------------------------------------
(* Properties *)

(* Manifests prepared before a rotation stay readable without anyone's help  *)
(* (ADR-23, ADR-46, restore.py:173): an answer to a prompt prepared without  *)
(* --overwrite is refused for its manifest or for want of a key only after   *)
(* two rotations, a forced creation or a deletion since the prompt's run     *)
(* read its key.  Crashed and repeated rotations, the key read early and the *)
(* manifest published late, and changes between the two keyring reads of the *)
(* restore are all in.                                                       *)
AnswerIsRestorable ==
    \A q \in Restores :
        at[q] \in {"integrity", "no_key"} => age[resp[q].of] >= 2

(* A restore is refused for want of a key only when the key really went away *)
(* while it ran: whatever is created, deleted and rotated meanwhile, a key   *)
(* readable from its first to its last step opens the manifest.  Without     *)
(* --overwrite; a forced creation counts as the loss of the keys it gives up.*)
OnlyLostKeysRefuse ==
    [][\A q \in Restores :
          at[q] # "no_key" /\ at'[q] = "no_key" => key[resp[q].of] \notin stable[q]]_vars
=============================================================================
