----------------------------- MODULE Keystore ------------------------------
(***************************************************************************)
(* The keystore (keystore.py): two keyring entries, "fernet_key" holding   *)
(* the active key and "fernet_key_retired" holding the list of retired     *)
(* ones, used by processes that share nothing but the keyring.             *)
(*                                                                         *)
(* The keyring offers no lock and no transaction, so every get, set and    *)
(* delete of an entry is a step of its own, and between two of them other  *)
(* processes run, the process dies, or the backend raises (for the keyring *)
(* the last two are the same: the remaining steps do not happen).          *)
(***************************************************************************)
EXTENDS Naturals, FiniteSets, Sequences

CONSTANTS
    Keys,       \* key material generate_key() can return; the bound of a run
    Writers,    \* processes that create, rotate and delete keys
    Readers,    \* processes that call get_all_keys() (restore)
    NoKey,      \* an absent keyring entry
    Commands,   \* which of "rotate", "create", "force", "delete" are issued
    Lossy       \* TRUE: a set of the active entry may be silently ignored

ASSUME KeystoreAssumption ==
    /\ NoKey \notin Keys
    /\ IsFiniteSet(Keys)
    /\ Writers \cap Readers = {}
    /\ Commands \subseteq {"rotate", "create", "force", "delete"}
    /\ Lossy \in BOOLEAN

VARIABLES
    active,     \* the entry fernet_key: a key or NoKey
    retired,    \* the entry fernet_key_retired: a list, <<>> when absent
    pc,         \* the keyring call each process makes next
    cur,        \* rotate_key: current_active
    new,        \* the key a writer has generated
    prev,       \* rotate_key: previous_retired
    keys,       \* get_all_keys: the keys read so far, then the result
    used,       \* history: keys that exist or existed
    replaced,   \* history: the key the last confirmed rotation step replaced
    stable      \* history: keys readable, and not given up by a forced
                \* creation, ever since the reader began

entries == <<active, retired>>
locals  == <<cur, new, prev>>
vars    == <<active, retired, pc, cur, new, prev, keys, used, replaced, stable>>

Procs == Writers \cup Readers
KeyOrNone == Keys \cup {NoKey}

-----------------------------------------------------------------------------
(* Lists of keys *)

RangeOf(s) == {s[i] : i \in DOMAIN s}

(* `bounded[:_MAX_KEYS]` with _MAX_KEYS = 2: the first key of a nonempty     *)
(* list and the first one that differs from it, if any.                      *)
Others(s) == {i \in DOMAIN s : s[i] # s[1]}
FirstOf(S) == CHOOSE i \in S : \A j \in S : i <= j
Bounded(s) ==
    IF Others(s) = {} THEN <<s[1]>> ELSE <<s[1], s[FirstOf(Others(s))]>>

(* The list without key k; a retired list never holds a key twice (see      *)
(* TypeOK), so there is at most one occurrence to drop.                      *)
Without(s, k) ==
    IF k \in RangeOf(s)
    THEN LET i == CHOOSE j \in DOMAIN s : s[j] = k
         IN  SubSeq(s, 1, i - 1) \o SubSeq(s, i + 1, Len(s))
    ELSE s

(* What get_all_keys() would return if nothing moved while it runs. *)
HandedOut(a, ret) == IF a = NoKey THEN <<>> ELSE Bounded(<<a>> \o ret)
Readable == HandedOut(active, retired)

-----------------------------------------------------------------------------
WriterPC ==
    {"idle", "get_retired", "carry", "set_active", "verify", "prune",
     "create_set", "force_set", "create_forget", "delete_retired"}
ReaderPC == {"idle", "get_retired", "done"}

NoRepeats(s) == \A i, j \in DOMAIN s : s[i] = s[j] => i = j

(* Every entry and local is what the code stores there, and the retired list *)
(* holds no key twice, on which the meaning of Without rests.                *)
TypeOK ==
    /\ active \in KeyOrNone
    /\ retired \in Seq(Keys) /\ NoRepeats(retired)
    /\ pc \in [Procs -> WriterPC \cup ReaderPC]
    /\ \A w \in Writers : pc[w] \in WriterPC
    /\ \A r \in Readers : pc[r] \in ReaderPC
    /\ cur \in [Writers -> KeyOrNone]
    /\ new \in [Writers -> KeyOrNone]
    /\ prev \in [Writers -> Seq(Keys)] /\ \A w \in Writers : NoRepeats(prev[w])
    /\ keys \in [Readers -> Seq(Keys)]
    /\ used \subseteq Keys
    /\ replaced \in KeyOrNone
    /\ stable \in [Readers -> SUBSET Keys]

(* An installation without a key, or with one and a retired list: none, one  *)
(* key, or the deep list that versions before the retention bound have left. *)
Init ==
    /\ active \in KeyOrNone
    /\ \E n \in 0 .. 2 : retired \in [1 .. n -> Keys \ {active}]
    /\ NoRepeats(retired)
    /\ active = NoKey => retired = <<>>
    /\ pc = [p \in Procs |-> "idle"]
    /\ cur = [w \in Writers |-> NoKey]
    /\ new = [w \in Writers |-> NoKey]
    /\ prev = [w \in Writers |-> <<>>]
    /\ keys = [r \in Readers |-> <<>>]
    /\ used = (RangeOf(retired) \cup {active}) \ {NoKey}
    /\ replaced = NoKey
    /\ stable = [r \in Readers |-> RangeOf(Readable)]

Goto(p, l) == pc' = [pc EXCEPT ![p] = l]
At(p, l) == pc[p] = l

(* generate_key(): key material that never repeats. *)
Generate(w) ==
    \E k \in Keys \ used :
        /\ new' = [new EXCEPT ![w] = k]
        /\ used' = used \cup {k}

-----------------------------------------------------------------------------
(* rotate_key() *)

(* get_key(); without an active key KeyNotFoundError leaves everything as it *)
(* is, which is no step.                                                     *)
RotateGetActive(w) ==
    /\ "rotate" \in Commands
    /\ At(w, "idle")
    /\ active # NoKey
    /\ cur' = [cur EXCEPT ![w] = active]
    /\ Goto(w, "get_retired")
    /\ UNCHANGED <<entries, new, prev, keys, used, replaced>>

RotateGetRetired(w) ==
    /\ At(w, "get_retired")
    /\ prev' = [prev EXCEPT ![w] = retired]
    /\ Generate(w)
    /\ Goto(w, "carry")
    /\ UNCHANGED <<entries, cur, keys, replaced>>

(* Mutant: the two-step order ADR-46 rejects, without the older history. *)
RotateCarryCurrentOnly(w) ==
    /\ At(w, "carry")
    /\ retired' = <<cur[w]>>
    /\ Goto(w, "set_active")
    /\ UNCHANGED <<active, locals, keys, used, replaced>>

RotateCarry(w) ==
    /\ At(w, "carry")
    /\ retired' = <<cur[w]>> \o Without(prev[w], cur[w])
    /\ Goto(w, "set_active")
    /\ UNCHANGED <<active, locals, keys, used, replaced>>

RotateSetActive(w) ==
    /\ At(w, "set_active")
    /\ \/ /\ active' = new[w]
          /\ replaced' = active
       \/ /\ Lossy
          /\ UNCHANGED <<active, replaced>>
    /\ Goto(w, "verify")
    /\ UNCHANGED <<retired, locals, keys, used>>

(* Mutant: the new active key is not read back. *)
RotateUnverified(w) ==
    /\ At(w, "verify")
    /\ Goto(w, "prune")
    /\ UNCHANGED <<entries, locals, keys, used, replaced>>

(* A mismatch raises KeystoreError, and so does the prune never happen. *)
RotateVerify(w) ==
    /\ At(w, "verify")
    /\ Goto(w, IF active = new[w] THEN "prune" ELSE "idle")
    /\ UNCHANGED <<entries, locals, keys, used, replaced>>

RotatePrune(w) ==
    /\ At(w, "prune")
    /\ retired' = <<cur[w]>>
    /\ Goto(w, "idle")
    /\ UNCHANGED <<active, locals, keys, used, replaced>>

(* create_key(force): without force an existing key raises KeyExistsError. *)
CreateCheck(w) ==
    /\ At(w, "idle")
    /\ \/ /\ "create" \in Commands
          /\ active = NoKey
          /\ Goto(w, "create_set")
       \/ /\ "force" \in Commands
          /\ Goto(w, "force_set")
    /\ Generate(w)
    /\ UNCHANGED <<entries, cur, prev, keys, replaced>>

CreateSet(w) ==
    /\ pc[w] \in {"create_set", "force_set"}
    /\ active' = new[w]
    /\ replaced' = NoKey
    /\ Goto(w, "create_forget")
    /\ UNCHANGED <<retired, locals, keys, used>>

CreateForget(w) ==
    /\ At(w, "create_forget")
    /\ retired' = <<>>
    /\ Goto(w, "idle")
    /\ UNCHANGED <<active, locals, keys, used, replaced>>

(* delete_key(), which the library offers and no command issues. *)
DeleteActive(w) ==
    /\ "delete" \in Commands
    /\ At(w, "idle")
    /\ active' = NoKey
    /\ replaced' = NoKey
    /\ Goto(w, "delete_retired")
    /\ UNCHANGED <<retired, locals, keys, used>>

DeleteRetired(w) ==
    /\ At(w, "delete_retired")
    /\ retired' = <<>>
    /\ Goto(w, "idle")
    /\ UNCHANGED <<active, locals, keys, used, replaced>>

(* The writer dies, or the keyring call it is at raises. *)
Abort(w) ==
    /\ ~ At(w, "idle")
    /\ Goto(w, "idle")
    /\ UNCHANGED <<entries, locals, keys, used, replaced>>

-----------------------------------------------------------------------------
(* get_all_keys() *)

ReadActive(r) ==
    /\ At(r, "idle")
    /\ active # NoKey
    /\ keys' = [keys EXCEPT ![r] = <<active>>]
    /\ Goto(r, "get_retired")
    /\ UNCHANGED <<entries, locals, used, replaced>>

(* Mutant: the bound cuts the active key off a deep retired list. *)
ReadRetiredFirst(r) ==
    /\ At(r, "get_retired")
    /\ keys' = [keys EXCEPT ![r] = Bounded(retired \o keys[r])]
    /\ Goto(r, "done")
    /\ UNCHANGED <<entries, locals, used, replaced>>

ReadRetired(r) ==
    /\ At(r, "get_retired")
    /\ keys' = [keys EXCEPT ![r] = Bounded(keys[r] \o retired)]
    /\ Goto(r, "done")
    /\ UNCHANGED <<entries, locals, used, replaced>>

(* The caller has used the keys, or has failed. *)
Finish(r) ==
    /\ pc[r] \in {"get_retired", "done"}
    /\ keys' = [keys EXCEPT ![r] = <<>>]
    /\ Goto(r, "idle")
    /\ UNCHANGED <<entries, locals, used, replaced>>

-----------------------------------------------------------------------------
WriterStep(w) ==
    \/ RotateGetActive(w) \/ RotateGetRetired(w) \/ RotateCarry(w)
    \/ RotateSetActive(w) \/ RotateVerify(w) \/ RotatePrune(w)
    \/ CreateCheck(w) \/ CreateSet(w) \/ CreateForget(w)
    \/ DeleteActive(w) \/ DeleteRetired(w) \/ Abort(w)

ReaderStep(r) == ReadActive(r) \/ ReadRetired(r) \/ Finish(r)

(* create --force gives up every key there was. *)
GivenUp == \E w \in Writers : pc[w] = "force_set" /\ pc'[w] = "create_forget"

(* A busy reader's stable set shrinks to what is still readable; an idle one *)
(* starts from what is readable.                                             *)
Observe ==
    stable' = [r \in Readers |->
                  IF pc[r] = "idle" THEN RangeOf(Readable')
                  ELSE IF GivenUp THEN {}
                  ELSE stable[r] \cap RangeOf(Readable')]

Next ==
    /\ \/ \E w \in Writers : WriterStep(w)
       \/ \E r \in Readers : ReaderStep(r)
    /\ Observe

Spec == Init /\ [][Next]_vars

-----------------------------------------------------------------------------
(* Properties *)

(* ADR-46: after a rotation has replaced the active key, the new key and the *)
(* one it replaced are both handed out, whatever step a later rotation has   *)
(* died at, until the next replacement.                                      *)
TwoGenerationsReadable ==
    (active # NoKey /\ replaced # NoKey) => Readable = <<active, replaced>>

(* get_all_keys() is two keyring reads.  A key that stayed readable while it *)
(* ran is in its result, whatever rotation steps fell between the reads: a   *)
(* restore of a manifest under such a key does not fail for want of it.      *)
ReaderSeesStableKeys ==
    \A r \in Readers :
        pc[r] = "done" => stable[r] \subseteq RangeOf(keys[r])

(* The multi-step rotation, with its failures and retries, implements the     *)
(* one-step rotation of KeyRing.                                              *)
Ring == INSTANCE KeyRing WITH ring <- Readable
ImplementsKeyRing == Ring!Spec
=============================================================================
