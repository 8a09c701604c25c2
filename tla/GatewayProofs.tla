--------------------------- MODULE GatewayProofs ---------------------------
(***************************************************************************)
(* Theorems about Gateway, for every set of keys, runs and restores.  The  *)
(* composition implements the keystore and the artifact set, so that what  *)
(* is proved of each of them holds of the machine; what is left to prove is*)
(* what ties the two together: the age of a key, and what a restore that   *)
(* waits for its answer may count on.                                      *)
(***************************************************************************)
EXTENDS Gateway, TLAPS

KP == INSTANCE KeystoreProofs WITH Readers <- Restores, pc <- kpc, keys <- found
AP == INSTANCE ArtifactsProofs

LEMMA PartsAssumption == KP!KeystoreAssumption /\ AP!ArtifactsAssumption
BY GatewayAssumption DEF KP!KeystoreAssumption, KS!KeystoreAssumption,
   AP!ArtifactsAssumption, AR!ArtifactsAssumption, IsFiniteSet, KP!IsFiniteSet,
   KS!IsFiniteSet, AP!Route, AR!Route, AP!Response, AR!Response, AP!File, AR!File

-----------------------------------------------------------------------------
(* The parts: what Gateway calls KS and AR are the modules that KP and AP    *)
(* prove about.                                                              *)

LEMMA SameInit == Init => KP!Init /\ AP!Init
<1>1. KS!Init => KP!Init
  BY DEF KS!Init, KP!Init, KS!RangeOf, KP!RangeOf, KS!Procs, KP!Procs, KS!KeyOrNone,
     KP!KeyOrNone, KS!NoRepeats, KP!NoRepeats, KS!Readable, KP!Readable, KS!HandedOut,
     KP!HandedOut, KS!Bounded, KP!Bounded, KS!Others, KP!Others, KS!FirstOf, KP!FirstOf
<1>2. AR!Init => AP!Init
  BY DEF AR!Init, AP!Init
<1> QED  BY <1>1, <1>2 DEF Init

LEMMA SameWriter ==
    ASSUME NEW w \in Writers, KS!WriterStep(w)
    PROVE  KP!WriterStep(w)
<1> USE DEF KS!Goto, KP!Goto, KS!At, KP!At, KS!entries, KP!entries, KS!locals,
    KP!locals, KS!Generate, KP!Generate
<1>1. KS!RotateGetActive(w) => KP!RotateGetActive(w)
  BY DEF KS!RotateGetActive, KP!RotateGetActive
<1>2. KS!RotateGetRetired(w) => KP!RotateGetRetired(w)
  BY DEF KS!RotateGetRetired, KP!RotateGetRetired
<1>3. KS!RotateCarry(w) => KP!RotateCarry(w)
  BY DEF KS!RotateCarry, KP!RotateCarry, KS!Without, KP!Without, KS!RangeOf, KP!RangeOf
<1>4. KS!RotateSetActive(w) => KP!RotateSetActive(w)
  BY DEF KS!RotateSetActive, KP!RotateSetActive
<1>5. KS!RotateVerify(w) => KP!RotateVerify(w)
  BY DEF KS!RotateVerify, KP!RotateVerify
<1>6. KS!RotatePrune(w) => KP!RotatePrune(w)
  BY DEF KS!RotatePrune, KP!RotatePrune
<1>7. KS!CreateCheck(w) => KP!CreateCheck(w)
  BY DEF KS!CreateCheck, KP!CreateCheck
<1>8. KS!CreateSet(w) => KP!CreateSet(w)
  BY DEF KS!CreateSet, KP!CreateSet
<1>9. KS!CreateForget(w) => KP!CreateForget(w)
  BY DEF KS!CreateForget, KP!CreateForget
<1>10. KS!DeleteActive(w) => KP!DeleteActive(w)
  BY DEF KS!DeleteActive, KP!DeleteActive
<1>11. KS!DeleteRetired(w) => KP!DeleteRetired(w)
  BY DEF KS!DeleteRetired, KP!DeleteRetired
<1>12. KS!Abort(w) => KP!Abort(w)
  BY DEF KS!Abort, KP!Abort
<1> QED
  BY <1>1, <1>2, <1>3, <1>4, <1>5, <1>6, <1>7, <1>8, <1>9, <1>10, <1>11, <1>12
     DEF KS!WriterStep, KP!WriterStep

LEMMA SameReader ==
    ASSUME NEW q \in Restores
    PROVE  /\ KS!ReadActive(q) => KP!ReadActive(q)
           /\ KS!ReadRetired(q) => KP!ReadRetired(q)
<1> USE DEF KS!Goto, KP!Goto, KS!At, KP!At, KS!entries, KP!entries, KS!locals, KP!locals
<1>1. KS!ReadActive(q) => KP!ReadActive(q)
  BY DEF KS!ReadActive, KP!ReadActive
<1>2. KS!ReadRetired(q) => KP!ReadRetired(q)
  BY DEF KS!ReadRetired, KP!ReadRetired, KS!Bounded, KP!Bounded, KS!Others, KP!Others,
     KS!FirstOf, KP!FirstOf
<1> QED  BY <1>1, <1>2

LEMMA SameObserve == KS!Observe => KP!Observe
BY DEF KS!Observe, KP!Observe, KS!GivenUp, KP!GivenUp, KS!RangeOf, KP!RangeOf,
   KS!Readable, KP!Readable, KS!HandedOut, KP!HandedOut, KS!Bounded, KP!Bounded,
   KS!Others, KP!Others, KS!FirstOf, KP!FirstOf

LEMMA SamePrepare ==
    ASSUME NEW r \in Runs
    PROVE  /\ AR!Preflight(r, active) => AP!Preflight(r, active)
           /\ AR!BlockInput(r) => AP!BlockInput(r)
           /\ AR!Publish(r) => AP!Publish(r)
           /\ AR!Fail(r) => AP!Fail(r)
<1> USE DEF AR!Goto, AP!Goto, AR!disk, AP!disk, AR!restores, AP!restores, AR!Working,
    AP!Working, AR!MayPublish, AP!MayPublish
<1>1. AR!Preflight(r, active) => AP!Preflight(r, active)
  BY DEF AR!Preflight, AP!Preflight, AR!Overlap, AP!Overlap
<1>2. AR!BlockInput(r) => AP!BlockInput(r)
  BY DEF AR!BlockInput, AP!BlockInput
<1>3. AR!Fail(r) => AP!Fail(r)
  BY DEF AR!Fail, AP!Fail
<1>4. AR!Collide(r, "manifest", manifest) => AP!Collide(r, "manifest", manifest)
  BY DEF AR!Collide, AP!Collide
<1>5. AR!Collide(r, "prompt", prompt) => AP!Collide(r, "prompt", prompt)
  BY DEF AR!Collide, AP!Collide
<1>6. AR!Collide(r, "route", route) => AP!Collide(r, "route", route)
  BY DEF AR!Collide, AP!Collide
<1>7. AR!PublishManifest(r) => AP!PublishManifest(r)
  BY DEF AR!PublishManifest, AP!PublishManifest, AR!Bytes, AP!Bytes
<1>8. AR!ReadHash(r) => AP!ReadHash(r)
  BY DEF AR!ReadHash, AP!ReadHash
<1>9. AR!PublishPrompt(r) => AP!PublishPrompt(r)
  BY DEF AR!PublishPrompt, AP!PublishPrompt
<1>10. AR!PublishRoute(r) => AP!PublishRoute(r)
  BY DEF AR!PublishRoute, AP!PublishRoute
<1> QED
  BY <1>1, <1>2, <1>3, <1>4, <1>5, <1>6, <1>7, <1>8, <1>9, <1>10
     DEF AR!Publish, AP!Publish

LEMMA SameRestore ==
    ASSUME NEW q \in Restores
    PROVE  /\ AR!RestoreStep(q) => AP!RestoreStep(q)
           /\ \A ks : AR!GetKeys(q, ks) => AP!GetKeys(q, ks)
<1> USE DEF AR!Move, AP!Move, AR!disk, AP!disk, AR!prepares, AP!prepares
<1>1. AR!TakeResponse(q) => AP!TakeResponse(q)
  BY DEF AR!TakeResponse, AP!TakeResponse
<1>2. AR!ReadRoute(q) => AP!ReadRoute(q)
  BY DEF AR!ReadRoute, AP!ReadRoute
<1>3. AR!Verify(q) => AP!Verify(q)
  BY DEF AR!Verify, AP!Verify
<1>4. AR!TryKey(q) => AP!TryKey(q)
  BY DEF AR!TryKey, AP!TryKey, AR!Decrypts, AP!Decrypts
<1>5. AR!Substitute(q) => AP!Substitute(q)
  BY DEF AR!Substitute, AP!Substitute, AR!TokensIn, AP!TokensIn
<1>6. \A ks : AR!GetKeys(q, ks) => AP!GetKeys(q, ks)
  BY DEF AR!GetKeys, AP!GetKeys
<1> QED
  BY <1>1, <1>2, <1>3, <1>4, <1>5, <1>6 DEF AR!RestoreStep, AP!RestoreStep

(* The steps of the machine, each as a step of a part.                       *)
LEMMA Steps ==
    ASSUME Next
    PROVE  \/ \E w \in Writers :
                 KP!WriterStep(w) /\ KP!Observe /\ Age /\ UNCHANGED directory
           \/ \E r \in Runs :
                 /\ \/ active # NoKey /\ AP!Preflight(r, active)
                    \/ AP!BlockInput(r) \/ AP!Publish(r) \/ AP!Fail(r)
                 /\ UNCHANGED <<keyring, age>>
           \/ \E q \in Restores : AP!RestoreStep(q) /\ UNCHANGED <<keyring, age>>
           \/ \E q \in Restores :
                 /\ at[q] = "keys"
                 /\ KP!ReadActive(q) \/ KP!ReadRetired(q)
                 /\ KP!Observe /\ UNCHANGED <<directory, age>>
           \/ \E q \in Restores :
                 /\ \/ kpc[q] = "done" /\ AP!GetKeys(q, found[q])
                    \/ kpc[q] = "idle" /\ active = NoKey /\ AP!GetKeys(q, <<>>)
                 /\ UNCHANGED <<keyring, age>>
BY SameWriter, SameReader, SameObserve, SamePrepare, SameRestore
   DEF Next, Rotate, Prepare, Restore, ReadKeyring, GetKeys

-----------------------------------------------------------------------------
(* The keyring of the machine is a Keystore                                  *)

LEMMA KeyringStep == [Next]_vars => [KP!Next]_KP!vars
<1>1. UNCHANGED keyring => UNCHANGED KP!vars
  BY DEF keyring, KP!vars
<1>2. UNCHANGED vars => UNCHANGED keyring
  BY DEF vars
<1>3. Next => KP!Next \/ UNCHANGED keyring
  BY Steps DEF KP!Next, KP!ReaderStep
<1> QED  BY <1>1, <1>2, <1>3

SingleWriter == \A v, w \in Writers : v = w
KeyringInv == KP!RetentionInv /\ KP!ReaderInv

LEMMA KeyringInvariant == SingleWriter => (Spec => []KeyringInv)
<1> SUFFICES ASSUME SingleWriter PROVE Spec => []KeyringInv
  OBVIOUS
<1>1. KP!SingleWriter
  BY DEF SingleWriter, KP!SingleWriter
<1>2. KP!Spec => [](KP!RetentionInv /\ KP!ReaderInv)
  BY <1>1, PartsAssumption, KP!ReaderInvariant
<1>3. Init => KP!Init
  BY SameInit
<1> QED  BY <1>2, <1>3, KeyringStep, PTL DEF Spec, KP!Spec, KeyringInv

(* What get_all_keys() hands out is one of the lists a restore may be given. *)
FoundInv == \A q \in Restores : kpc[q] = "done" => found[q] \in AP!KeyLists

LEMMA BoundedIsKeyList ==
    ASSUME NEW s \in Seq(Keys), Len(s) >= 1
    PROVE  KP!Bounded(s) \in AP!KeyLists
<1>0. s[1] \in Keys
  OBVIOUS
<1>1. CASE KP!Others(s) = {}
  <2>1. KP!Bounded(s) = <<s[1]>>
    BY <1>1 DEF KP!Bounded
  <2>2. <<s[1]>> \in {<<k>> : k \in Keys}
    BY <1>0
  <2> QED  BY <2>1, <2>2 DEF AP!KeyLists
<1>2. CASE KP!Others(s) # {}
  <2> DEFINE f == KP!FirstOf(KP!Others(s))
  <2>1. KP!Others(s) \in SUBSET Nat
    BY DEF KP!Others
  <2>2. f \in KP!Others(s)
    BY <1>2, <2>1, PartsAssumption, KP!FirstOfProperties
  <2>3. s[f] \in Keys \ {s[1]}
    BY <2>2 DEF KP!Others
  <2>4. KP!Bounded(s) = <<s[1], s[f]>>
    BY <1>2 DEF KP!Bounded
  <2> HIDE DEF f
  <2>5. <<s[1], s[f]>> \in {<<s[1], l>> : l \in Keys \ {s[1]}}
    BY <2>3
  <2>6. <<s[1], s[f]>> \in UNION {{<<k, l>> : l \in Keys \ {k}} : k \in Keys}
    BY <1>0, <2>5
  <2> QED  BY <2>4, <2>6 DEF AP!KeyLists
<1> QED  BY <1>1, <1>2

LEMMA FoundStep == KeyringInv /\ FoundInv /\ [Next]_vars => FoundInv'
<1> SUFFICES ASSUME KeyringInv, FoundInv, [Next]_vars,
                    NEW q \in Restores, kpc'[q] = "done"
             PROVE  found'[q] \in AP!KeyLists
  BY DEF FoundInv, AP!KeyLists
<1>1. /\ kpc \in [KP!Procs -> KP!WriterPC \cup KP!ReaderPC]
      /\ found \in [Restores -> Seq(Keys)] /\ retired \in Seq(Keys)
      /\ q \in KP!Procs
  BY DEF KeyringInv, KP!RetentionInv, KP!TypeInv, KP!TypeOK, KP!Procs
<1>2. CASE UNCHANGED keyring
  BY <1>2 DEF keyring, FoundInv
<1>3. ASSUME NEW w \in Writers, KP!WriterStep(w)
      PROVE  found'[q] \in AP!KeyLists
  <2>1. q # w
    BY PartsAssumption DEF KP!KeystoreAssumption
  <2>2. found' = found /\ kpc'[q] = kpc[q]
    BY <1>1, <1>3, <2>1 DEF KP!WriterStep, KP!RotateGetActive, KP!RotateGetRetired,
       KP!RotateCarry, KP!RotateSetActive, KP!RotateVerify, KP!RotatePrune,
       KP!CreateCheck, KP!CreateSet, KP!CreateForget, KP!DeleteActive,
       KP!DeleteRetired, KP!Abort, KP!Goto
  <2> QED  BY <2>2 DEF FoundInv
<1>4. ASSUME NEW p \in Restores, KP!ReadActive(p)
      PROVE  found'[q] \in AP!KeyLists
  BY <1>1, <1>4 DEF KP!ReadActive, KP!Goto, FoundInv
<1>5. ASSUME NEW p \in Restores, KP!ReadRetired(p)
      PROVE  found'[q] \in AP!KeyLists
  <2>1. CASE p # q
    BY <1>1, <1>5, <2>1 DEF KP!ReadRetired, KP!Goto, FoundInv
  <2>2. CASE p = q
    <3>1. found'[q] = KP!Bounded(found[q] \o retired) /\ Len(found[q]) >= 1
      BY <1>1, <1>5, <2>2 DEF KP!ReadRetired, KP!At, KeyringInv, KP!RetentionInv,
         KP!TypeInv, KP!LocalsSet
    <3>2. found[q] \o retired \in Seq(Keys) /\ Len(found[q] \o retired) >= 1
      BY <1>1, <3>1
    <3> QED  BY <3>1, <3>2, BoundedIsKeyList
  <2> QED  BY <2>1, <2>2
<1> QED  BY <1>2, <1>3, <1>4, <1>5, Steps DEF vars

-----------------------------------------------------------------------------
(* The directory of the machine is an artifact set                           *)

LEMMA DirectoryStep == KeyringInv /\ FoundInv /\ [Next]_vars => [AP!Next]_AP!vars
<1> SUFFICES ASSUME KeyringInv, FoundInv, [Next]_vars PROVE [AP!Next]_AP!vars
  OBVIOUS
<1>1. UNCHANGED directory => UNCHANGED AP!vars
  BY DEF directory, AP!vars
<1>2. UNCHANGED vars => UNCHANGED directory
  BY DEF vars
<1>3. active # NoKey => active \in Keys
  BY DEF KeyringInv, KP!RetentionInv, KP!TypeInv, KP!TypeOK, KP!KeyOrNone
<1>4. <<>> \in AP!KeyLists
  BY DEF AP!KeyLists
<1>5. Next => AP!Next \/ UNCHANGED directory
  BY <1>3, <1>4, Steps DEF FoundInv, AP!Next, AP!Prepare
<1> QED  BY <1>1, <1>2, <1>5

NoOverwriters == Overwriters = {}
DirectoryInv == AP!TypeOK /\ AP!KeepInv /\ AP!AnswerInv

LEMMA FoundInvariant == SingleWriter => (Spec => []FoundInv)
<1>1. Init => FoundInv
  BY SameInit DEF KP!Init, FoundInv, KP!Procs
<1> QED  BY <1>1, FoundStep, KeyringInvariant, PTL DEF Spec

LEMMA DirectoryInvariant ==
    SingleWriter /\ NoOverwriters => (Spec => []DirectoryInv)
<1> SUFFICES ASSUME SingleWriter, NoOverwriters PROVE Spec => []DirectoryInv
  OBVIOUS
<1>1. AP!Spec => []AP!TypeOK
  BY PartsAssumption, AP!TypeCorrect
<1>2. AP!Spec => []AP!KeepInv
  BY PartsAssumption, AP!KeepInvariant DEF NoOverwriters
<1>3. AP!Spec => []AP!AnswerInv
  BY PartsAssumption, AP!AnswerInvariant DEF NoOverwriters
<1>4. Init => AP!Init
  BY SameInit
<1>5. Spec => []KeyringInv /\ []FoundInv
  BY KeyringInvariant, FoundInvariant
<1> QED
  BY <1>1, <1>2, <1>3, <1>4, <1>5, DirectoryStep, PTL DEF Spec, AP!Spec, DirectoryInv

-----------------------------------------------------------------------------
(* The age of a key                                                          *)

(* The run has read a key and has not been turned away at its first look.    *)
Holds(r) == pc[r] \in AP!Working \cup {"ok"} \/ prompt = r

(* A key of age 0 is the active one, one of age 1 the one it replaced.       *)
AgeInv ==
    \A r \in Runs :
        /\ age[r] \in Nat
        /\ pc[r] = "start" => age[r] = 0 /\ prompt # r
        /\ Holds(r) /\ age[r] = 0 => active = key[r] /\ active # NoKey
        /\ Holds(r) /\ age[r] = 1 =>
              active # NoKey /\ replaced # NoKey /\ replaced = key[r]

(* A forced creation brings a key that is not the active one.                *)
FreshInv == \A w \in Writers : kpc[w] = "force_set" => new[w] # active

LEMMA FreshStep ==
    SingleWriter /\ KeyringInv /\ FreshInv /\ [Next]_vars => FreshInv'
<1> SUFFICES ASSUME SingleWriter, KeyringInv, FreshInv, [Next]_vars,
                    NEW v \in Writers, kpc'[v] = "force_set"
             PROVE  new'[v] # active'
  BY DEF FreshInv
<1>1. /\ kpc \in [KP!Procs -> KP!WriterPC \cup KP!ReaderPC]
      /\ new \in [Writers -> KP!KeyOrNone]
      /\ active # NoKey => active \in used
      /\ used \subseteq Keys /\ NoKey \notin Keys
      /\ v \in KP!Procs /\ Restores \subseteq KP!Procs /\ v \notin Restores
  BY PartsAssumption DEF KeyringInv, KP!RetentionInv, KP!Retention, KP!TypeInv,
     KP!TypeOK, KP!Procs, KP!KeystoreAssumption
<1>2. CASE UNCHANGED keyring
  BY <1>2 DEF keyring, FreshInv
<1>3. CASE KP!WriterStep(v)
  <2>1. CASE KP!CreateCheck(v)
    BY <1>1, <2>1 DEF KP!CreateCheck, KP!Generate, KP!entries
  <2> QED
    BY <1>1, <1>3, <2>1 DEF KP!WriterStep, KP!RotateGetActive, KP!RotateGetRetired,
       KP!RotateCarry, KP!RotateSetActive, KP!RotateVerify, KP!RotatePrune,
       KP!CreateSet, KP!CreateForget, KP!DeleteActive, KP!DeleteRetired, KP!Abort,
       KP!Goto
<1>4. ASSUME NEW p \in Restores, KP!ReadActive(p) \/ KP!ReadRetired(p)
      PROVE  new'[v] # active'
  BY <1>1, <1>4 DEF KP!ReadActive, KP!ReadRetired, KP!Goto, KP!entries, KP!locals,
     FreshInv
<1> QED  BY <1>2, <1>3, <1>4, Steps DEF vars, SingleWriter

(* What a writer may do to the entries: the active key stays, or is replaced *)
(* by a confirmed rotation, or its history ends.                             *)
LEMMA ActiveChanges ==
    ASSUME KeyringInv, FreshInv, NEW w \in Writers, KP!WriterStep(w)
    PROVE  /\ \/ active' = active /\ (active # NoKey => replaced' = replaced)
              \/ active' # active /\ active' # NoKey /\ active # NoKey /\ replaced' = active
              \/ active' # active /\ replaced' = NoKey
           /\ kpc[w] = "force_set" /\ kpc'[w] = "create_forget"
                 => active' # active /\ replaced' = NoKey
<1>1. /\ kpc \in [KP!Procs -> KP!WriterPC \cup KP!ReaderPC] /\ w \in KP!Procs
      /\ KP!Retention /\ KP!LocalsSet /\ NoKey \notin Keys
      /\ kpc[w] = "create_set" => active = NoKey
  BY PartsAssumption DEF KeyringInv, KP!RetentionInv, KP!TypeInv, KP!TypeOK, KP!Procs,
     KP!KeystoreAssumption, KP!ReaderInv
<1>2. CASE KP!RotateSetActive(w)
  <2>1. /\ kpc[w] = "set_active" /\ new[w] # active /\ new[w] \in Keys
        /\ active = cur[w] /\ cur[w] # NoKey
    BY <1>1, <1>2 DEF KP!RotateSetActive, KP!At, KP!Retention, KP!LocalsSet, KP!Generated
  <2> QED  BY <1>1, <1>2, <2>1 DEF KP!RotateSetActive, KP!Goto
<1>3. CASE KP!CreateSet(w)
  <2>1. new[w] \in Keys
    BY <1>1, <1>3 DEF KP!CreateSet, KP!LocalsSet, KP!Generated
  <2>2. new[w] # active
    BY <1>1, <1>3, <2>1 DEF KP!CreateSet, FreshInv
  <2> QED  BY <1>1, <1>3, <2>2 DEF KP!CreateSet, KP!Goto
<1>4. CASE KP!DeleteActive(w)
  BY <1>1, <1>4 DEF KP!DeleteActive, KP!At, KP!Goto
<1> QED
  BY <1>1, <1>2, <1>3, <1>4 DEF KP!WriterStep, KP!RotateGetActive, KP!RotateGetRetired,
     KP!RotateCarry, KP!RotateVerify, KP!RotatePrune, KP!CreateCheck, KP!CreateForget,
     KP!DeleteRetired, KP!Abort, KP!Goto, KP!At, KP!entries

(* A run moves, and reads its key, by itself alone.                          *)
LEMMA RunSteps ==
    ASSUME DirectoryInv, NoOverwriters, NEW r \in Runs,
           \/ active # NoKey /\ AP!Preflight(r, active)
           \/ AP!BlockInput(r) \/ AP!Publish(r) \/ AP!Fail(r)
    PROVE  /\ \A s \in Runs \ {r} : pc'[s] = pc[s] /\ key'[s] = key[s]
           /\ pc'[r] # "start"
           /\ key'[r] # key[r] => pc[r] = "start"
           /\ pc'[r] \in AP!Working \cup {"ok"} => \/ pc[r] \in AP!Working
                                                   \/ pc[r] = "start" /\ key'[r] = active
                                                                      /\ active # NoKey
           /\ prompt' # prompt => prompt' = r /\ pc[r] \in AP!Working
           /\ UNCHANGED AP!restores
           /\ route # Absent => route' = route
<1>1. pc \in [Runs -> AP!PrepareSteps] /\ key \in [Runs -> Keys \cup {Absent}]
  BY DEF DirectoryInv, AP!TypeOK
<1> QED
  BY <1>1 DEF AP!Preflight, AP!BlockInput, AP!Publish, AP!Fail, AP!PublishManifest,
     AP!Collide, AP!ReadHash, AP!PublishPrompt, AP!PublishRoute, AP!MayPublish,
     AP!Goto, AP!Working, AP!disk, AP!restores, NoOverwriters

(* A restore changes nothing that runs have.                                 *)
LEMMA RestoresRead ==
    ASSUME NEW q \in Restores, AP!RestoreStep(q) \/ \E ks : AP!GetKeys(q, ks)
    PROVE  UNCHANGED <<AP!disk, AP!prepares>>
BY DEF AP!RestoreStep, AP!TakeResponse, AP!ReadRoute, AP!Verify, AP!TryKey,
   AP!Substitute, AP!GetKeys

LEMMA AgeStep ==
    KeyringInv /\ FreshInv /\ DirectoryInv /\ NoOverwriters /\ AgeInv /\ [Next]_vars
        => AgeInv' /\ \A r \in Runs : age'[r] >= age[r]
<1> SUFFICES ASSUME KeyringInv, FreshInv, DirectoryInv, NoOverwriters, AgeInv, [Next]_vars,
                    NEW r \in Runs
             PROVE  /\ age'[r] \in Nat /\ age'[r] >= age[r]
                    /\ pc'[r] = "start" => age'[r] = 0 /\ prompt' # r
                    /\ Holds(r)' /\ age'[r] = 0 => active' = key'[r] /\ active' # NoKey
                    /\ Holds(r)' /\ age'[r] = 1 =>
                          active' # NoKey /\ replaced' # NoKey /\ replaced' = key'[r]
  BY DEF AgeInv
<1>1. /\ age[r] \in Nat
      /\ pc[r] = "start" => age[r] = 0 /\ prompt # r
      /\ Holds(r) /\ age[r] = 0 => active = key[r] /\ active # NoKey
      /\ Holds(r) /\ age[r] = 1 =>
            active # NoKey /\ replaced # NoKey /\ replaced = key[r]
  BY DEF AgeInv
<1>2. CASE UNCHANGED <<active, replaced, directory, age>>
  BY <1>1, <1>2 DEF directory, Holds
<1>3. ASSUME NEW w \in Writers, KP!WriterStep(w), Age, UNCHANGED directory
      PROVE  /\ age'[r] \in Nat /\ age'[r] >= age[r]
             /\ pc'[r] = "start" => age'[r] = 0 /\ prompt' # r
             /\ Holds(r)' /\ age'[r] = 0 => active' = key'[r] /\ active' # NoKey
             /\ Holds(r)' /\ age'[r] = 1 =>
                   active' # NoKey /\ replaced' # NoKey /\ replaced' = key'[r]
  <2>1. age'[r] = age[r] + Generations(r)
    BY <1>3 DEF Age
  <2>2. /\ Generations(r) \in {0, 1, 2}
        /\ pc[r] = "start" => Generations(r) = 0
        /\ pc[r] # "start" /\ active' # active /\ replaced' = NoKey => Generations(r) = 2
        /\ pc[r] # "start" /\ active' # active /\ replaced' # NoKey => Generations(r) = 1
        /\ active' = active => Generations(r) = 0
    BY DEF Generations
  <2>3. pc' = pc /\ key' = key /\ prompt' = prompt /\ Holds(r)' = Holds(r)
    BY <1>3 DEF directory, Holds
  <2>4. Holds(r) => pc[r] # "start"
    BY <1>1 DEF Holds, AP!Working
  <2> HIDE DEF Holds
  <2>5. CASE active' = active
    BY <1>1, <1>3, <2>1, <2>2, <2>3, <2>5, ActiveChanges
  <2>6. CASE active' # active /\ replaced' = NoKey
    BY <1>1, <2>1, <2>2, <2>3, <2>4, <2>6
  <2>7. CASE active' # active /\ active' # NoKey /\ active # NoKey /\ replaced' = active
    BY <1>1, <2>1, <2>2, <2>3, <2>4, <2>7
  <2> QED  BY <1>3, <2>5, <2>6, <2>7, ActiveChanges
<1>4. ASSUME NEW s \in Runs, UNCHANGED <<keyring, age>>,
             \/ active # NoKey /\ AP!Preflight(s, active)
             \/ AP!BlockInput(s) \/ AP!Publish(s) \/ AP!Fail(s)
      PROVE  /\ age'[r] \in Nat /\ age'[r] >= age[r]
             /\ pc'[r] = "start" => age'[r] = 0 /\ prompt' # r
             /\ Holds(r)' /\ age'[r] = 0 => active' = key'[r] /\ active' # NoKey
             /\ Holds(r)' /\ age'[r] = 1 =>
                   active' # NoKey /\ replaced' # NoKey /\ replaced' = key'[r]
  <2>1. active' = active /\ replaced' = replaced /\ age' = age
    BY <1>4 DEF keyring
  <2>2. /\ \A t \in Runs \ {s} : pc'[t] = pc[t] /\ key'[t] = key[t]
        /\ pc'[s] # "start"
        /\ key'[s] # key[s] => pc[s] = "start"
        /\ pc'[s] \in AP!Working \cup {"ok"} => \/ pc[s] \in AP!Working
                                                \/ pc[s] = "start" /\ key'[s] = active
                                                                   /\ active # NoKey
        /\ prompt' # prompt => prompt' = s /\ pc[s] \in AP!Working
    BY <1>4, RunSteps
  <2>3. "start" \notin AP!Working
    BY DEF AP!Working
  <2>4. CASE r # s
    BY <1>1, <2>1, <2>2, <2>4 DEF Holds
  <2>5. CASE r = s
    BY <1>1, <2>1, <2>2, <2>3, <2>5 DEF Holds
  <2> QED  BY <2>4, <2>5
<1>5. ASSUME NEW q \in Restores, UNCHANGED <<keyring, age>>,
             AP!RestoreStep(q) \/ \E ks : AP!GetKeys(q, ks)
      PROVE  /\ active' = active /\ replaced' = replaced /\ age' = age
             /\ pc' = pc /\ key' = key /\ prompt' = prompt
  BY <1>5, RestoresRead DEF keyring, AP!disk, AP!prepares
<1>6. ASSUME NEW q \in Restores, KP!ReadActive(q) \/ KP!ReadRetired(q),
             UNCHANGED <<directory, age>>
      PROVE  UNCHANGED <<active, replaced, directory, age>>
  BY <1>6 DEF KP!ReadActive, KP!ReadRetired, KP!entries
<1>7. CASE UNCHANGED vars
  BY <1>2, <1>7 DEF vars, keyring
<1>8. (\E q \in Restores : /\ AP!RestoreStep(q) \/ \E ks : AP!GetKeys(q, ks)
                           /\ UNCHANGED <<keyring, age>>)
         => UNCHANGED <<active, replaced, age, pc, key, prompt>>
  BY <1>5
<1>9. UNCHANGED <<active, replaced, age, pc, key, prompt>>
         => /\ age'[r] \in Nat /\ age'[r] >= age[r]
            /\ pc'[r] = "start" => age'[r] = 0 /\ prompt' # r
            /\ Holds(r)' /\ age'[r] = 0 => active' = key'[r] /\ active' # NoKey
            /\ Holds(r)' /\ age'[r] = 1 =>
                  active' # NoKey /\ replaced' # NoKey /\ replaced' = key'[r]
  BY <1>1 DEF Holds
<1> QED  BY <1>2, <1>3, <1>4, <1>6, <1>7, <1>8, <1>9, Steps

(* A key of an age below two is handed out.                                  *)
AgeReads ==
    \A r \in Runs :
        Holds(r) /\ age[r] < 2 => key[r] \in KP!RangeOf(KP!Readable)

LEMMA YoungIsReadable == KeyringInv /\ AgeInv => AgeReads
<1> SUFFICES ASSUME KeyringInv, AgeInv, NEW r \in Runs, Holds(r), age[r] < 2
             PROVE  key[r] \in KP!RangeOf(KP!Readable)
  BY DEF AgeReads
<1>1. age[r] = 0 \/ age[r] = 1
  BY DEF AgeInv
<1>2. CASE age[r] = 0
  <2>1. active = key[r] /\ active \in Keys /\ active # NoKey /\ retired \in Seq(Keys)
    BY <1>2 DEF AgeInv, KeyringInv, KP!RetentionInv, KP!TypeInv, KP!TypeOK, KP!KeyOrNone
  <2>2. /\ <<active>> \o retired \in Seq(Keys) /\ Len(<<active>> \o retired) >= 1
        /\ (<<active>> \o retired)[1] = active
    BY <2>1
  <2>3. active \in KP!RangeOf(KP!Bounded(<<active>> \o retired))
    BY <2>2, PartsAssumption, KP!BoundedProperties
  <2> QED  BY <2>1, <2>3 DEF KP!Readable, KP!HandedOut
<1>3. CASE age[r] = 1
  <2>1. active # NoKey /\ replaced # NoKey /\ replaced = key[r]
    BY <1>3 DEF AgeInv
  <2>2. KP!TwoGenerationsReadable
    BY PartsAssumption, KP!RetentionHandsOut DEF KeyringInv
  <2>3. KP!Readable = <<active, replaced>>
    BY <2>1, <2>2 DEF KP!TwoGenerationsReadable
  <2> QED  BY <2>1, <2>3 DEF KP!RangeOf
<1> QED  BY <1>1, <1>2, <1>3

-----------------------------------------------------------------------------
(* A restore that waits for its answer                                       *)

(* Until it reads the keyring everything handed out is stable for it; from   *)
(* the moment it has its answer the key of the answered prompt is stable, as *)
(* long as its age is below two; and that key, if it was handed out, is not  *)
(* among those already tried in vain.                                        *)
Waiting(q) ==
    /\ kpc[q] = "idle" => stable[q] = KP!RangeOf(KP!Readable)
    /\ at[q] \in {"start", "route", "verify"} => kpc[q] = "idle"
    /\ at[q] = "verify" => seen[q] = route
    /\ at[q] # "start" /\ age[resp[q].of] < 2 => key[resp[q].of] \in stable[q]
    /\ at[q] = "load" =>
          /\ kpc[q] = "done"
          /\ key[resp[q].of] \in KP!RangeOf(found[q])
                => key[resp[q].of] \in KP!RangeOf(left[q])
WaitInv == \A q \in Restores : Waiting(q)

(* The run whose prompt is answered has read its key.                        *)
LEMMA Answered ==
    ASSUME DirectoryInv, NEW q \in Restores, at[q] # "start"
    PROVE  resp[q].of \in Runs /\ prompt = resp[q].of /\ Holds(resp[q].of)
<1>1. resp[q] \in AP!Response
  BY DEF DirectoryInv, AP!TypeOK
<1> QED  BY <1>1 DEF DirectoryInv, AP!AnswerInv, AP!Response, Holds

(* Steps of the keyring.                                                     *)
LEMMA KeyringWaits ==
    ASSUME KeyringInv, KeyringInv', FreshInv, DirectoryInv, WaitInv, AgeReads',
           UNCHANGED directory,
           \A r \in Runs : age[r] \in Nat /\ age'[r] \in Nat /\ age'[r] >= age[r],
           KP!Observe, NEW q \in Restores,
           kpc'[q] = "idle" => kpc[q] = "idle",
           at[q] \in {"start", "route", "verify", "load"} => kpc'[q] = kpc[q],
           at[q] = "load" => found'[q] = found[q],
           KP!GivenUp => \A r \in Runs : Holds(r) => age'[r] >= 2
    PROVE  Waiting(q)'
<1>1. /\ at' = at /\ resp' = resp /\ seen' = seen /\ route' = route /\ key' = key
      /\ left' = left /\ \A r \in Runs : Holds(r)' = Holds(r)
  BY DEF directory, Holds
<1>2. Waiting(q)
  BY DEF WaitInv
<1>3. kpc[q] = "idle" => stable'[q] = KP!RangeOf(KP!Readable)'
  BY DEF KP!Observe
<1>4. kpc[q] # "idle" /\ ~KP!GivenUp => stable'[q] = stable[q] \cap KP!RangeOf(KP!Readable)'
  BY DEF KP!Observe
<1>5. ASSUME at[q] # "start", age'[resp[q].of] < 2
      PROVE  key[resp[q].of] \in stable'[q]
  <2> DEFINE r == resp[q].of
  <2>1. r \in Runs /\ Holds(r)
    BY <1>5, Answered
  <2>2. key[r] \in KP!RangeOf(KP!Readable)'
    BY <1>1, <1>5, <2>1 DEF AgeReads
  <2>3. age[r] < 2 /\ ~KP!GivenUp
    BY <1>5, <2>1
  <2>4. key[r] \in stable[q]
    BY <1>2, <1>5, <2>3 DEF Waiting
  <2> QED  BY <1>3, <1>4, <2>2, <2>3, <2>4
<1> QED  BY <1>1, <1>2, <1>3, <1>5 DEF Waiting

(* Steps of a run: the run that was answered keeps its key.                  *)
LEMMA RunWaits ==
    ASSUME DirectoryInv, NoOverwriters, AgeInv, WaitInv, UNCHANGED <<keyring, age>>,
           NEW r \in Runs,
           \/ active # NoKey /\ AP!Preflight(r, active)
           \/ AP!BlockInput(r) \/ AP!Publish(r) \/ AP!Fail(r),
           NEW q \in Restores
    PROVE  Waiting(q)'
<1>1. /\ \A s \in Runs \ {r} : key'[s] = key[s]
      /\ key'[r] # key[r] => pc[r] = "start"
      /\ UNCHANGED AP!restores
      /\ route # Absent => route' = route
  BY RunSteps
<1>2. at' = at /\ resp' = resp /\ seen' = seen /\ left' = left
  BY <1>1 DEF AP!restores
<1>3. at[q] # "start" => resp[q].of \in Runs /\ key'[resp[q].of] = key[resp[q].of]
  BY <1>1, Answered DEF AgeInv
<1>4. at[q] = "verify" => route' = route
  BY <1>1 DEF DirectoryInv, AP!AnswerInv
<1>5. /\ kpc' = kpc /\ stable' = stable /\ found' = found /\ age' = age
      /\ KP!RangeOf(KP!Readable)' = KP!RangeOf(KP!Readable)
  BY DEF keyring, KP!RangeOf, KP!Readable
<1>6. Waiting(q)
  BY DEF WaitInv
<1> QED  BY <1>2, <1>3, <1>4, <1>5, <1>6 DEF Waiting

(* Steps of a restore.                                                       *)
LEMMA RestoreWaits ==
    ASSUME KeyringInv, DirectoryInv, AgeReads, WaitInv, UNCHANGED <<keyring, age>>,
           NEW p \in Restores,
           \/ AP!RestoreStep(p)
           \/ kpc[p] = "done" /\ AP!GetKeys(p, found[p])
           \/ kpc[p] = "idle" /\ active = NoKey /\ AP!GetKeys(p, <<>>),
           NEW q \in Restores
    PROVE  Waiting(q)'
<1>1. /\ kpc' = kpc /\ stable' = stable /\ found' = found /\ age' = age
      /\ KP!RangeOf(KP!Readable)' = KP!RangeOf(KP!Readable)
  BY DEF keyring, KP!RangeOf, KP!Readable
<1>2. route' = route /\ key' = key
  BY RestoresRead DEF AP!disk, AP!prepares
<1>3. Waiting(q)
  BY DEF WaitInv
<1>4. /\ at \in [Restores -> AP!RestoreSteps]
      /\ resp \in [Restores -> AP!Response \cup {Absent}]
      /\ seen \in [Restores -> AP!Route \cup {Absent}]
      /\ left \in [Restores -> Seq(Keys)]
      /\ at[q] = "load" => left[q] # <<>>
  BY DEF DirectoryInv, AP!TypeOK
<1>5. CASE AP!TakeResponse(p)
  <2>1. PICK T \in SUBSET Tokens :
            resp' = [resp EXCEPT ![p] = [of |-> prompt, tokens |-> T]]
    BY <1>5 DEF AP!TakeResponse
  <2>2. at' = [at EXCEPT ![p] = "route"] /\ seen' = seen /\ left' = left /\ at[p] = "start"
        /\ prompt # Absent
    BY <1>5 DEF AP!TakeResponse, AP!Move
  <2>3. CASE p # q
    BY <1>1, <1>2, <1>3, <1>4, <2>1, <2>2, <2>3 DEF Waiting
  <2>4. CASE p = q
    <3>1. resp'[q].of = prompt /\ at'[q] = "route"
      BY <1>4, <2>1, <2>2, <2>4
    <3>2. prompt \in Runs /\ Holds(prompt)
      BY <2>2 DEF DirectoryInv, AP!TypeOK, Holds
    <3>3. age[prompt] < 2 => key[prompt] \in stable[q]
      BY <1>3, <2>2, <2>4, <3>2 DEF Waiting, AgeReads
    <3> QED  BY <1>1, <1>2, <1>3, <2>2, <2>4, <3>1, <3>3 DEF Waiting
  <2> QED  BY <2>3, <2>4
<1>6. CASE AP!ReadRoute(p)
  <2>1. /\ resp' = resp /\ left' = left /\ at[p] = "route"
        /\ \/ at' = [at EXCEPT ![p] = "no_route"] /\ seen' = seen
           \/ at' = [at EXCEPT ![p] = "verify"] /\ seen' = [seen EXCEPT ![p] = route]
    BY <1>6 DEF AP!ReadRoute, AP!Move
  <2> QED  BY <1>1, <1>2, <1>3, <1>4, <2>1 DEF Waiting
<1>7. CASE AP!Verify(p)
  <2>1. /\ resp' = resp /\ left' = left /\ seen' = seen /\ at[p] = "verify"
        /\ \/ at' = [at EXCEPT ![p] = "keys"]
           \/ at' = [at EXCEPT ![p] = "integrity"]
    BY <1>7 DEF AP!Verify, AP!Move
  <2> QED  BY <1>1, <1>2, <1>3, <1>4, <2>1 DEF Waiting
<1>8. CASE AP!TryKey(p)
  <2>1. resp' = resp /\ seen' = seen /\ at[p] = "load"
    BY <1>8 DEF AP!TryKey
  <2>2. CASE AP!Decrypts(Head(left[p]), manifest)
    <3>1. left' = left /\ at' = [at EXCEPT ![p] = "substitute"]
      BY <1>8, <2>2 DEF AP!TryKey, AP!Move
    <3> QED  BY <1>1, <1>2, <1>3, <1>4, <2>1, <3>1 DEF Waiting
  <2>3. CASE ~AP!Decrypts(Head(left[p]), manifest)
    <3>1. /\ left' = [left EXCEPT ![p] = Tail(left[p])]
          /\ at' = [at EXCEPT ![p] = IF Len(left[p]) = 1 THEN "no_key" ELSE "load"]
      BY <1>8, <2>3 DEF AP!TryKey, AP!Move
    <3>2. CASE p # q
      BY <1>1, <1>2, <1>3, <1>4, <2>1, <3>1, <3>2 DEF Waiting
    <3>3. CASE p = q
      <4>1. key[resp[q].of] # Head(left[q])
        <5>1. manifest \in Runs /\ key[manifest] # Head(left[q])
          BY <2>3, <3>3 DEF AP!Decrypts
        <5>2. prompt = resp[q].of /\ route # Absent /\ manifest = AP!Bytes(prompt)
          BY <2>1, <3>3 DEF DirectoryInv, AP!AnswerInv, AP!KeepInv
        <5> QED
          BY <5>1, <5>2, PartsAssumption DEF AP!Bytes, AP!ArtifactsAssumption
      <4>2. \A k \in KP!RangeOf(left[q]) : k = Head(left[q]) \/ k \in KP!RangeOf(Tail(left[q]))
        <5> DEFINE l == left[q]
                   t == Tail(l)
        <5>1. l \in Seq(Keys) /\ l # <<>>
          BY <1>4, <2>1, <3>3
        <5>2. /\ DOMAIN l = 1 .. Len(l) /\ DOMAIN t = 1 .. Len(t)
              /\ \A i \in 1 .. Len(l) :
                    l[i] = Head(l) \/ (i - 1 \in 1 .. Len(t) /\ l[i] = t[i - 1])
          BY <5>1
        <5> HIDE DEF l, t
        <5>3. \A k \in KP!RangeOf(l) : k = Head(l) \/ k \in KP!RangeOf(t)
          BY <5>2 DEF KP!RangeOf
        <5> QED  BY <5>3 DEF l, t
      <4>3. left'[q] = Tail(left[q]) /\ at'[q] \in {"no_key", "load"} /\ at[q] = "load"
        BY <1>4, <2>1, <3>1, <3>3
      <4> QED  BY <1>1, <1>2, <1>3, <2>1, <4>1, <4>2, <4>3 DEF Waiting
    <3> QED  BY <3>2, <3>3
  <2> QED  BY <2>2, <2>3
<1>9. CASE AP!Substitute(p)
  <2>1. /\ resp' = resp /\ left' = left /\ seen' = seen /\ at[p] = "substitute"
        /\ \/ at' = [at EXCEPT ![p] = "strict"]
           \/ at' = [at EXCEPT ![p] = "ok"]
    BY <1>9 DEF AP!Substitute, AP!Move
  <2> QED  BY <1>1, <1>2, <1>3, <1>4, <2>1 DEF Waiting
<1>10. CASE kpc[p] = "done" /\ AP!GetKeys(p, found[p])
  <2>1. /\ resp' = resp /\ left' = [left EXCEPT ![p] = found[p]] /\ seen' = seen
        /\ at[p] = "keys"
        /\ \/ at' = [at EXCEPT ![p] = "no_key"]
           \/ at' = [at EXCEPT ![p] = "load"]
    BY <1>10 DEF AP!GetKeys, AP!Move
  <2> QED  BY <1>1, <1>2, <1>3, <1>4, <1>10, <2>1 DEF Waiting
<1>11. CASE kpc[p] = "idle" /\ AP!GetKeys(p, <<>>)
  <2>1. /\ resp' = resp /\ left' = [left EXCEPT ![p] = <<>>] /\ seen' = seen
        /\ at[p] = "keys" /\ at' = [at EXCEPT ![p] = "no_key"]
    BY <1>11 DEF AP!GetKeys, AP!Move
  <2> QED  BY <1>1, <1>2, <1>3, <1>4, <2>1 DEF Waiting
<1> QED
  BY <1>5, <1>6, <1>7, <1>8, <1>9, <1>10, <1>11 DEF AP!RestoreStep

LEMMA WaitStep ==
    KeyringInv /\ KeyringInv' /\ FreshInv /\ DirectoryInv /\ NoOverwriters
      /\ AgeInv /\ AgeInv' /\ WaitInv /\ [Next]_vars
        => WaitInv'
<1> SUFFICES ASSUME KeyringInv, KeyringInv', FreshInv, DirectoryInv, NoOverwriters,
                    AgeInv, AgeInv', WaitInv, [Next]_vars, NEW q \in Restores
             PROVE  Waiting(q)'
  BY DEF WaitInv
<1>1. AgeReads
  BY YoungIsReadable
<1>2. AgeReads'
  BY YoungIsReadable, PTL
<1>3. \A r \in Runs : age[r] \in Nat /\ age'[r] \in Nat /\ age'[r] >= age[r]
  BY AgeStep DEF AgeInv
<1>4. /\ kpc \in [KP!Procs -> KP!WriterPC \cup KP!ReaderPC] /\ q \in KP!Procs
      /\ found \in [Restores -> Seq(Keys)]
      /\ Writers \subseteq KP!Procs /\ Restores \cap Writers = {}
  BY PartsAssumption DEF KeyringInv, KP!RetentionInv, KP!TypeInv, KP!TypeOK, KP!Procs,
     KP!KeystoreAssumption
<1>5. ASSUME NEW w \in Writers, KP!WriterStep(w), KP!Observe, Age, UNCHANGED directory
      PROVE  Waiting(q)'
  <2>1. /\ found' = found /\ \A v \in KP!Procs \ {w} : kpc'[v] = kpc[v]
    BY <1>4, <1>5 DEF KP!WriterStep, KP!RotateGetActive, KP!RotateGetRetired,
       KP!RotateCarry, KP!RotateSetActive, KP!RotateVerify, KP!RotatePrune,
       KP!CreateCheck, KP!CreateSet, KP!CreateForget, KP!DeleteActive,
       KP!DeleteRetired, KP!Abort, KP!Goto
  <2>2. kpc'[q] = kpc[q]
    BY <1>4, <2>1
  <2>3. ASSUME KP!GivenUp, NEW r \in Runs, Holds(r)
        PROVE  age'[r] >= 2
    <3>1. kpc[w] = "force_set" /\ kpc'[w] = "create_forget"
      BY <1>4, <2>1, <2>3 DEF KP!GivenUp
    <3>2. active' # active /\ replaced' = NoKey
      BY <1>5, <3>1, ActiveChanges
    <3>3. pc[r] # "start"
      BY <2>3 DEF Holds, AgeInv, AP!Working
    <3>4. age'[r] = age[r] + 2
      BY <1>5, <3>2, <3>3 DEF Age, Generations
    <3> QED  BY <1>3, <3>4
  <2> QED  BY <1>2, <1>3, <1>5, <2>1, <2>2, <2>3, KeyringWaits
<1>6. ASSUME NEW p \in Restores, at[p] = "keys", KP!ReadActive(p) \/ KP!ReadRetired(p),
             KP!Observe, UNCHANGED <<directory, age>>
      PROVE  Waiting(q)'
  <2>1. /\ \A v \in KP!Procs \ {p} : kpc'[v] = kpc[v]
        /\ \A v \in Restores \ {p} : found'[v] = found[v]
        /\ kpc'[p] # "idle"
    BY <1>4, <1>6 DEF KP!ReadActive, KP!ReadRetired, KP!Goto, KP!Procs
  <2>2. ~KP!GivenUp
    BY <1>4, <1>6, <2>1 DEF KP!GivenUp
  <2>3. kpc'[q] = "idle" => kpc[q] = "idle"
    BY <1>4, <2>1
  <2>4. at[q] \in {"start", "route", "verify", "load"} =>
           kpc'[q] = kpc[q] /\ found'[q] = found[q]
    BY <1>4, <1>6, <2>1
  <2>5. UNCHANGED directory
    BY <1>6
  <2> QED  BY <1>2, <1>3, <1>6, <2>2, <2>3, <2>4, <2>5, KeyringWaits
<1>7. CASE UNCHANGED vars
  BY <1>7 DEF vars, keyring, directory, WaitInv, Waiting, KP!RangeOf, KP!Readable
<1> QED  BY <1>1, <1>5, <1>6, <1>7, RunWaits, RestoreWaits, Steps

-----------------------------------------------------------------------------
(* The theorems                                                              *)

(* A restore is refused only by a step that found the key of its prompt among*)
(* none of the stable ones, and never for its manifest.                      *)
LEMMA Refusal ==
    ASSUME KeyringInv, DirectoryInv, WaitInv, [Next]_vars,
           NEW q \in Restores, at'[q] # at[q], at'[q] \in {"integrity", "no_key"}
    PROVE  /\ at'[q] = "no_key" /\ at[q] # "start"
           /\ key[resp[q].of] \notin stable[q]
           /\ resp' = resp /\ age' = age
<1>1. /\ at \in [Restores -> AP!RestoreSteps]
      /\ left \in [Restores -> Seq(Keys)]
      /\ at[q] = "load" => left[q] # <<>>
  BY DEF DirectoryInv, AP!TypeOK
<1>2. Waiting(q)
  BY DEF WaitInv
<1>3. UNCHANGED AP!restores => at' = at
  BY DEF AP!restores
<1>4. UNCHANGED directory => at' = at
  BY DEF directory
<1>5. \A r \in Runs :
        (active # NoKey /\ AP!Preflight(r, active)) \/ AP!BlockInput(r) \/ AP!Publish(r)
            \/ AP!Fail(r) => at' = at
  BY DEF AP!Preflight, AP!BlockInput, AP!Publish, AP!Fail, AP!PublishManifest,
     AP!Collide, AP!ReadHash, AP!PublishPrompt, AP!PublishRoute, AP!restores
<1>6. PICK p \in Restores :
        /\ \/ AP!RestoreStep(p)
           \/ kpc[p] = "done" /\ AP!GetKeys(p, found[p])
           \/ kpc[p] = "idle" /\ active = NoKey /\ AP!GetKeys(p, <<>>)
        /\ UNCHANGED <<keyring, age>>
  BY <1>4, <1>5, Steps DEF vars
<1>7. p = q
  <2>1. \A o \in Restores \ {p} : at'[o] = at[o]
    BY <1>1, <1>6 DEF AP!RestoreStep, AP!TakeResponse, AP!ReadRoute, AP!Verify,
       AP!TryKey, AP!Substitute, AP!GetKeys, AP!Move
  <2> QED  BY <2>1
<1>8. KP!ReaderInv /\ KP!TypeInv
  BY DEF KeyringInv, KP!RetentionInv
<1>9. CASE AP!Verify(q)
  <2>1. /\ at[q] = "verify" /\ seen[q] = route /\ route # Absent
        /\ at' = [at EXCEPT ![q] = IF manifest = seen[q].sum THEN "keys" ELSE "integrity"]
    BY <1>2, <1>9 DEF AP!Verify, AP!Move, Waiting, DirectoryInv, AP!AnswerInv
  <2>2. route.sum = manifest
    BY <2>1 DEF DirectoryInv, AP!KeepInv
  <2> QED  BY <1>1, <2>1, <2>2
<1>10. CASE AP!TryKey(q)
  <2>1. /\ at[q] = "load" /\ resp' = resp /\ left[q] \in Seq(Keys) /\ left[q] # <<>>
        /\ ~AP!Decrypts(Head(left[q]), manifest) /\ Len(left[q]) = 1
        /\ at'[q] = "no_key"
    BY <1>1, <1>10 DEF AP!TryKey, AP!Move
  <2>2. key[resp[q].of] # Head(left[q])
    <3>1. manifest \in Runs /\ key[manifest] # Head(left[q])
      BY <2>1 DEF AP!Decrypts
    <3>2. prompt = resp[q].of /\ route # Absent /\ manifest = AP!Bytes(prompt)
      BY <2>1 DEF DirectoryInv, AP!AnswerInv, AP!KeepInv
    <3> QED  BY <3>1, <3>2, PartsAssumption DEF AP!Bytes, AP!ArtifactsAssumption
  <2>3. KP!RangeOf(left[q]) = {Head(left[q])}
    BY <2>1 DEF KP!RangeOf
  <2>4. key[resp[q].of] \notin KP!RangeOf(found[q]) /\ kpc[q] = "done"
    BY <1>2, <2>1, <2>2, <2>3 DEF Waiting
  <2> QED  BY <1>6, <1>8, <2>1, <2>4 DEF KP!ReaderInv
<1>11. CASE kpc[q] = "done" /\ AP!GetKeys(q, found[q])
  <2>1. at[q] = "keys" /\ resp' = resp /\ found[q] = <<>> /\ at'[q] = "no_key"
    BY <1>1, <1>11 DEF AP!GetKeys, AP!Move
  <2>2. KP!RangeOf(found[q]) = {}
    BY <2>1 DEF KP!RangeOf
  <2> QED  BY <1>6, <1>8, <1>11, <2>1, <2>2 DEF KP!ReaderInv
<1>12. CASE kpc[q] = "idle" /\ active = NoKey /\ AP!GetKeys(q, <<>>)
  <2>1. at[q] = "keys" /\ resp' = resp /\ at'[q] = "no_key"
    BY <1>1, <1>12 DEF AP!GetKeys, AP!Move
  <2>2. stable[q] = {}
    BY <1>2, <1>8, <1>12, PartsAssumption, KP!ReadableRange DEF Waiting
  <2> QED  BY <1>6, <2>1, <2>2
<1> QED
  BY <1>1, <1>6, <1>7, <1>9, <1>10, <1>11, <1>12 DEF AP!RestoreStep, AP!TakeResponse,
     AP!ReadRoute, AP!Substitute, AP!Move

(* A restore has its answer for good.                                        *)
LEMMA AnswerKept ==
    ASSUME [Next]_vars, DirectoryInv, NEW q \in Restores, at[q] # "start"
    PROVE  resp'[q] = resp[q]
<1>1. resp \in [Restores -> AP!Response \cup {Absent}]
  BY DEF DirectoryInv, AP!TypeOK
<1>2. CASE UNCHANGED directory
  BY <1>2 DEF directory
<1>3. ASSUME NEW r \in Runs,
             (active # NoKey /\ AP!Preflight(r, active)) \/ AP!BlockInput(r)
                \/ AP!Publish(r) \/ AP!Fail(r)
      PROVE  resp' = resp
  BY <1>3 DEF AP!Preflight, AP!BlockInput, AP!Publish, AP!Fail, AP!PublishManifest,
     AP!Collide, AP!ReadHash, AP!PublishPrompt, AP!PublishRoute, AP!restores
<1>4. ASSUME NEW p \in Restores, AP!RestoreStep(p) \/ \E ks : AP!GetKeys(p, ks)
      PROVE  resp'[q] = resp[q]
  BY <1>1, <1>4 DEF AP!RestoreStep, AP!TakeResponse, AP!ReadRoute, AP!Verify,
     AP!TryKey, AP!Substitute, AP!GetKeys
<1> QED  BY <1>2, <1>3, <1>4, Steps DEF vars

MachineInv == FreshInv /\ AgeInv /\ WaitInv /\ AnswerIsRestorable

LEMMA InitMachine == Init => MachineInv
<1> SUFFICES ASSUME Init PROVE MachineInv
  OBVIOUS
<1>1. KP!Init /\ AP!Init /\ age = [r \in Runs |-> 0]
  BY SameInit DEF Init
<1>2. \A r \in Runs : pc[r] = "start" /\ prompt # r /\ ~Holds(r) /\ age[r] = 0
  BY <1>1, PartsAssumption DEF AP!Init, Holds, AP!Working, AP!ArtifactsAssumption
<1>3. \A q \in Restores : /\ at[q] = "start" /\ kpc[q] = "idle"
                          /\ stable[q] = KP!RangeOf(KP!Readable)
  BY <1>1 DEF KP!Init, KP!Procs, AP!Init
<1>4. \A w \in Writers : kpc[w] = "idle"
  BY <1>1 DEF KP!Init, KP!Procs
<1> QED
  BY <1>2, <1>3, <1>4 DEF MachineInv, FreshInv, AgeInv, WaitInv, Waiting,
     AnswerIsRestorable

LEMMA MachineStep ==
    SingleWriter /\ NoOverwriters /\ KeyringInv /\ KeyringInv' /\ DirectoryInv
      /\ MachineInv /\ [Next]_vars
        => MachineInv'
<1> SUFFICES ASSUME SingleWriter, NoOverwriters, KeyringInv, KeyringInv', DirectoryInv,
                    MachineInv, [Next]_vars
             PROVE  MachineInv'
  OBVIOUS
<1>1. FreshInv /\ AgeInv /\ WaitInv /\ AnswerIsRestorable
  BY DEF MachineInv
<1>2. FreshInv'
  BY <1>1, FreshStep
<1>3. AgeInv' /\ \A r \in Runs : age'[r] >= age[r]
  BY <1>1, AgeStep
<1>4. WaitInv'
  BY <1>1, <1>3, WaitStep
<1>5. ASSUME NEW q \in Restores, at'[q] \in {"integrity", "no_key"}
      PROVE  age'[resp'[q].of] >= 2
  <2>1. CASE at'[q] # at[q]
    <3>1. /\ at[q] # "start" /\ key[resp[q].of] \notin stable[q]
          /\ resp' = resp /\ age' = age
      BY <1>1, <1>5, <2>1, Refusal
    <3>2. resp[q].of \in Runs
      BY <3>1, Answered
    <3> QED  BY <1>1, <3>1, <3>2 DEF WaitInv, Waiting, AgeInv
  <2>2. CASE at'[q] = at[q]
    <3>1. resp[q].of \in Runs /\ age[resp[q].of] >= 2
      BY <1>1, <1>5, <2>2, Answered DEF AnswerIsRestorable
    <3>2. resp'[q] = resp[q]
      BY <1>5, <2>2, AnswerKept
    <3> QED  BY <1>1, <1>3, <3>1, <3>2 DEF AgeInv
  <2> QED  BY <2>1, <2>2
<1> QED
  BY <1>2, <1>3, <1>4, <1>5 DEF MachineInv, AnswerIsRestorable

LEMMA MachineInvariant ==
    SingleWriter /\ NoOverwriters => (Spec => []MachineInv)
<1> SUFFICES ASSUME SingleWriter, NoOverwriters PROVE Spec => []MachineInv
  OBVIOUS
<1> QED
  BY InitMachine, MachineStep, KeyringInvariant, DirectoryInvariant, PTL DEF Spec

(* AnswerIsRestorable (ADR-23, ADR-46): with one writer and without          *)
(* --overwrite, for any keys, documents, runs and restores, an answer is     *)
(* refused only after two changes of the key since its prompt's run read it. *)
THEOREM AnswersStayRestorable ==
    SingleWriter /\ NoOverwriters => (Spec => []AnswerIsRestorable)
<1>1. MachineInv => AnswerIsRestorable
  BY DEF MachineInv
<1> QED  BY <1>1, MachineInvariant, PTL

(* OnlyLostKeysRefuse: under the same assumptions a key that stays readable  *)
(* from the first to the last step of a restore opens the manifest.          *)
THEOREM LostKeysAloneRefuse ==
    SingleWriter /\ NoOverwriters => (Spec => OnlyLostKeysRefuse)
<1> SUFFICES ASSUME SingleWriter, NoOverwriters PROVE Spec => OnlyLostKeysRefuse
  OBVIOUS
<1>1. KeyringInv /\ DirectoryInv /\ MachineInv /\ [Next]_vars =>
        [\A q \in Restores :
            at[q] # "no_key" /\ at'[q] = "no_key" => key[resp[q].of] \notin stable[q]]_vars
  BY Refusal DEF MachineInv
<1> QED
  BY <1>1, KeyringInvariant, DirectoryInvariant, MachineInvariant, PTL
     DEF Spec, OnlyLostKeysRefuse
=============================================================================
