-------------------------- MODULE ArtifactsProofs --------------------------
(***************************************************************************)
(* Theorems about Artifacts, for every set of runs, documents and restores.*)
(***************************************************************************)
EXTENDS Artifacts, TLAPS

-----------------------------------------------------------------------------
(* Types *)

LEMMA BytesType ==
    ASSUME NEW r \in Runs
    PROVE  Bytes(r) \in File /\ Bytes(r) # Absent
BY ArtifactsAssumption DEF Bytes, File

(* The assumption under which restores are called: the keyring hands out     *)
(* lists of keys.                                                            *)
LEMMA KeyListsAreLists == KeyLists \subseteq Seq(Keys)
<1>1. \A k \in Keys : <<k>> \in Seq(Keys)
  OBVIOUS
<1>2. \A k, l \in Keys : <<k, l>> \in Seq(Keys)
  OBVIOUS
<1> SUFFICES ASSUME NEW ks \in KeyLists PROVE ks \in Seq(Keys)
  OBVIOUS
<1>3. \/ ks = <<>>
      \/ \E k \in Keys : ks = <<k>>
      \/ \E k \in Keys : \E l \in Keys \ {k} : ks = <<k, l>>
  BY Zenon DEF KeyLists
<1>4. CASE ks = <<>>
  BY <1>4
<1> QED  BY <1>1, <1>2, <1>3, <1>4

LEMMA TypeInit == Init => TypeOK
BY DEF Init, TypeOK, File, PrepareSteps, RestoreSteps

(* A run keeps the types, *)
LEMMA TypePrepare ==
    ASSUME TypeOK, NEW r \in Runs, Prepare(r)
    PROVE  TypeOK'
<1> USE DEF TypeOK, PrepareSteps, Working, disk, prepares, restores, Goto
<1> Bytes(r) \in File
  BY BytesType
<1>1. ASSUME NEW k \in Keys, Preflight(r, k)
      PROVE  TypeOK'
  BY <1>1 DEF Preflight
<1>2. CASE BlockInput(r)
  BY <1>2 DEF BlockInput
<1>3. ASSUME NEW step \in Working, NEW entry, Collide(r, step, entry)
      PROVE  TypeOK'
  BY <1>3 DEF Collide
<1>4. CASE PublishManifest(r)
  BY <1>4 DEF PublishManifest
<1>5. CASE ReadHash(r)
  BY <1>5 DEF ReadHash
<1>6. CASE PublishPrompt(r)
  BY <1>6 DEF PublishPrompt
<1>7. CASE PublishRoute(r)
  <2> [by |-> r, sum |-> sum[r]] \in Route
    BY DEF Route
  <2> QED  BY <1>7 DEF PublishRoute
<1>8. CASE Fail(r)
  BY <1>8 DEF Fail
<1> QED
  BY <1>1, <1>2, <1>3, <1>4, <1>5, <1>6, <1>7, <1>8 DEF Prepare, Publish, Working

(* and so does a restore. *)
LEMMA TypeRestore ==
    ASSUME TypeOK, NEW q \in Restores,
           RestoreStep(q) \/ \E ks \in KeyLists : GetKeys(q, ks)
    PROVE  TypeOK'
<1> USE DEF TypeOK, RestoreSteps, Refusals, disk, prepares, restores, Move
<1>1. CASE TakeResponse(q)
  <2>1. PICK T \in SUBSET Tokens :
            resp' = [resp EXCEPT ![q] = [of |-> prompt, tokens |-> T]]
    BY <1>1 DEF TakeResponse
  <2>2. prompt \in Runs
    BY <1>1 DEF TakeResponse
  <2>3. [of |-> prompt, tokens |-> T] \in Response
    BY <2>2 DEF Response
  <2>4. [of |-> prompt, tokens |-> T] # Absent
    BY <2>3, ArtifactsAssumption
  <2> DEFINE answer == [of |-> prompt, tokens |-> T]
  <2>5. answer \in Response /\ answer # Absent /\ resp' = [resp EXCEPT ![q] = answer]
    BY <2>1, <2>3, <2>4
  <2> HIDE DEF answer
  <2>6. resp' \in [Restores -> Response \cup {Absent}] /\ resp'[q] # Absent
    BY <2>5
  <2>7. /\ at' = [at EXCEPT ![q] = "route"]
        /\ \A p \in Restores \ {q} : resp'[p] = resp[p]
        /\ UNCHANGED <<manifest, prompt, route, pc, key, sum, overlapped, seen, left, got>>
    BY <1>1, <2>5 DEF TakeResponse
  <2>8. at' \in [Restores -> RestoreSteps] /\ at'[q] = "route"
        /\ \A p \in Restores \ {q} : at'[p] = at[p]
    BY <2>7
  <2>9. ASSUME NEW p \in Restores
        PROVE  /\ at'[p] # "start" => resp'[p] # Absent
               /\ at'[p] \in {"verify", "keys", "load"} => seen'[p] # Absent
               /\ at'[p] = "load" => left'[p] # <<>>
    <3>1. CASE p = q
      BY <2>6, <2>8, <3>1
    <3>2. CASE p # q
      BY <2>7, <2>8, <3>2
    <3> QED  BY <3>1, <3>2
  <2>10. /\ manifest' \in File /\ prompt' \in Runs \cup {Absent}
         /\ route' \in Route \cup {Absent} /\ overlapped' \subseteq Runs
         /\ pc' \in [Runs -> PrepareSteps] /\ key' \in [Runs -> Keys \cup {Absent}]
         /\ sum' \in [Runs -> File] /\ seen' \in [Restores -> Route \cup {Absent}]
         /\ left' \in [Restores -> Seq(Keys)] /\ got' \in [Restores -> File]
    BY <2>7
  <2> QED  BY <2>6, <2>8, <2>9, <2>10
<1>2. CASE ReadRoute(q)
  <2> UNCHANGED <<disk, prepares, resp, left, got>>
    BY <1>2 DEF ReadRoute
  <2>1. CASE route = Absent
    <3> at[q] = "route" /\ at' = [at EXCEPT ![q] = "no_route"] /\ seen' = seen
      BY <1>2, <2>1 DEF ReadRoute
    <3> QED  OBVIOUS
  <2>2. CASE route # Absent
    <3> /\ at[q] = "route" /\ at' = [at EXCEPT ![q] = "verify"]
        /\ seen' = [seen EXCEPT ![q] = route]
      BY <1>2, <2>2 DEF ReadRoute
    <3> QED  BY <2>2
  <2> QED  BY <2>1, <2>2
<1>3. CASE Verify(q)
  BY <1>3 DEF Verify
<1>4. CASE TryKey(q)
  <2> UNCHANGED <<manifest, prompt, route, pc, key, sum, overlapped, resp, seen>>
    BY <1>4 DEF TryKey
  <2>1. CASE Decrypts(Head(left[q]), manifest)
    <3>1. /\ at[q] = "load"
          /\ got' = [got EXCEPT ![q] = manifest]
          /\ at' = [at EXCEPT ![q] = "substitute"]
          /\ left' = left
      BY <1>4, <2>1 DEF TryKey
    <3> QED  BY <3>1
  <2>2. CASE ~Decrypts(Head(left[q]), manifest)
    <3> DEFINE tail == Tail(left[q])
    <3>1. /\ left[q] \in Seq(Keys) /\ left[q] # <<>>
          /\ left' = [left EXCEPT ![q] = tail]
          /\ at' = [at EXCEPT ![q] = IF Len(left[q]) = 1 THEN "no_key" ELSE "load"]
          /\ at[q] = "load" /\ got' = got
      BY <1>4, <2>2 DEF TryKey
    <3>2. tail \in Seq(Keys) /\ Len(tail) = Len(left[q]) - 1
      BY <3>1
    <3>3. ASSUME Len(left[q]) # 1
          PROVE  tail # <<>>
      <4>1. Len(left[q]) \in Nat /\ Len(<<>>) = 0
        BY <3>1
      <4> HIDE DEF tail
      <4> QED  BY <3>2, <3>3, <4>1
    <3>4. CASE Len(left[q]) = 1
      <4> at' = [at EXCEPT ![q] = "no_key"]
        BY <3>1, <3>4
      <4> HIDE DEF tail
      <4> QED  BY <3>1, <3>2
    <3>5. CASE Len(left[q]) # 1
      <4> at' = [at EXCEPT ![q] = "load"]
        BY <3>1, <3>5
      <4> tail # <<>>
        BY <3>3, <3>5
      <4> HIDE DEF tail
      <4> QED  BY <3>1, <3>2
    <3> QED  BY <3>4, <3>5
  <2> QED  BY <2>1, <2>2
<1>5. CASE Substitute(q)
  BY <1>5 DEF Substitute
<1>6. ASSUME NEW ks \in KeyLists, GetKeys(q, ks)
      PROVE  TypeOK'
  BY <1>6, KeyListsAreLists DEF GetKeys
<1> QED
  BY <1>1, <1>2, <1>3, <1>4, <1>5, <1>6 DEF RestoreStep

LEMMA TypeNext == TypeOK /\ [Next]_vars => TypeOK'
<1> SUFFICES ASSUME TypeOK, [Next]_vars PROVE TypeOK'
  OBVIOUS
<1>1. CASE UNCHANGED vars
  BY <1>1 DEF TypeOK, vars
<1>2. CASE Next
  BY <1>2, TypePrepare, TypeRestore DEF Next
<1> QED  BY <1>1, <1>2

(* Every variable always has its type: in particular a restore never takes   *)
(* the head of an empty list of keys.                                        *)
THEOREM TypeCorrect == Spec => []TypeOK
BY TypeInit, TypeNext, PTL DEF Spec

-----------------------------------------------------------------------------
(* What a step does to the directory *)

(* A run other than an overwriter changes no entry that is there, and of     *)
(* those that are not it writes the one it has come to.                      *)
LEMMA KeeperStep ==
    ASSUME NEW r \in Runs, Prepare(r), r \notin Overwriters
    PROVE  /\ manifest # Absent => manifest' = manifest
           /\ prompt # Absent => prompt' = prompt
           /\ route # Absent => route' = route
<1> USE DEF disk
<1> QED
  BY DEF Prepare, Publish, Preflight, BlockInput, Collide, PublishManifest,
         ReadHash, PublishPrompt, PublishRoute, Fail, MayPublish

(* A restore changes neither the directory nor a run. *)
LEMMA RestoreReads ==
    ASSUME NEW q \in Restores,
           RestoreStep(q) \/ \E ks \in KeyLists : GetKeys(q, ks)
    PROVE  UNCHANGED <<disk, prepares>>
BY DEF disk, prepares, RestoreStep, TakeResponse, ReadRoute, Verify, TryKey,
       Substitute, GetKeys

(* A step of a run ends at a step other than the one it began at, and leaves *)
(* the other runs alone.                                                     *)
LEMMA PrepareMoves ==
    ASSUME TypeOK, NEW r \in Runs, Prepare(r)
    PROVE  /\ pc'[r] # pc[r]
           /\ \A s \in Runs \ {r} : pc'[s] = pc[s] /\ sum'[s] = sum[s]
           /\ UNCHANGED restores
<1> USE DEF TypeOK, Goto, restores, Working
<1> QED
  BY DEF Prepare, Publish, Preflight, BlockInput, Collide, PublishManifest,
         ReadHash, PublishPrompt, PublishRoute, Fail

(* Without --overwrite a run never replaces an artifact (ADR-64). *)
THEOREM NeverClobbers == Spec => NoClobber
<1> DEFINE Kept == /\ manifest # Absent => manifest' = manifest
                   /\ prompt # Absent => prompt' = prompt
                   /\ route # Absent => route' = route
           Idle == \A r \in Overwriters : pc'[r] = pc[r]
<1>1. TypeOK /\ [Next]_vars =>
          [Idle => Kept]_<<manifest, prompt, route, pc>>
  <2> SUFFICES ASSUME TypeOK, [Next]_vars, Idle PROVE Kept
    OBVIOUS
  <2>1. CASE UNCHANGED vars
    BY <2>1 DEF vars
  <2>2. ASSUME NEW r \in Runs, Prepare(r)
        PROVE  Kept
    <3>1. r \notin Overwriters
      BY <2>2, PrepareMoves
    <3> QED  BY <2>2, <3>1, KeeperStep
  <2>3. ASSUME NEW q \in Restores,
               RestoreStep(q) \/ \E ks \in KeyLists : GetKeys(q, ks)
        PROVE  Kept
    BY <2>3, RestoreReads DEF disk
  <2> QED  BY <2>1, <2>2, <2>3 DEF Next
<1> QED  BY <1>1, TypeCorrect, PTL DEF Spec, NoClobber

-----------------------------------------------------------------------------
(* The order of publication *)

(* A run past its manifest, or past its prompt, finds what it published, or  *)
(* what replaced it.                                                         *)
PublishedInv ==
    /\ RouteLast
    /\ prompt # Absent => manifest # Absent
    /\ \A r \in Runs : pc[r] \in {"hash", "prompt", "route"} => manifest # Absent
    /\ \A r \in Runs : pc[r] = "route" => prompt # Absent

LEMMA PublishedStep ==
    ASSUME TypeOK, PublishedInv, NEW r \in Runs, Prepare(r)
    PROVE  PublishedInv'
<1> USE DEF PublishedInv, RouteLast, TypeOK, Goto, disk
<1>1. CASE \/ \E k \in Keys : Preflight(r, k)
          \/ BlockInput(r) \/ ReadHash(r) \/ Fail(r)
          \/ Collide(r, "manifest", manifest) \/ Collide(r, "prompt", prompt)
          \/ Collide(r, "route", route)
  BY <1>1 DEF Preflight, BlockInput, ReadHash, Fail, Collide
<1>2. CASE PublishManifest(r)
  BY <1>2, BytesType DEF PublishManifest
<1>3. CASE PublishPrompt(r)
  BY <1>3, ArtifactsAssumption DEF PublishPrompt
<1>4. CASE PublishRoute(r)
  BY <1>4 DEF PublishRoute
<1> QED  BY <1>1, <1>2, <1>3, <1>4 DEF Prepare, Publish

(* Whatever overlaps and crashes, with --overwrite or without, a directory   *)
(* with a route has the other two artifacts.                                 *)
THEOREM RouteComesLast == Spec => []RouteLast
<1>1. Init => PublishedInv
  BY DEF Init, PublishedInv, RouteLast
<1>2. TypeOK /\ PublishedInv /\ [Next]_vars => PublishedInv'
  <2> SUFFICES ASSUME TypeOK, PublishedInv, [Next]_vars PROVE PublishedInv'
    OBVIOUS
  <2>1. ASSUME UNCHANGED <<disk, prepares>>
        PROVE  PublishedInv'
    BY <2>1 DEF PublishedInv, RouteLast, disk, prepares
  <2>2. CASE UNCHANGED vars
    BY <2>1, <2>2 DEF vars, disk, prepares
  <2> QED  BY <2>1, <2>2, PublishedStep, RestoreReads DEF Next
<1>3. PublishedInv => RouteLast
  BY DEF PublishedInv
<1> QED  BY <1>1, <1>2, <1>3, TypeCorrect, PTL DEF Spec

-----------------------------------------------------------------------------
(* Overwriting runs that overlap no other run *)

Writing == {"hash", "prompt", "route"}

(* While a run writes it alone does; the entries it has written and the sum  *)
(* it has read are its own; and a route was written by a run that has ended, *)
(* so that no run that still works can have the same bytes unless they are   *)
(* the common empty manifest.                                                *)
ExclusiveInv ==
    /\ \A r, s \in Runs :
          pc[r] \in Working /\ pc[s] \in Working /\ r # s => r \notin Overwriters
    /\ \A r, s \in Runs : pc[r] \in Writing /\ pc[s] \in Writing => r = s
    /\ \A r \in Runs : pc[r] \in Writing => manifest = Bytes(r)
    /\ \A r \in Runs : pc[r] \in {"prompt", "route"} => sum[r] = Bytes(r)
    /\ \A r \in Runs : pc[r] = "route" => prompt = r
    /\ route # Absent => route.sum = Bytes(route.by) /\ pc[route.by] = "ok"
    /\ MismatchIsDetected

LEMMA SameBytes ==
    ASSUME NEW r \in Runs, NEW s \in Runs, Bytes(r) = Bytes(s), Bytes(r) # Plain
    PROVE  r = s
BY DEF Bytes

LEMMA RouteRecord ==
    ASSUME TypeOK, route # Absent
    PROVE  route.by \in Runs
BY DEF TypeOK, Route

LEMMA ExclusiveStep ==
    ASSUME overlapped' = {}, TypeOK, ExclusiveInv, NEW r \in Runs, Prepare(r)
    PROVE  ExclusiveInv'
<1> USE DEF ExclusiveInv, Working, Writing, disk, Goto
<1> pc \in [Runs -> PrepareSteps] /\ sum \in [Runs -> File]
  BY DEF TypeOK
<1>0. route # Absent => route.by \in Runs
  BY RouteRecord
<1>b. \A s \in Runs : Bytes(s)' = Bytes(s)
  BY DEF Bytes
<1>1. ASSUME NEW k \in Keys, Preflight(r, k)
      PROVE  ExclusiveInv'
  BY <1>0, <1>1 DEF Preflight, Overlap, MismatchIsDetected, Bytes
<1>2. CASE BlockInput(r)
  BY <1>0, <1>2 DEF BlockInput, MismatchIsDetected, Bytes
<1>3. ASSUME NEW step \in Working, NEW entry, Collide(r, step, entry)
      PROVE  ExclusiveInv'
  BY <1>0, <1>3 DEF Collide, MismatchIsDetected, Bytes
<1>4. CASE PublishManifest(r)
  <2>1. /\ pc[r] = "manifest" /\ manifest' = Bytes(r)
        /\ pc' = [pc EXCEPT ![r] = "hash"]
        /\ UNCHANGED <<prompt, route, sum>>
    BY <1>4 DEF PublishManifest
  <2>2. MismatchIsDetected'
    <3> SUFFICES ASSUME route # Absent, Bytes(r) = route.sum
                 PROVE  /\ Bytes(r) = Bytes(route.by)
                        /\ Bytes(r) # Plain => prompt = route.by
      BY <2>1 DEF MismatchIsDetected, Bytes
    <3>1. Bytes(r) = Bytes(route.by) /\ pc[route.by] = "ok"
      OBVIOUS
    <3> QED  BY <1>0, <2>1, <3>1, SameBytes
  <2>3. \A s \in Runs : pc[s] \notin Writing
    <3>1. CASE r \in Overwriters
      BY <2>1, <3>1
    <3>2. CASE manifest = Absent
      BY <2>1, <3>2, ArtifactsAssumption DEF Bytes
    <3> QED  BY <1>4, <3>1, <3>2 DEF PublishManifest, MayPublish
  <2>4. route # Absent => route.by # r
    BY <2>1
  <2> QED  BY <1>0, <1>b, <2>1, <2>2, <2>3, <2>4
<1>5. CASE ReadHash(r)
  BY <1>0, <1>5 DEF ReadHash, MismatchIsDetected, Bytes
<1>6. CASE PublishPrompt(r)
  <2>1. /\ pc[r] = "prompt" /\ prompt' = r
        /\ pc' = [pc EXCEPT ![r] = "route"]
        /\ UNCHANGED <<manifest, route, sum>>
    BY <1>6 DEF PublishPrompt
  <2>2. MismatchIsDetected'
    <3> SUFFICES ASSUME route # Absent, manifest = route.sum, manifest # Plain
                 PROVE  FALSE
      BY <2>1 DEF MismatchIsDetected, Bytes
    <3>1. Bytes(r) = Bytes(route.by) /\ pc[route.by] = "ok" /\ Bytes(r) # Plain
      BY <2>1
    <3> QED  BY <1>0, <2>1, <3>1, SameBytes
  <2>3. \A s \in Runs : pc[s] \in Writing => s = r
    BY <2>1
  <2> QED  BY <1>0, <1>b, <2>1, <2>2, <2>3
<1>7. CASE PublishRoute(r)
  <2>1. /\ pc[r] = "route" /\ route' = [by |-> r, sum |-> sum[r]]
        /\ pc' = [pc EXCEPT ![r] = "ok"]
        /\ UNCHANGED <<manifest, prompt, sum>>
    BY <1>7 DEF PublishRoute
  <2>2. route'.by = r /\ route'.sum = Bytes(r) /\ manifest = Bytes(r) /\ prompt = r
    BY <2>1
  <2>3. MismatchIsDetected'
    BY <2>1, <2>2, <1>b DEF MismatchIsDetected
  <2>4. \A s \in Runs : pc[s] \in Writing => s = r
    BY <2>1
  <2> QED  BY <1>b, <2>1, <2>2, <2>3, <2>4
<1>8. CASE Fail(r)
  BY <1>0, <1>8 DEF Fail, MismatchIsDetected, Bytes
<1> QED
  BY <1>1, <1>2, <1>3, <1>4, <1>5, <1>6, <1>7, <1>8 DEF Prepare, Publish

(* Runs leave no verifiable mixture of two documents, whatever crashes end   *)
(* them, as long as one with --overwrite overlaps no other run.              *)
THEOREM ExclusiveSets == Spec => []SetIsOneRun
<1> DEFINE Inv == overlapped = {} => ExclusiveInv
<1>1. Init => Inv
  BY DEF Init, ExclusiveInv, MismatchIsDetected, Working, Writing
<1>2. TypeOK /\ Inv /\ [Next]_vars => Inv'
  <2> SUFFICES ASSUME TypeOK, Inv, [Next]_vars, overlapped' = {} PROVE ExclusiveInv'
    OBVIOUS
  <2>1. ExclusiveInv
    <3>1. CASE UNCHANGED overlapped
      BY <3>1
    <3>2. ASSUME NEW r \in Runs, Prepare(r) PROVE overlapped = {}
      BY <3>2 DEF Prepare, Preflight, BlockInput, Publish, PublishManifest, Collide, ReadHash,
         PublishPrompt, PublishRoute, Fail
    <3>3. ASSUME NEW q \in Restores, RestoreStep(q) \/ \E ks \in KeyLists : GetKeys(q, ks)
          PROVE  UNCHANGED overlapped
      BY <3>3, RestoreReads DEF prepares
    <3> QED  BY <3>1, <3>2, <3>3 DEF Next, vars
  <2>2. ASSUME UNCHANGED <<disk, prepares>>
        PROVE  ExclusiveInv'
    BY <2>1, <2>2 DEF ExclusiveInv, MismatchIsDetected, Bytes, disk, prepares
  <2>3. CASE UNCHANGED vars
    BY <2>2, <2>3 DEF vars, disk, prepares
  <2> QED  BY <2>1, <2>2, <2>3, ExclusiveStep, RestoreReads DEF Next
<1>3. Inv => SetIsOneRun
  BY DEF ExclusiveInv, SetIsOneRun
<1> QED  BY <1>1, <1>2, <1>3, TypeCorrect, PTL DEF Spec

-----------------------------------------------------------------------------
(* Runs without --overwrite *)

(* manifest.json is the lock: the run that has created it owns the set, even *)
(* when another document has the same bytes, and finds the other two names   *)
(* free when it comes to them.                                               *)
Owner(r) == pc[r] \in {"hash", "prompt", "route", "ok"}

KeepInv ==
    /\ manifest = Absent =>
           prompt = Absent /\ route = Absent /\ \A r \in Runs : ~Owner(r)
    /\ \A r, s \in Runs : Owner(r) /\ Owner(s) => r = s
    /\ \A r \in Runs : Owner(r) => manifest = Bytes(r)
    /\ \A r \in Runs : pc[r] \in {"prompt", "route"} => sum[r] = Bytes(r)
    /\ \A r \in Runs : pc[r] \in {"hash", "prompt", "route"} => route = Absent
    /\ \A r \in Runs : pc[r] \in {"route", "ok"} => prompt = r
    /\ \A r \in Runs : pc[r] = "ok" => route = [by |-> r, sum |-> Bytes(r)]
    /\ route # Absent => /\ manifest = Bytes(route.by) /\ prompt = route.by
                         /\ route = [by |-> route.by, sum |-> Bytes(route.by)]

LEMMA KeepStep ==
    ASSUME Overwriters = {}, TypeOK, KeepInv, NEW r \in Runs, Prepare(r)
    PROVE  KeepInv'
<1> USE DEF KeepInv, Owner, disk, Goto
<1> pc \in [Runs -> PrepareSteps] /\ sum \in [Runs -> File]
  BY DEF TypeOK
<1>b. \A s \in Runs : Bytes(s)' = Bytes(s) /\ Bytes(s) # Absent
  BY BytesType DEF Bytes
<1>n. route # Absent => route.by \in Runs
  BY RouteRecord
<1>1. ASSUME NEW k \in Keys, Preflight(r, k)
      PROVE  KeepInv'
  BY <1>1, <1>b, <1>n DEF Preflight
<1>2. CASE BlockInput(r)
  BY <1>2, <1>b, <1>n DEF BlockInput
<1>3. ASSUME NEW step \in Working, NEW entry, Collide(r, step, entry)
      PROVE  KeepInv'
  BY <1>3, <1>b, <1>n DEF Collide, Working
<1>4. CASE PublishManifest(r)
  <2>1. /\ pc[r] = "manifest" /\ manifest = Absent /\ manifest' = Bytes(r)
        /\ pc' = [pc EXCEPT ![r] = "hash"]
        /\ UNCHANGED <<prompt, route, sum>>
    BY <1>4 DEF PublishManifest, MayPublish
  <2> QED  BY <1>b, <2>1
<1>5. CASE ReadHash(r)
  <2>1. /\ pc[r] = "hash" /\ sum' = [sum EXCEPT ![r] = Bytes(r)]
        /\ pc' = [pc EXCEPT ![r] = "prompt"]
        /\ UNCHANGED disk
    BY <1>5 DEF ReadHash
  <2> QED  BY <1>b, <1>n, <2>1
<1>6. CASE PublishPrompt(r)
  <2>1. /\ pc[r] = "prompt" /\ prompt' = r
        /\ pc' = [pc EXCEPT ![r] = "route"]
        /\ UNCHANGED <<manifest, route, sum>>
    BY <1>6 DEF PublishPrompt
  <2> QED  BY <1>b, <2>1
<1>7. CASE PublishRoute(r)
  <2>1. /\ pc[r] = "route" /\ route' = [by |-> r, sum |-> Bytes(r)]
        /\ pc' = [pc EXCEPT ![r] = "ok"]
        /\ UNCHANGED <<manifest, prompt, sum>>
    BY <1>7 DEF PublishRoute
  <2>2. route'.by = r
    BY <2>1
  <2> QED  BY <1>b, <2>1, <2>2
<1>8. CASE Fail(r)
  BY <1>8, <1>b, <1>n DEF Fail, Working
<1> QED
  BY <1>1, <1>2, <1>3, <1>4, <1>5, <1>6, <1>7, <1>8 DEF Prepare, Publish, Working

LEMMA KeepInvariant == Overwriters = {} => (Spec => []KeepInv)
<1> SUFFICES ASSUME Overwriters = {} PROVE Spec => []KeepInv
  OBVIOUS
<1>1. Init => KeepInv
  BY DEF Init, KeepInv, Owner
<1>2. TypeOK /\ KeepInv /\ [Next]_vars => KeepInv'
  <2> SUFFICES ASSUME TypeOK, KeepInv, [Next]_vars PROVE KeepInv'
    OBVIOUS
  <2>1. ASSUME UNCHANGED <<disk, prepares>>
        PROVE  KeepInv'
    BY <2>1 DEF KeepInv, Owner, Bytes, disk, prepares
  <2>2. CASE UNCHANGED vars
    BY <2>1, <2>2 DEF vars, disk, prepares
  <2> QED  BY <2>1, <2>2, KeepStep, RestoreReads DEF Next
<1> QED  BY <1>1, <1>2, TypeCorrect, PTL DEF Spec

(* The status OK of a run without --overwrite is a promise that lasts. *)
THEOREM OkSetIsOwn == Spec => []OkMeansOwnSet
<1>1. CASE Overwriters = {}
  <2>1. KeepInv => OkMeansOwnSet
    BY DEF KeepInv, Owner, OkMeansOwnSet
  <2> QED  BY <1>1, <2>1, KeepInvariant, PTL
<1>2. CASE Overwriters # {}
  <2>1. OkMeansOwnSet
    BY <1>2 DEF OkMeansOwnSet
  <2> QED  BY <2>1, PTL
<1> QED  BY <1>1, <1>2

(* Without --overwrite the directory implements the register that is written *)
(* once, with the whole set of one run.                                      *)
THEOREM DirectoryIsWriteOnce == Overwriters = {} => (Spec => ImplementsWriteOnce)
<1> SUFFICES ASSUME Overwriters = {} PROVE Spec => ImplementsWriteOnce
  OBVIOUS
<1>1. Init => Directory!Init
  BY DEF Init, Directory!Init, Set
<1>2. TypeOK /\ KeepInv /\ KeepInv' /\ [Next]_vars =>
          [Directory!Next]_Set
  <2> SUFFICES ASSUME TypeOK, KeepInv, KeepInv', [Next]_vars
               PROVE  [Directory!Next]_Set
    OBVIOUS
  <2>1. ASSUME UNCHANGED disk
        PROVE  [Directory!Next]_Set
    BY <2>1 DEF disk, Set
  <2>2. ASSUME NEW r \in Runs, Prepare(r), route # Absent
        PROVE  UNCHANGED disk
    BY <2>2, KeeperStep DEF KeepInv, disk
  <2>3. ASSUME NEW r \in Runs, Prepare(r), route = Absent, route' = Absent
        PROVE  [Directory!Next]_Set
    BY <2>3 DEF Set
  <2>4. ASSUME NEW r \in Runs, Prepare(r), route = Absent, route' # Absent
        PROVE  [Directory!Next]_Set
    <3>1. route' = [by |-> r, sum |-> sum[r]] /\ manifest' = manifest /\ prompt' = prompt
      BY <2>4 DEF Prepare, Publish, Preflight, BlockInput, Collide, PublishManifest,
                  ReadHash, PublishPrompt, PublishRoute, Fail, disk
    <3>2. route'.by = r
      BY <3>1
    <3>3. /\ manifest' = Bytes(r) /\ prompt' = r
          /\ route' = [by |-> r, sum |-> Bytes(r)]
      <4>1. Bytes(r)' = Bytes(r)
        BY DEF Bytes
      <4> QED  BY <2>4, <3>2, <4>1 DEF KeepInv, Bytes
    <3>4. Set = Absent /\ Set' = Directory!SetOf(r)
      BY <2>4, <3>3 DEF Set, Directory!SetOf
    <3> QED  BY <3>4 DEF Directory!Next, Directory!Publish
  <2>5. CASE UNCHANGED vars
    BY <2>1, <2>5 DEF vars, disk
  <2>6. ASSUME NEW q \in Restores,
               RestoreStep(q) \/ \E ks \in KeyLists : GetKeys(q, ks)
        PROVE  [Directory!Next]_Set
    BY <2>1, <2>6, RestoreReads
  <2> QED  BY <2>1, <2>2, <2>3, <2>4, <2>5, <2>6 DEF Next
<1> QED
  BY <1>1, <1>2, TypeCorrect, KeepInvariant, PTL
     DEF Spec, ImplementsWriteOnce, Directory!Spec

-----------------------------------------------------------------------------
(* The round trip without --overwrite *)

(* What a restore has read is still on the disk. *)
AnswerInv ==
    \A q \in Restores :
        /\ at[q] # "start" => prompt = resp[q].of
        /\ at[q] \in {"verify", "keys", "load", "substitute", "ok"} => route # Absent
        /\ at[q] \in {"substitute", "ok"} => got[q] = manifest

LEMMA AnswerPrepare ==
    ASSUME Overwriters = {}, TypeOK, KeepInv, AnswerInv, NEW r \in Runs, Prepare(r)
    PROVE  AnswerInv'
<1> SUFFICES ASSUME NEW q \in Restores
             PROVE  /\ at[q] # "start" => prompt' = resp[q].of
                    /\ at[q] \in {"verify", "keys", "load", "substitute", "ok"}
                           => route' # Absent
                    /\ at[q] \in {"substitute", "ok"} => got[q] = manifest'
  BY PrepareMoves DEF AnswerInv, restores
<1>1. /\ manifest # Absent => manifest' = manifest
      /\ prompt # Absent => prompt' = prompt
      /\ route # Absent => route' = route
  BY KeeperStep
<1>2. at[q] # "start" => prompt # Absent
  <2>1. at[q] # "start" => resp[q] \in Response
    BY DEF TypeOK
  <2>2. at[q] # "start" => resp[q].of \in Runs
    BY <2>1 DEF Response
  <2> QED  BY <2>2, ArtifactsAssumption DEF AnswerInv
<1>3. route # Absent => manifest # Absent
  BY DEF KeepInv
<1> QED  BY <1>1, <1>2, <1>3 DEF AnswerInv

LEMMA AnswerRestore ==
    ASSUME TypeOK, AnswerInv, NEW p \in Restores,
           RestoreStep(p) \/ \E ks \in KeyLists : GetKeys(p, ks)
    PROVE  AnswerInv'
<1> SUFFICES ASSUME NEW q \in Restores
             PROVE  /\ at'[q] # "start" => prompt' = resp'[q].of
                    /\ at'[q] \in {"verify", "keys", "load", "substitute", "ok"}
                           => route' # Absent
                    /\ at'[q] \in {"substitute", "ok"} => got'[q] = manifest'
  BY DEF AnswerInv
<1> USE DEF AnswerInv, TypeOK, disk, Move
<1>1. CASE TakeResponse(p)
  BY <1>1 DEF TakeResponse
<1>2. CASE ReadRoute(p)
  BY <1>2 DEF ReadRoute
<1>3. CASE Verify(p)
  BY <1>3 DEF Verify
<1>4. CASE TryKey(p)
  BY <1>4 DEF TryKey
<1>5. CASE Substitute(p)
  BY <1>5 DEF Substitute
<1>6. ASSUME NEW ks \in KeyLists, GetKeys(p, ks)
      PROVE  /\ at'[q] # "start" => prompt' = resp'[q].of
             /\ at'[q] \in {"verify", "keys", "load", "substitute", "ok"}
                    => route' # Absent
             /\ at'[q] \in {"substitute", "ok"} => got'[q] = manifest'
  BY <1>6 DEF GetKeys
<1> QED  BY <1>1, <1>2, <1>3, <1>4, <1>5, <1>6 DEF RestoreStep

LEMMA AnswerInvariant == Overwriters = {} => (Spec => []AnswerInv)
<1> SUFFICES ASSUME Overwriters = {} PROVE Spec => []AnswerInv
  OBVIOUS
<1>1. Init => AnswerInv
  BY DEF Init, AnswerInv
<1>2. TypeOK /\ KeepInv /\ AnswerInv /\ [Next]_vars => AnswerInv'
  <2> SUFFICES ASSUME TypeOK, KeepInv, AnswerInv, [Next]_vars PROVE AnswerInv'
    OBVIOUS
  <2>1. CASE UNCHANGED vars
    BY <2>1 DEF vars, AnswerInv
  <2> QED  BY <2>1, AnswerPrepare, AnswerRestore DEF Next
<1> QED  BY <1>1, <1>2, TypeCorrect, KeepInvariant, PTL DEF Spec

(* The values a restore puts into an answer are those of the document the    *)
(* answered prompt was made of.                                              *)
THEOREM OwnValues == Overwriters = {} => (Spec => []RestoredFromOwnPrompt)
<1> SUFFICES ASSUME Overwriters = {} PROVE Spec => []RestoredFromOwnPrompt
  OBVIOUS
<1>1. KeepInv /\ AnswerInv => RestoredFromOwnPrompt
  <2> SUFFICES ASSUME KeepInv, AnswerInv, NEW q \in Restores, Replaced(q) # {}
               PROVE  got[q] = resp[q].of
    BY DEF RestoredFromOwnPrompt
  <2>1. at[q] = "ok" /\ got[q] \in Runs
    BY DEF Replaced, TokensIn
  <2>2. got[q] = Bytes(resp[q].of)
    BY <2>1 DEF AnswerInv, KeepInv
  <2> QED  BY <2>1, <2>2, ArtifactsAssumption DEF Bytes
<1> QED  BY <1>1, AnswerInvariant, KeepInvariant, PTL
=============================================================================
