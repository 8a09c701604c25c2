----------------------------- MODULE Artifacts -----------------------------
(***************************************************************************)
(* One output directory with its three artifacts, the prepare runs         *)
(* (pipeline.py, manifest.py, publish.py) that publish them one file at a  *)
(* time, and the restores (restore.py, routing.py) that read them back.    *)
(*                                                                         *)
(* Every file is published by one atomic name operation (os.link or        *)
(* os.replace of a finished temporary file), and no lock spans two of      *)
(* them: runs, restores and crashes interleave between any two steps.      *)
(*                                                                         *)
(* Data abstraction: a document is the run that prepared it.  The bytes of *)
(* a manifest are that run's own, since Fernet never encrypts to the same  *)
(* bytes twice, except that every document without entities has the same   *)
(* manifest "[]".  A SHA-256 sum stands for the bytes it was taken of.     *)
(***************************************************************************)
EXTENDS Naturals, FiniteSets, Sequences

CONSTANTS
    Runs,         \* prepare runs on the directory, each one invocation
    Restores,     \* restore calls on the directory
    Keys,         \* Fernet keys
    Tokens,       \* token names: they restart at 1 in every document
    TokensOf,     \* TokensOf[r]: the tokens of the document run r prepares
    Overwriters,  \* the runs called with overwrite=True
    Fallible,     \* the runs that may crash or meet an OSError
    Absent,       \* no such directory entry
    Plain         \* the manifest of a document without entities: "[]"

File == Runs \cup {Plain, Absent}
Route == [by : Runs, sum : File]
Response == [of : Runs, tokens : SUBSET Tokens]

ASSUME ArtifactsAssumption ==
    /\ TokensOf \in [Runs -> SUBSET Tokens]
    /\ Overwriters \subseteq Runs
    /\ Fallible \subseteq Runs
    /\ Absent \notin Runs /\ Plain \notin Runs /\ Absent # Plain
    /\ Absent \notin Route \cup Response
    /\ Runs \cap Restores = {}

VARIABLES
    manifest,  \* the bytes of manifest.json: a run, Plain or Absent
    prompt,    \* prompt.txt: the run whose text it holds, or Absent
    route,     \* route.json: the run that wrote it and the sum it carries
    pc,        \* the next step of each run
    key,       \* prepare: the key the manifest is encrypted with
    sum,       \* prepare: manifest_sha256 as read back from the disk
    overlapped,\* history: runs at work when another run began, where one of
               \* the two has overwrite=True
    at,        \* the next step of each restore
    resp,      \* restore: the response, of which prompt and with which tokens
    seen,      \* restore: route_data
    left,      \* restore: the keys not tried yet
    got        \* restore: the bytes load_manifest() returned

disk     == <<manifest, prompt, route>>
prepares == <<pc, key, sum, overlapped>>
restores == <<at, resp, seen, left, got>>
vars     == <<manifest, prompt, route, pc, key, sum, overlapped, at, resp, seen, left, got>>

Bytes(r) == IF TokensOf[r] = {} THEN Plain ELSE r
TokensIn(b) == IF b \in Runs THEN TokensOf[b] ELSE {}

Working == {"manifest", "hash", "prompt", "route"}
PrepareSteps == {"start", "ok", "blocked", "failed"} \cup Working
Refusals == {"no_route", "integrity", "no_key", "strict"}
RestoreSteps ==
    {"start", "route", "verify", "keys", "load", "substitute", "ok"} \cup Refusals

(* Every entry and local is what the code stores there, and a local is set   *)
(* when the step that uses it is reached.                                    *)
TypeOK ==
    /\ manifest \in File
    /\ prompt \in Runs \cup {Absent}
    /\ route \in Route \cup {Absent}
    /\ pc \in [Runs -> PrepareSteps]
    /\ key \in [Runs -> Keys \cup {Absent}]
    /\ sum \in [Runs -> File]
    /\ overlapped \subseteq Runs
    /\ at \in [Restores -> RestoreSteps]
    /\ resp \in [Restores -> Response \cup {Absent}]
    /\ seen \in [Restores -> Route \cup {Absent}]
    /\ left \in [Restores -> Seq(Keys)]
    /\ got \in [Restores -> File]
    /\ \A q \in Restores :
           /\ at[q] # "start" => resp[q] # Absent
           /\ at[q] \in {"verify", "keys", "load"} => seen[q] # Absent
           /\ at[q] = "load" => left[q] # <<>>

(* A directory nobody has prepared into; one with earlier artifacts is what *)
(* the runs that come first leave.                                           *)
Init ==
    /\ manifest = Absent /\ prompt = Absent /\ route = Absent
    /\ pc = [r \in Runs |-> "start"]
    /\ key = [r \in Runs |-> Absent]
    /\ sum = [r \in Runs |-> Absent]
    /\ overlapped = {}
    /\ at = [q \in Restores |-> "start"]
    /\ resp = [q \in Restores |-> Absent]
    /\ seen = [q \in Restores |-> Absent]
    /\ left = [q \in Restores |-> <<>>]
    /\ got = [q \in Restores |-> Absent]

Goto(r, step) == pc' = [pc EXCEPT ![r] = step]
Move(q, step) == at' = [at EXCEPT ![q] = step]

-----------------------------------------------------------------------------
(* prepare_pipeline() *)

(* Run r begins while s writes, and one of them may replace what is there. *)
Overlap(r, s) == pc[s] \in Working /\ {r, s} \cap Overwriters # {}

(* The caller reads the active key k, and the preflight looks at the three   *)
(* names.  It is one step: no step removes an entry and manifest.json always *)
(* comes first, so the three looks find what one look at the last would.     *)
Preflight(r, k) ==
    /\ pc[r] = "start"
    /\ overlapped' = overlapped \cup {s \in Runs : Overlap(r, s)}
    /\ key' = [key EXCEPT ![r] = k]
    /\ IF r \notin Overwriters /\ \E f \in {manifest, prompt, route} : f # Absent
       THEN Goto(r, "blocked")
       ELSE Goto(r, "manifest")
    /\ UNCHANGED <<disk, sum, restores>>

(* Empty input, a secret, an unconditionally blocked type or a validation    *)
(* finding ends the run before it writes anything.                           *)
BlockInput(r) ==
    /\ pc[r] \in {"start", "manifest"}
    /\ Goto(r, "blocked")
    /\ UNCHANGED <<disk, key, sum, restores, overlapped>>

(* Mutant: os.replace() for everyone, guarded by the preflight alone. *)
MayAlwaysPublish(r, entry) == TRUE

(* publish_temp(): replace the entry, or create it if the name is free; a    *)
(* taken name raises FileExistsError, which _collision_result() turns into   *)
(* BLOCKED.                                                                  *)
MayPublish(r, entry) == r \in Overwriters \/ entry = Absent

(* Mutant: the preflight of all three names repeated before each write. *)
CollideWithAny(r, step, entry) ==
    /\ pc[r] = step
    /\ r \notin Overwriters /\ \E f \in {manifest, prompt, route} : f # Absent
    /\ Goto(r, "blocked")
    /\ UNCHANGED <<disk, key, sum, restores, overlapped>>

Collide(r, step, entry) ==
    /\ pc[r] = step
    /\ ~MayPublish(r, entry)
    /\ Goto(r, "blocked")
    /\ UNCHANGED <<disk, key, sum, restores, overlapped>>

(* save_manifest(). *)
PublishManifest(r) ==
    /\ pc[r] = "manifest"
    /\ MayPublish(r, manifest)
    /\ manifest' = Bytes(r)
    /\ Goto(r, "hash")
    /\ UNCHANGED <<prompt, route, key, sum, restores, overlapped>>

(* Mutant: no sum is taken before the prompt is written; see PublishRoute. *)
SkipHash(r) ==
    /\ pc[r] = "hash"
    /\ Goto(r, "prompt")
    /\ UNCHANGED <<disk, key, sum, restores, overlapped>>

(* The sum is taken of the final path, read again after the publication. *)
ReadHash(r) ==
    /\ pc[r] = "hash"
    /\ sum' = [sum EXCEPT ![r] = manifest]
    /\ Goto(r, "prompt")
    /\ UNCHANGED <<disk, key, restores, overlapped>>

(* Mutant: route.json is written before prompt.txt. *)
PublishRouteEarly(r) ==
    /\ pc[r] = "prompt"
    /\ MayPublish(r, route)
    /\ route' = [by |-> r, sum |-> sum[r]]
    /\ Goto(r, "route")
    /\ UNCHANGED <<manifest, prompt, key, sum, restores, overlapped>>

PublishPrompt(r) ==
    /\ pc[r] = "prompt"
    /\ MayPublish(r, prompt)
    /\ prompt' = r
    /\ Goto(r, "route")
    /\ UNCHANGED <<manifest, route, key, sum, restores, overlapped>>

(* route.json, last: status OK. *)
PublishRoute(r) ==
    /\ pc[r] = "route"
    /\ MayPublish(r, route)
    /\ route' = [by |-> r, sum |-> sum[r]]
    /\ Goto(r, "ok")
    /\ UNCHANGED <<manifest, prompt, key, sum, restores, overlapped>>

(* The process dies, or an OSError leaves prepare_pipeline(); nothing that   *)
(* was published is taken back.                                              *)
Fail(r) ==
    /\ r \in Fallible
    /\ pc[r] \in Working
    /\ Goto(r, "failed")
    /\ UNCHANGED <<disk, key, sum, restores, overlapped>>

-----------------------------------------------------------------------------
(* restore_text() *)

(* The user hands the prompt to a model and calls restore with its answer,   *)
(* in which tokens may be missing or made up.                                *)
TakeResponse(q) ==
    /\ at[q] = "start"
    /\ prompt # Absent
    /\ \E T \in SUBSET Tokens :
           resp' = [resp EXCEPT ![q] = [of |-> prompt, tokens |-> T]]
    /\ Move(q, "route")
    /\ UNCHANGED <<disk, prepares, seen, left, got>>

ReadRoute(q) ==
    /\ at[q] = "route"
    /\ IF route = Absent
       THEN Move(q, "no_route") /\ UNCHANGED seen
       ELSE Move(q, "verify") /\ seen' = [seen EXCEPT ![q] = route]
    /\ UNCHANGED <<disk, prepares, resp, left, got>>

(* verify_manifest_integrity(): the file is there and has the route's sum. *)
Verify(q) ==
    /\ at[q] = "verify"
    /\ Move(q, IF manifest = seen[q].sum THEN "keys" ELSE "integrity")
    /\ UNCHANGED <<disk, prepares, resp, seen, left, got>>

(* get_all_keys() returned ks, or found no key. *)
GetKeys(q, ks) ==
    /\ at[q] = "keys"
    /\ left' = [left EXCEPT ![q] = ks]
    /\ Move(q, IF ks = <<>> THEN "no_key" ELSE "load")
    /\ UNCHANGED <<disk, prepares, resp, seen, got>>

(* "[]" has no entry that a key could fail to decrypt. *)
Decrypts(k, b) == b \in Runs => key[b] = k

(* _load_manifest_multi_key(): each attempt reads the file again. *)
TryKey(q) ==
    /\ at[q] = "load"
    /\ IF Decrypts(Head(left[q]), manifest)
       THEN /\ got' = [got EXCEPT ![q] = manifest]
            /\ Move(q, "substitute")
            /\ UNCHANGED left
       ELSE /\ left' = [left EXCEPT ![q] = Tail(@)]
            /\ Move(q, IF Len(left[q]) = 1 THEN "no_key" ELSE "load")
            /\ UNCHANGED got
    /\ UNCHANGED <<disk, prepares, resp, seen>>

(* Strict mode refuses a response with a token the manifest does not know;  *)
(* otherwise each known token becomes its value.                             *)
Substitute(q) ==
    /\ at[q] = "substitute"
    /\ \E strict \in BOOLEAN :
           Move(q, IF strict /\ ~(resp[q].tokens \subseteq TokensIn(got[q]))
                   THEN "strict" ELSE "ok")
    /\ UNCHANGED <<disk, prepares, resp, seen, left, got>>

(* The tokens a finished restore replaced, each by a value of got[q]. *)
Replaced(q) == IF at[q] = "ok" THEN resp[q].tokens \cap TokensIn(got[q]) ELSE {}

-----------------------------------------------------------------------------
Publish(r) ==
    \/ PublishManifest(r) \/ Collide(r, "manifest", manifest)
    \/ ReadHash(r)
    \/ PublishPrompt(r) \/ Collide(r, "prompt", prompt)
    \/ PublishRoute(r) \/ Collide(r, "route", route)

Prepare(r) ==
    \/ \E k \in Keys : Preflight(r, k)
    \/ BlockInput(r)
    \/ Publish(r)
    \/ Fail(r)

(* The steps of a restore that read no key. *)
RestoreStep(q) ==
    \/ TakeResponse(q) \/ ReadRoute(q) \/ Verify(q) \/ TryKey(q) \/ Substitute(q)

(* The keyring hands out at most two keys, the active one first. *)
KeyLists ==
    {<<>>} \cup {<<k>> : k \in Keys}
        \cup UNION {{<<k, l>> : l \in Keys \ {k}} : k \in Keys}

Next ==
    \/ \E r \in Runs : Prepare(r)
    \/ \E q \in Restores : RestoreStep(q) \/ \E ks \in KeyLists : GetKeys(q, ks)

Spec == Init /\ [][Next]_vars

(* A run that has begun to publish keeps going unless it fails. *)
FairSpec == Spec /\ \A r \in Runs : WF_vars(Publish(r))

-----------------------------------------------------------------------------
(* Properties *)

(* A route whose sum matches the manifest, which is all that restore can     *)
(* check, was written by the run that wrote the manifest; and unless the     *)
(* manifest is the common empty one, the prompt is that run's too.           *)
MismatchIsDetected ==
    route # Absent /\ manifest = route.sum =>
        /\ manifest = Bytes(route.by)
        /\ manifest # Plain => prompt = route.by

(* That is so, whatever crashes end the runs, as long as no run with          *)
(* --overwrite has overlapped another run (routing.py:225).                   *)
SetIsOneRun == overlapped = {} => MismatchIsDetected

(* The route is published last: a directory with a route has the other two   *)
(* artifacts, at every moment and after every crash (pipeline.py:178).       *)
RouteLast == route # Absent => manifest # Absent /\ prompt # Absent

(* Without --overwrite a run never replaces an artifact, its own or another  *)
(* run's, whatever appeared since its preflight (ADR-64, publish.py:35).     *)
NoClobber ==
    [][(\A r \in Overwriters : pc'[r] = pc[r]) =>
           /\ manifest # Absent => manifest' = manifest
           /\ prompt # Absent => prompt' = prompt
           /\ route # Absent => route' = route]_<<manifest, prompt, route, pc>>

(* Without --overwrite the status OK is a promise that lasts: all three      *)
(* artifacts are the run's own, and no later run or crash changes that.      *)
OkMeansOwnSet ==
    Overwriters = {} => \A r \in Runs : pc[r] = "ok" =>
        /\ manifest = Bytes(r)
        /\ prompt = r
        /\ route = [by |-> r, sum |-> Bytes(r)]

(* The values a restore puts into an answer are those of the document that   *)
(* the answered prompt was made of, although restore() only ever sees the    *)
(* route, the manifest and the answer, and token names repeat from document  *)
(* to document.  Without --overwrite.                                        *)
RestoredFromOwnPrompt ==
    \A q \in Restores : Replaced(q) # {} => got[q] = resp[q].of

(* Colliding runs cannot all lose: once a manifest is published, a complete  *)
(* set follows unless the run that published it fails.                       *)
SomeRunWins ==
    manifest # Absent ~> route # Absent \/ \E r \in Runs : pc[r] = "failed"

(* Without --overwrite the directory is a register that is written once.     *)
Set == IF route = Absent THEN Absent
       ELSE [manifest |-> manifest, prompt |-> prompt, route |-> route]

Directory ==
    INSTANCE WriteOnce WITH
        Runs <- Runs, ManifestOf <- [r \in Runs |-> Bytes(r)],
        NoSet <- Absent, set <- Set

ImplementsWriteOnce == Directory!Spec
=============================================================================
