---------------------------- MODULE ServerProofs ----------------------------
(***************************************************************************)
(* The server around the turns. The files of the configuration, for every  *)
(* set of profiles, vendors and turns, every table of routes and every     *)
(* bound: what was answered with success is in the files, a config that    *)
(* was accepted starts, and a cached profile is what resolving it now      *)
(* would give, except where a turn crossed a change or a change failed.    *)
(* The line protocol, for every set of calls, every scenario, any number   *)
(* of kills and hang-ups and every size of a subscriber's buffer. And the  *)
(* pool of the hub, for every limit and any number of users and requests.  *)
(***************************************************************************)
EXTENDS Models, Wire, Hub, SequenceTheorems, FiniteSetTheorems, WellFoundedInduction, TLAPS

-----------------------------------------------------------------------------
(* The parameters                                                          *)

\* A merge of two patches that are within the bounds is within them.
LEMMA MergeIsValid ==
    ASSUME NEW old, NEW newer, ValidPatch(old), ValidPatch(newer)
    PROVE  ValidPatch(MergeNewer(old, newer))
BY DEF ValidPatch, MergeNewer, ApplyPatch

\* So is a patch with nothing in it.
LEMMA NothingIsValid == ValidPatch(NoPatch)
BY DEF ValidPatch, NoPatch

\* The accumulated patch stays within the bounds, whatever a write of it does.
LEMMA SavedStaysValid ==
    ASSUME NEW patch, NEW done \in BOOLEAN, ValidPatch(saved), ValidPatch(patch),
           WritePatch(patch, done)
    PROVE  ValidPatch(saved')
<1>1. ValidPatch(MergeNewer(saved, patch))
  BY MergeIsValid
<1>2. saved' \in {MergeNewer(saved, patch), saved, NoPatch}
  BY DEF WritePatch, SavePatch
<1> QED
  BY <1>1, <1>2, NothingIsValid

\* A merge of two patches is a patch.
LEMMA MergeHasType ==
    ASSUME NEW old \in Patch, NEW newer \in Patch
    PROVE  MergeNewer(old, newer) \in Patch
BY DEF MergeNewer, ApplyPatch, Patch

\* What the loop asks to write is a patch.
LEMMA AskedHasType ==
    KnobsTypeOK => /\ Patches \subseteq Patch
                   /\ \A c \in Commands : Remembering(c) \in Patch
BY DEF KnobsTypeOK, Parameters, Patches, Patch, Remembering, NoPatch

\* Parameters stay well typed through a write.
LEMMA WriteKeepsKnobs ==
    ASSUME KnobsTypeOK, NEW done \in BOOLEAN, NEW patch \in Patch, WritePatch(patch, done)
    PROVE  KnobsTypeOK'
<1> DEFINE whole == MergeNewer(saved, patch)
<1>1. whole \in Patch
  BY MergeHasType DEF KnobsTypeOK
<1>2. saved' \in {whole, saved, NoPatch} /\ knobs' \in {knobs, ApplyPatch(whole, knobs)}
  BY DEF WritePatch, SavePatch
<1>3. saved' \in Patch
  BY <1>1, <1>2 DEF KnobsTypeOK, NoPatch, Patch
<1>4. ApplyPatch(whole, knobs) \in Parameters
  <2> HIDE DEF whole
  <2> QED
    BY <1>1 DEF KnobsTypeOK, Parameters, ApplyPatch, Patch
<1> QED
  BY <1>2, <1>3, <1>4 DEF KnobsTypeOK

\* A start leaves them well typed.
LEMMA BootKeepsKnobs ==
    ASSUME KnobsTypeOK, knobs' = Overlaid(saved), UNCHANGED saved
    PROVE  KnobsTypeOK'
BY DEF KnobsTypeOK, Parameters, Patch, Overlaid, ApplyPatch, FromEnv

\* A valid saved patch over the environment is within the bounds: what a start can still
\* object to is the window.
LEMMA ValidPatchFits ==
    ASSUME ValidPatch(saved)
    PROVE  InBounds(Overlaid(saved).tokens) /\ GoodRules(Overlaid(saved).rules)
<1>1. InBounds(Overlaid(saved).tokens)
  BY KnobsAssumption DEF ValidPatch, Overlaid, ApplyPatch, FromEnv, InBounds
<1>2. GoodRules({})
  BY FS_EmptySet, KnobsAssumption DEF GoodRules
<1>3. GoodRules(Overlaid(saved).rules)
  BY <1>2 DEF ValidPatch, Overlaid, ApplyPatch, FromEnv
<1> QED
  BY <1>1, <1>3

-----------------------------------------------------------------------------
(* Types                                                                   *)

\* Resolving settings gives them back, or nothing.
LEMMA ResolveHasType ==
    ASSUME NEW s \in Settings
    PROVE  Resolve(s) \in Resolution \cup {Nothing}
BY DEF Settings, Resolve, Resolution, Names

\* A profile and what the store has for it make settings.
LEMMA AppliedHasType ==
    ASSUME NEW models, NEW id \in Ids, NEW answers \in BOOLEAN, models.profiles[id] \in Profile,
           keychain \in [Ids -> Key \cup {Nothing}], vault \in [Ids -> Key \cup {Nothing}]
    PROVE  Applied(models, id, answers) \in Settings
<1>1. InStore(id, answers) \in Key \cup {Nothing}
  BY DEF InStore
<1>2. KeysOf(models, id, answers) \in Key \cup {Nothing, EnvKey}
  BY <1>1 DEF KeysOf, Profile, Pointers
<1> QED
  BY <1>2 DEF Applied, Settings, Profile

LEMMA AppliedActiveHasType ==
    ASSUME NEW models \in ModelsFile, NEW answers \in BOOLEAN, NEW otherwise \in Settings,
           keychain \in [Ids -> Key \cup {Nothing}], vault \in [Ids -> Key \cup {Nothing}]
    PROVE  AppliedActive(models, answers, otherwise) \in Settings
<1>1. CASE Has(models, models.active)
  <2>1. models.active \in Ids /\ models.profiles[models.active] \in Profile
    BY <1>1 DEF Has, ModelsFile
  <2> QED
    BY <1>1, <2>1, AppliedHasType DEF AppliedActive
<1> QED
  BY <1>1 DEF AppliedActive

\* The two changes of the models file.
LEMMA ChangedModelsHaveType ==
    ASSUME NEW models \in ModelsFile, NEW id \in Ids, NEW vendor \in Names,
           NEW pointer \in Pointers, NEW active \in BOOLEAN
    PROVE  /\ Upserted(models, id, vendor, pointer, active) \in ModelsFile
           /\ Removed(models, id) \in ModelsFile
<1> DEFINE old == models.profiles[id]
           kept == IF pointer # "none" \/ old = Nothing THEN pointer ELSE old.pointer
<1>1. old \in Profile \cup {Nothing}
  BY DEF ModelsFile
<1>2. kept \in Pointers
  BY <1>1 DEF Profile
<1>3. [vendor |-> vendor, pointer |-> kept] \in Profile
  BY <1>2 DEF Profile
<1>4. Upserted(models, id, vendor, pointer, active) \in ModelsFile
  <2> HIDE DEF kept
  <2>1. [models.profiles EXCEPT ![id] = [vendor |-> vendor, pointer |-> kept]]
            \in [Ids -> Profile \cup {Nothing}]
    BY <1>3 DEF ModelsFile
  <2> QED
    BY <2>1 DEF Upserted, ModelsFile, kept
<1>5. Removed(models, id) \in ModelsFile
  BY DEF Removed, ModelsFile
<1> QED
  BY <1>4, <1>5

\* Nothing is asked before the first request, and a typed key has been put away before
\* its profile is written.
AskedFirst ==
    /\ request # Idle => requests \in 1..MaxRequests
    /\ request.at = "write" /\ request.kind = "save" => request.credential \in Pointers

\* What a turn has at hand where it is.
TurnHolds(t) ==
    /\ turn[t].at \in {"look", "find", "key", "get", "insert"} => turn[t].id \in Ids
    /\ turn[t].at \in {"key", "get"} => turn[t].got \in Profile
    /\ turn[t].at = "insert" => turn[t].got \in Resolution

ModelsTypes == ModelsTypeOK /\ AskedFirst /\ \A t \in Turns : TurnHolds(t)

LEMMA InitModelsTypes == Init => ModelsTypes
<1> SUFFICES ASSUME Init PROVE ModelsTypes
  OBVIOUS
<1>1. NoFile \in ModelsFile
  BY DEF NoFile, ModelsFile
<1>2. KnobsTypeOK
  BY DEF Init, KnobsTypeOK, Parameters, FromEnv, NoPatch, Patch
<1>3. turn \in [Turns -> Turn] /\ \A t \in Turns : turn[t].at = "new"
  BY DEF Init, Unstarted, Turn
<1>4. request \in Request /\ request = Idle /\ request.at = "idle"
  BY DEF Init, Idle, Request
<1>5. current \in Settings
  BY DEF Init, Settings, Names
<1>6. ModelsTypeOK
  BY <1>1, <1>2, <1>3, <1>4, <1>5, ModelsAssumption DEF Init, ModelsTypeOK, KnobsTypeOK, NoCache
<1> QED
  BY <1>3, <1>4, <1>6 DEF ModelsTypes, AskedFirst, TurnHolds

\* The steps of the request loop.
LEMMA SaveTypes ==
    ASSUME ModelsTypes, SaveSome
    PROVE  ModelsTypes'
<1> PICK s \in Saves : Save(s.id, s.vendor, s.url, s.credential, s.active)
  BY DEF SaveSome
<1> DEFINE meant == IF s.vendor = Nothing THEN file.profiles[s.id].vendor ELSE s.vendor
<1>1. s.id \in Ids /\ s.credential \in {"none", "env", "typed"} /\ s.active \in BOOLEAN
      /\ s.vendor \in Names \cup {Nothing}
  BY ModelsAssumption
<1>2. meant \in Names
  <2>1. CASE s.vendor = Nothing
    <3>1. file.profiles[s.id] \in Profile
      BY <2>1, <1>1 DEF Save, Has, ModelsTypes, ModelsTypeOK, ModelsFile
    <3> QED
      BY <2>1, <3>1 DEF Profile
  <2> QED
    BY <2>1, <1>1
<1>3. request' = [at |-> "store", kind |-> "save", id |-> s.id, vendor |-> meant,
                  credential |-> s.credential, active |-> s.active]
  BY DEF Save
<1>4. request' \in Request
  <2> HIDE DEF meant
  <2> QED
    BY <1>1, <1>2, <1>3 DEF Request, Pointers
<1>5. requests' \in 1..MaxRequests
  BY ModelsAssumption DEF Save, Serving, ModelsTypes, ModelsTypeOK
<1>6. crossed' \subseteq Ids
  BY <1>1 DEF Save, Crosses, ModelsTypes, ModelsTypeOK
<1>7. ModelsTypeOK'
  BY <1>4, <1>5, <1>6 DEF Save, ModelsTypes, ModelsTypeOK, KnobsTypeOK
<1>8. AskedFirst'
  BY <1>3, <1>5 DEF AskedFirst
<1> QED
  BY <1>7, <1>8 DEF Save, ModelsTypes, TurnHolds

LEMMA StoreKeyTypes ==
    ASSUME ModelsTypes, StoreKey
    PROVE  ModelsTypes'
<1> DEFINE key == [vendor |-> request.vendor, at |-> requests]
<1>1. /\ request \in Request /\ request.at = "store" /\ request # Idle
      /\ request.kind = "save" /\ request.id \in Ids /\ request.vendor \in Names
  BY DEF StoreKey, ModelsTypes, ModelsTypeOK, Request, Idle
<1>2. key \in Key
  BY <1>1 DEF ModelsTypes, AskedFirst, Key
<1>3. keychain' \in [Ids -> Key \cup {Nothing}] /\ vault' \in [Ids -> Key \cup {Nothing}]
  <2>1. /\ keychain' \in {keychain, [keychain EXCEPT ![request.id] = key]}
        /\ vault' \in {vault, NoCache, [vault EXCEPT ![request.id] = key]}
    BY DEF StoreKey, Put, SaveVault, VaultWith
  <2> HIDE DEF key
  <2> QED
    BY <1>1, <1>2, <2>1 DEF NoCache, ModelsTypes, ModelsTypeOK
<1>4. request' \in Request /\ (request'.at = "write" => request'.credential \in Pointers)
  <2>1. CASE request' = Idle
    BY <2>1 DEF Request, Idle
  <2>2. CASE request.credential # "typed" /\ request' = [request EXCEPT !.at = "write"]
    BY <1>1, <2>2 DEF Request, Pointers, Idle
  <2>3. ASSUME NEW where \in {"keychain", "file"},
               request' = [request EXCEPT !.at = "write", !.credential = where]
        PROVE  request' \in Request /\ request'.credential \in Pointers
    BY <1>1, <2>3 DEF Request, Pointers, Idle
  <2> QED
    BY <2>1, <2>2, <2>3 DEF StoreKey
<1>5. ModelsTypeOK'
  <2>1. crossed' \in {crossed, Ids}
    BY DEF StoreKey, Put, SaveVault
  <2> QED
    BY <1>3, <1>4, <2>1 DEF StoreKey, ModelsTypes, ModelsTypeOK, KnobsTypeOK
<1>6. AskedFirst'
  BY <1>1, <1>4 DEF StoreKey, ModelsTypes, AskedFirst
<1> QED
  BY <1>5, <1>6 DEF StoreKey, ModelsTypes, TurnHolds

LEMMA WriteProfileTypes ==
    ASSUME ModelsTypes, WriteProfile
    PROVE  ModelsTypes'
<1>1. /\ request \in Request /\ request.at = "write" /\ request # Idle
      /\ request.kind = "save" /\ request.id \in Ids /\ request.vendor \in Names
      /\ request.active \in BOOLEAN /\ request.credential \in Pointers
  BY DEF WriteProfile, ModelsTypes, AskedFirst, ModelsTypeOK, Request, Idle
<1>2. file' \in ModelsFile
  BY <1>1, ChangedModelsHaveType DEF WriteProfile, ModelsTypes, ModelsTypeOK
<1>3. NoFile \in ModelsFile
  BY DEF NoFile, ModelsFile
<1>4. disk' \in ModelsFile
  BY <1>2, <1>3 DEF WriteProfile, SaveModels, ModelsTypes, ModelsTypeOK
<1>5. request' \in {Idle, [request EXCEPT !.at = "apply"]}
  BY DEF WriteProfile
<1>6. request' \in Request /\ request'.at # "write"
  BY <1>1, <1>5 DEF Request, Idle
<1>7. cut' \subseteq {"models", "knobs"} /\ crossed' \subseteq Ids
  BY <1>1 DEF WriteProfile, SaveModels, ModelsTypes, ModelsTypeOK
<1>8. ModelsTypeOK'
  BY <1>2, <1>4, <1>6, <1>7 DEF WriteProfile, ModelsTypes, ModelsTypeOK, KnobsTypeOK
<1>9. AskedFirst'
  BY <1>1, <1>6 DEF WriteProfile, ModelsTypes, AskedFirst
<1> QED
  BY <1>8, <1>9 DEF WriteProfile, ModelsTypes, TurnHolds

LEMMA RemoveTypes ==
    ASSUME ModelsTypes, NEW id \in Ids, RemoveModel(id)
    PROVE  ModelsTypes'
<1>1. file' \in ModelsFile
  BY DEF RemoveModel, Removed, ModelsFile, ModelsTypes, ModelsTypeOK
<1>2. request' \in Request /\ request'.at = "forget"
  BY DEF RemoveModel, Request
<1>3. requests' \in 1..MaxRequests
  BY ModelsAssumption DEF RemoveModel, Serving, ModelsTypes, ModelsTypeOK
<1>4. crossed' \subseteq Ids
  BY DEF RemoveModel, Crosses, ModelsTypes, ModelsTypeOK
<1>5. ModelsTypeOK'
  BY <1>1, <1>2, <1>3, <1>4 DEF RemoveModel, ModelsTypes, ModelsTypeOK, KnobsTypeOK
<1> QED
  BY <1>2, <1>3, <1>5 DEF RemoveModel, ModelsTypes, AskedFirst, TurnHolds

LEMMA ForgetKeyTypes ==
    ASSUME ModelsTypes, ForgetKey
    PROVE  ModelsTypes'
<1>1. /\ request \in Request /\ request.at = "forget" /\ request # Idle
      /\ request.kind = "remove" /\ request.id \in Ids
  BY DEF ForgetKey, ModelsTypes, ModelsTypeOK, Request, Idle
<1>2. keychain' \in [Ids -> Key \cup {Nothing}] /\ vault' \in [Ids -> Key \cup {Nothing}]
  BY <1>1 DEF ForgetKey, Forget, SaveVault, VaultWith, NoCache, ModelsTypes, ModelsTypeOK
<1>3. request' \in Request /\ request'.kind = "remove"
  BY <1>1 DEF ForgetKey, Request, Idle
<1>4. ModelsTypeOK'
  <2>1. crossed' \in {crossed, Ids}
    BY DEF ForgetKey, Forget, SaveVault
  <2> QED
    BY <1>2, <1>3, <2>1 DEF ForgetKey, ModelsTypes, ModelsTypeOK, KnobsTypeOK
<1> QED
  BY <1>1, <1>3, <1>4 DEF ForgetKey, ModelsTypes, AskedFirst, TurnHolds

LEMMA WriteRemovalTypes ==
    ASSUME ModelsTypes, WriteRemoval
    PROVE  ModelsTypes'
<1>1. /\ request \in Request /\ request.at = "write" /\ request # Idle
      /\ request.kind = "remove" /\ request.id \in Ids
  BY DEF WriteRemoval, ModelsTypes, ModelsTypeOK, Request, Idle
<1>2. NoFile \in ModelsFile
  BY DEF NoFile, ModelsFile
<1>3. disk' \in ModelsFile /\ cut' \subseteq {"models", "knobs"}
  BY <1>2 DEF WriteRemoval, SaveModels, ModelsTypes, ModelsTypeOK
<1>4. request' \in Request /\ request'.at = "apply"
  BY <1>1 DEF WriteRemoval, Request, Idle
<1>5. ModelsTypeOK'
  BY <1>3, <1>4 DEF WriteRemoval, ModelsTypes, ModelsTypeOK, KnobsTypeOK
<1> QED
  BY <1>1, <1>4, <1>5 DEF WriteRemoval, ModelsTypes, AskedFirst, TurnHolds

LEMMA ReapplyTypes ==
    ASSUME ModelsTypes, Reapply
    PROVE  ModelsTypes'
<1>1. request \in Request /\ request.at = "apply" /\ request # Idle
  BY DEF Reapply, ModelsTypes, ModelsTypeOK, Idle
<1>2. current' \in Settings
  BY AppliedActiveHasType DEF Reapply, KeychainAnswers, ModelsTypes, ModelsTypeOK
<1>3. resolved' \in Resolution \cup {Nothing}
  BY <1>2, ResolveHasType DEF Reapply
<1>4. request' \in Request /\ request'.at = "clear"
  BY <1>1 DEF Reapply, Request, Idle
<1>5. ModelsTypeOK'
  BY <1>2, <1>3, <1>4 DEF Reapply, ModelsTypes, ModelsTypeOK, KnobsTypeOK
<1> QED
  BY <1>1, <1>4, <1>5 DEF Reapply, ModelsTypes, AskedFirst, TurnHolds

LEMMA ClearCacheTypes ==
    ASSUME ModelsTypes, ClearCache
    PROVE  ModelsTypes'
<1>1. request' = Idle /\ request' \in Request /\ request'.at = "idle"
  BY DEF ClearCache, Request, Idle
<1>2. crossed' \subseteq Ids /\ cache' \in [Ids -> Resolution \cup {Nothing}]
  BY DEF ClearCache, NoCache, ModelsTypes, ModelsTypeOK
<1>3. promised' \in [models : ModelsFile, knobs : Parameters]
  BY DEF ClearCache, ModelsTypes, ModelsTypeOK
<1>4. ModelsTypeOK'
  BY <1>1, <1>2, <1>3 DEF ClearCache, ModelsTypes, ModelsTypeOK, KnobsTypeOK
<1> QED
  BY <1>1, <1>4 DEF ClearCache, ModelsTypes, AskedFirst, TurnHolds

LEMMA ConfigureTypes ==
    ASSUME ModelsTypes, NEW patch \in Patch, Configure(patch)
    PROVE  ModelsTypes'
<1>1. KnobsTypeOK'
  BY WriteKeepsKnobs DEF Configure, ModelsTypes, ModelsTypeOK
<1>2. resolved' \in Resolution \cup {Nothing}
  BY ResolveHasType DEF Configure, ModelsTypes, ModelsTypeOK
<1>3. requests' \in 0..MaxRequests
  BY ModelsAssumption DEF Configure, Serving, ModelsTypes, ModelsTypeOK
<1>4. cut' \in {cut, cut \cup {"knobs"}}
  BY DEF Configure
<1>5. request' = request /\ request = Idle /\ request.at = "idle"
  BY DEF Configure, Serving, Idle
<1>6. promised' \in [models : ModelsFile, knobs : Parameters]
  <2>1. promised' \in {promised, [promised EXCEPT !.knobs = knobs']}
    BY DEF Configure
  <2> QED
    BY <1>1, <2>1 DEF KnobsTypeOK, ModelsTypes, ModelsTypeOK
<1>7. ModelsTypeOK'
  BY <1>1, <1>2, <1>3, <1>4, <1>6 DEF Configure, ModelsTypes, ModelsTypeOK
<1> QED
  BY <1>5, <1>7 DEF Configure, ModelsTypes, AskedFirst, TurnHolds

\* A start and a crash.
LEMMA BootTypes ==
    ASSUME ModelsTypes, Boot
    PROVE  ModelsTypes'
<1>1. KnobsTypeOK'
  BY BootKeepsKnobs DEF Boot, ModelsTypes, ModelsTypeOK
<1>2. [vendor |-> Local, key |-> Nothing] \in Settings
  BY DEF Settings, Names
<1>3. CASE ValidSettings(knobs')
  <2>1. current' \in Settings
    BY <1>2, <1>3, AppliedActiveHasType DEF Boot, KeychainAnswers, ModelsTypes, ModelsTypeOK
  <2>2. resolved' \in Resolution \cup {Nothing}
    BY <1>3, <2>1, ResolveHasType DEF Boot
  <2>3. ModelsTypeOK'
    BY <1>1, <1>3, <2>1, <2>2 DEF Boot, ModelsTypes, ModelsTypeOK
  <2> QED
    BY <2>3 DEF Boot, ModelsTypes, AskedFirst, TurnHolds
<1>4. CASE ~ValidSettings(knobs')
  <2>1. ModelsTypeOK'
    BY <1>1, <1>4 DEF Boot, ModelsTypes, ModelsTypeOK
  <2> QED
    BY <2>1 DEF Boot, ModelsTypes, AskedFirst, TurnHolds
<1> QED
  BY <1>3, <1>4

LEMMA CrashTypes ==
    ASSUME ModelsTypes, Crash
    PROVE  ModelsTypes'
<1>1. request' = Idle /\ request' \in Request /\ request'.at = "idle"
  BY DEF Crash, Request, Idle
<1>2. \A t \in Turns : turn'[t] \in Turn /\ turn'[t].at \in {"new", "gone"}
  BY DEF Crash, Unstarted, ModelsTypes, ModelsTypeOK, Turn
<1>3. turn' \in [Turns -> Turn]
  BY <1>2 DEF Crash
<1>4. cache' \in [Ids -> Resolution \cup {Nothing}]
  BY DEF Crash, NoCache
<1>5. promised' \in [models : ModelsFile, knobs : Parameters]
  BY DEF Crash, ModelsTypes, ModelsTypeOK
<1>6. ModelsTypeOK'
  <2>1. disk' \in {disk, NoFile} /\ vault' \in {vault, NoCache} /\ NoFile \in ModelsFile
    BY DEF Crash, Torn, NoFile, ModelsFile
  <2>2. disk' \in ModelsFile /\ vault' \in [Ids -> Key \cup {Nothing}]
        /\ cut' \subseteq {"models", "knobs"}
    BY <2>1 DEF Crash, NoCache, ModelsTypes, ModelsTypeOK
  <2> QED
    BY <1>1, <1>3, <1>4, <1>5, <2>2 DEF Crash, ModelsTypes, ModelsTypeOK, KnobsTypeOK
<1> QED
  BY <1>1, <1>2, <1>6 DEF ModelsTypes, AskedFirst, TurnHolds

\* A step of turn t, given the record it leaves of itself.
LEMMA TurnTypes ==
    ASSUME ModelsTypes, NEW t \in Turns, NEW new \in Turn,
           turn' = [turn EXCEPT ![t] = new],
           new.at \in {"look", "find", "key", "get", "insert"} => new.id \in Ids,
           new.at \in {"key", "get"} => new.got \in Profile,
           new.at = "insert" => new.got \in Resolution,
           cache' \in [Ids -> Resolution \cup {Nothing}],
           secrets' \in {"free", "loop"} \cup Turns,
           TurnOnly
    PROVE  ModelsTypes'
<1>1. turn' \in [Turns -> Turn]
  BY DEF ModelsTypes, ModelsTypeOK
<1>2. ModelsTypeOK'
  BY <1>1 DEF TurnOnly, ModelsTypes, ModelsTypeOK, KnobsTypeOK
<1>3. \A u \in Turns : turn'[u] = IF u = t THEN new ELSE turn[u]
  BY DEF ModelsTypes, ModelsTypeOK
<1>4. \A u \in Turns : TurnHolds(u)'
  BY <1>3 DEF ModelsTypes, TurnHolds
<1> QED
  BY <1>2, <1>4 DEF TurnOnly, ModelsTypes, AskedFirst

\* A profile routed to, or active, is one of the names.
LEMMA RoutedHasType ==
    ASSUME NEW active \in Ids \cup {Nothing}, NEW tier \in {"chat", "reasoning"}
    PROVE  ProfileFor(tier, active) \in Ids \cup {Nothing}
<1>1. tier \in Tiers /\ "chat" \in Tiers
  BY DEF Tiers
<1> QED
  BY <1>1, ModelsAssumption DEF ProfileFor

\* What resolving a turn's copy of a profile gives is what resolving a file with that
\* profile gives.
LEMMA CopyResolvesAlike ==
    ASSUME NEW models, NEW copy, NEW id, NEW answers,
           copy.profiles[id] = models.profiles[id]
    PROVE  Applied(copy, id, answers) = Applied(models, id, answers)
BY DEF Applied, KeysOf

LEMMA ChooseTypes ==
    ASSUME ModelsTypes, NEW t \in Turns, StartTurn(t) \/ Choose(t)
    PROVE  ModelsTypes'
<1> DEFINE old == turn[t]
<1>1. /\ old \in Turn /\ TurnHolds(t) /\ resolved \in Resolution \cup {Nothing}
      /\ cache \in [Ids -> Resolution \cup {Nothing}] /\ file \in ModelsFile
      /\ secrets \in {"free", "loop"} \cup Turns
  BY DEF ModelsTypes, ModelsTypeOK
<1>2. \A model \in Resolution \cup {Nothing} :
        [Unstarted EXCEPT !.at = "run", !.used = model] \in Turn
  BY DEF Unstarted, Turn
<1>3. CASE StartTurn(t)
  <2> DEFINE new == [old EXCEPT !.at = IF resolved = Nothing THEN "refused" ELSE "route",
                                !.base = resolved]
  <2>1. new \in Turn /\ new.at \in {"refused", "route"}
    BY <1>1 DEF Turn
  <2>2. turn' = [turn EXCEPT ![t] = new] /\ TurnOnly /\ UNCHANGED <<cache, secrets>>
    BY <1>3 DEF StartTurn
  <2> QED
    BY <1>1, <2>1, <2>2, TurnTypes
<1>4. CASE Route(t) \/ Classify(t)
  <2>1. TurnOnly /\ UNCHANGED <<cache, secrets>>
    BY <1>4 DEF Route, Classify
  <2>2. \/ \E active \in Ids \cup {Nothing} : \E tier \in {"chat", "reasoning"} :
             Decide(t, tier, active)
        \/ turn' = [turn EXCEPT ![t] = [@ EXCEPT !.at = "ask", !.id = file.active]]
    <3>1. file.active \in Ids \cup {Nothing} /\ old.id \in Ids \cup {Nothing}
      BY <1>1 DEF ModelsFile, Turn
    <3> QED
      BY <1>4, <3>1 DEF Route, Classify, PickedTiers
  <2>5. CASE turn' = [turn EXCEPT ![t] = [@ EXCEPT !.at = "ask", !.id = file.active]]
    <3> DEFINE new == [old EXCEPT !.at = "ask", !.id = file.active]
    <3>1. new \in Turn /\ new.at = "ask"
      BY <1>1 DEF Turn, ModelsFile
    <3>2. turn' = [turn EXCEPT ![t] = new]
      BY <2>5
    <3> QED
      BY <1>1, <2>1, <3>1, <3>2, TurnTypes
  <2>6. ASSUME NEW active \in Ids \cup {Nothing}, NEW tier \in {"chat", "reasoning"},
               Decide(t, tier, active)
        PROVE  \E id \in Ids \cup {Nothing} :
                  \/ RunOn(t, old.base)
                  \/ /\ id # Nothing
                     /\ turn' = [turn EXCEPT ![t] = [@ EXCEPT !.at = "look", !.id = id]]
    <3> DEFINE id == ProfileFor(tier, active)
    <3>1. id \in Ids \cup {Nothing}
      BY RoutedHasType
    <3>2. \/ RunOn(t, old.base)
          \/ id # Nothing /\ turn' = [turn EXCEPT ![t] = [@ EXCEPT !.at = "look", !.id = id]]
      BY <2>6 DEF Decide
    <3> QED
      BY <3>1, <3>2
  <2>3. CASE RunOn(t, old.base)
    BY <1>1, <1>2, <2>1, <2>3, TurnTypes DEF RunOn, Unstarted, Turn
  <2>4. ASSUME NEW id \in Ids \cup {Nothing}, id # Nothing,
               turn' = [turn EXCEPT ![t] = [@ EXCEPT !.at = "look", !.id = id]]
        PROVE  ModelsTypes'
    <3> DEFINE new == [old EXCEPT !.at = "look", !.id = id]
    <3>1. new \in Turn /\ new.at = "look" /\ new.id \in Ids
      BY <1>1, <2>4 DEF Turn
    <3>2. turn' = [turn EXCEPT ![t] = new]
      BY <2>4
    <3> QED
      BY <1>1, <2>1, <3>1, <3>2, TurnTypes
  <2> QED
    BY <2>2, <2>3, <2>4, <2>5, <2>6
<1>5. CASE Look(t)
  <2>1. TurnOnly /\ UNCHANGED <<cache, secrets>> /\ old.id \in Ids
    BY <1>1, <1>5 DEF Look, TurnHolds
  <2>2. CASE RunOn(t, cache[old.id])
    BY <1>1, <1>2, <2>1, <2>2, TurnTypes DEF RunOn, Unstarted, Turn
  <2>3. CASE Goto(t, "find")
    <3>1. [old EXCEPT !.at = "find"] \in Turn
      BY <1>1 DEF Turn
    <3> QED
      BY <1>1, <2>1, <2>3, <3>1, TurnTypes DEF Goto, Turn
  <2> QED
    BY <1>5, <2>2, <2>3 DEF Look
<1>6. CASE FindProfile(t)
  <2>1. TurnOnly /\ UNCHANGED <<cache, secrets>> /\ old.id \in Ids
    BY <1>1, <1>6 DEF FindProfile, TurnHolds
  <2>2. CASE RunOn(t, old.base)
    BY <1>1, <1>2, <2>1, <2>2, TurnTypes DEF RunOn, Unstarted, Turn
  <2>3. CASE /\ Has(file, old.id)
             /\ turn' = [turn EXCEPT ![t] = [@ EXCEPT !.at = "key", !.got = file.profiles[old.id]]]
    <3> DEFINE new == [old EXCEPT !.at = "key", !.got = file.profiles[old.id]]
    <3>1. file.profiles[old.id] \in Profile
      BY <1>1, <2>3 DEF Has, ModelsFile
    <3>2. new \in Turn /\ new.at = "key" /\ new.id \in Ids /\ new.got \in Profile
      BY <1>1, <2>1, <3>1 DEF Turn
    <3>3. turn' = [turn EXCEPT ![t] = new]
      BY <2>3
    <3> QED
      BY <1>1, <2>1, <3>2, <3>3, TurnTypes
  <2> QED
    BY <1>6, <2>2, <2>3 DEF FindProfile
<1>7. CASE TakeSecrets(t)
  <2> DEFINE new == [old EXCEPT !.at = "get"]
  <2>1. TurnOnly /\ UNCHANGED cache /\ secrets' = t /\ turn' = [turn EXCEPT ![t] = new]
    BY <1>7 DEF TakeSecrets, Goto
  <2>2. new \in Turn /\ new.at = "get" /\ new.id \in Ids /\ new.got \in Profile
    BY <1>1, <1>7 DEF Turn, TakeSecrets, TurnHolds
  <2> QED
    BY <1>1, <2>1, <2>2, TurnTypes
<1>8. CASE FetchKey(t)
  <2>1. TurnOnly /\ UNCHANGED cache /\ secrets' = "free" /\ old.id \in Ids /\ old.got \in Profile
    BY <1>1, <1>8 DEF FetchKey, TurnHolds
  <2> DEFINE copy == [active |-> Nothing, profiles |-> [i \in Ids |-> old.got]]
  <2>2. PICK answers \in BOOLEAN :
            LET got == Resolve(Applied(copy, old.id, answers))
            IN  IF got = Nothing THEN RunOn(t, old.base)
                ELSE turn' = [turn EXCEPT ![t] = [@ EXCEPT !.at = "insert", !.got = got]]
    BY <1>8 DEF FetchKey, KeychainAnswers
  <2> DEFINE got == Resolve(Applied(copy, old.id, answers))
  <2>3. got \in Resolution \cup {Nothing}
    <3>1. copy.profiles[old.id] \in Profile
      BY <2>1
    <3>2. Applied(copy, old.id, answers) \in Settings
      <4> HIDE DEF copy
      <4> QED
        BY <2>1, <3>1, AppliedHasType DEF ModelsTypes, ModelsTypeOK
    <3> QED
      BY <3>2, ResolveHasType
  <2>4. CASE RunOn(t, old.base)
    BY <1>1, <1>2, <2>1, <2>4, TurnTypes DEF RunOn, Unstarted, Turn
  <2>5. CASE got # Nothing /\ turn' = [turn EXCEPT ![t] = [@ EXCEPT !.at = "insert", !.got = got]]
    <3> DEFINE new == [old EXCEPT !.at = "insert", !.got = got]
    <3> HIDE DEF got
    <3>1. new \in Turn /\ new.at = "insert" /\ new.id \in Ids /\ new.got \in Resolution
      BY <1>1, <2>1, <2>3, <2>5 DEF Turn
    <3>2. turn' = [turn EXCEPT ![t] = new]
      BY <2>5
    <3> QED
      BY <1>1, <2>1, <3>1, <3>2, TurnTypes
  <2> QED
    BY <2>2, <2>4, <2>5
<1>9. CASE InsertCache(t)
  <2>1. TurnOnly /\ UNCHANGED secrets /\ old.id \in Ids /\ old.got \in Resolution
        /\ cache' = [cache EXCEPT ![old.id] = old.got] /\ RunOn(t, old.got)
    BY <1>1, <1>9 DEF InsertCache, TurnHolds
  <2>2. cache' \in [Ids -> Resolution \cup {Nothing}]
    BY <1>1, <2>1
  <2> QED
    BY <1>1, <1>2, <2>1, <2>2, TurnTypes DEF RunOn, Unstarted, Turn
<1> QED
  BY <1>3, <1>4, <1>5, <1>6, <1>7, <1>8, <1>9 DEF Choose

LEMMA NextModelsTypes == ModelsTypes /\ [Next]_modelVars => ModelsTypes'
<1> SUFFICES ASSUME ModelsTypes, [Next]_modelVars PROVE ModelsTypes'
  OBVIOUS
<1>1. CASE ConfigWrite \/ Remember
  BY <1>1, AskedHasType, ConfigureTypes DEF ConfigWrite, Remember, ModelsTypes, ModelsTypeOK
<1>2. CASE Loop
  BY <1>2, StoreKeyTypes, WriteProfileTypes, ForgetKeyTypes, WriteRemovalTypes, ReapplyTypes,
     ClearCacheTypes DEF Loop
<1>3. CASE UNCHANGED modelVars
  BY <1>3 DEF modelVars, ModelsTypes, ModelsTypeOK, KnobsTypeOK, AskedFirst, TurnHolds
<1> QED
  BY <1>1, <1>2, <1>3, SaveTypes, RemoveTypes, BootTypes, CrashTypes, ChooseTypes DEF Next

LEMMA ModelsTypesHold == Spec => []ModelsTypes
BY InitModelsTypes, NextModelsTypes, PTL DEF Spec

\* The settings, the profiles, the keys, the request and every turn keep their shape: what a
\* turn or the loop has at hand at each step is what that step takes it for.
THEOREM ModelsTypeCorrect == Spec => []ModelsTypeOK
BY ModelsTypesHold, PTL DEF ModelsTypes

-----------------------------------------------------------------------------
(* What was accepted starts                                                *)

\* The saved patch is within the bounds, whatever was written or cut short.
BootIInv == ValidPatch(saved) /\ AcceptedConfigBoots

\* A start is refused for the window or not at all.
LEMMA RefusedForTheWindow ==
    ASSUME KnobsTypeOK, ValidPatch(saved), Boot
    PROVE  AcceptedConfigBoots'
<1> DEFINE s == Overlaid(saved)
<1>1. InBounds(s.tokens) /\ GoodRules(s.rules) /\ knobs' = s
  BY ValidPatchFits DEF Boot
<1>2. CASE ValidSettings(s)
  BY <1>1, <1>2 DEF Boot, AcceptedConfigBoots
<1>3. CASE ~ValidSettings(s)
  <2>1. s.tokens \in 1..3
    BY <1>1 DEF InBounds, Low, High
  <2> HIDE DEF s
  <2>2. Window # 0 /\ s.tokens >= Window
    BY <1>1, <1>3, <2>1, KnobsAssumption DEF ValidSettings
  <2> QED
    BY <1>1, <2>2 DEF AcceptedConfigBoots, InBounds, GoodRules
<1> QED
  BY <1>2, <1>3

LEMMA NextBootIInv == ModelsTypes /\ BootIInv /\ [Next]_modelVars => BootIInv'
<1> SUFFICES ASSUME ModelsTypes, BootIInv, [Next]_modelVars PROVE BootIInv'
  OBVIOUS
<1>1. ASSUME NEW patch, Configure(patch) PROVE BootIInv'
  <2>1. ValidPatch(saved') /\ up' = "yes"
    BY <1>1, SavedStaysValid DEF Configure, Serving, BootIInv
  <2> QED
    BY <2>1 DEF BootIInv, AcceptedConfigBoots, ValidPatch
<1>2. CASE Boot
  <2>1. AcceptedConfigBoots'
    BY <1>2, RefusedForTheWindow DEF BootIInv, ModelsTypes, ModelsTypeOK
  <2> QED
    BY <1>2, <2>1 DEF Boot, BootIInv, ValidPatch
<1>3. ASSUME UNCHANGED <<knobs, saved>>, up' \in {up, "no"} PROVE BootIInv'
  BY <1>3 DEF BootIInv, AcceptedConfigBoots, ValidPatch, InBounds, GoodRules
<1>4. CASE Loop
  BY <1>3, <1>4 DEF Loop, StoreKey, WriteProfile, ForgetKey, WriteRemoval, Reapply, ClearCache
<1>5. ASSUME NEW t \in Turns, StartTurn(t) \/ Choose(t) PROVE BootIInv'
  BY <1>3, <1>5 DEF StartTurn, Choose, Route, Classify, Look, FindProfile, TakeSecrets, FetchKey,
     InsertCache, TurnOnly
<1>6. CASE SaveSome \/ Crash \/ (\E id \in Ids : RemoveModel(id))
  BY <1>3, <1>6 DEF SaveSome, Save, Crash, RemoveModel
<1>7. CASE UNCHANGED modelVars
  BY <1>3, <1>7 DEF modelVars
<1> QED
  BY <1>1, <1>2, <1>4, <1>5, <1>6, <1>7 DEF Next, ConfigWrite, Remember

\* Whatever config/write and remembered commands were let through with, in whatever order they
\* were merged, and whatever a failing write left of them: a start refuses the file for nothing
\* but an answer that the window has no room for.
THEOREM AcceptedStarts == Spec => []AcceptedConfigBoots
<1>1. Init => BootIInv
  BY NothingIsValid DEF Init, BootIInv, AcceptedConfigBoots
<1>2. BootIInv => AcceptedConfigBoots
  BY DEF BootIInv
<1> QED
  BY <1>1, <1>2, NextBootIInv, ModelsTypesHold, PTL DEF Spec

-----------------------------------------------------------------------------
(* What was answered is in the files                                       *)

\* The models: until its write a request leaves the file as it was answered last; after it a
\* save has what is in memory there.
ModelsWritten ==
    /\ request.at \notin {"apply", "clear"} /\ "models" \notin cut => disk = promised.models
    /\ request.at \in {"apply", "clear"} /\ request.kind = "save" => disk = file

\* The parameters: what is in force is what a start would find, except for a table of
\* commands that never reached the file.
KnobsWritten ==
    "knobs" \notin cut =>
        /\ Overlaid(saved).tokens = knobs.tokens
        /\ promised.knobs.tokens = knobs.tokens
        /\ saved.rules # Absent => saved.rules = knobs.rules /\ promised.knobs.rules = knobs.rules

AnswersIInv == ModelsWritten /\ KnobsWritten

\* A write of a patch, where nothing has been cut short.
LEMMA WriteIsKept ==
    ASSUME NEW patch \in Patch, KnobsTypeOK, WritePatch(patch, TRUE),
           Overlaid(saved).tokens = knobs.tokens
    PROVE  /\ Overlaid(saved').tokens = knobs'.tokens
           /\ saved'.rules # Absent => saved'.rules = knobs'.rules
<1> DEFINE whole == MergeNewer(saved, patch)
<1>1. whole \in Patch
  BY MergeHasType DEF KnobsTypeOK
<1>2. knobs' = ApplyPatch(whole, knobs) /\ saved' = IF IsEmpty(whole) THEN NoPatch ELSE whole
  BY DEF WritePatch, SavePatch
<1>3. whole.tokens = Absent => saved.tokens = Absent
  BY DEF MergeNewer, ApplyPatch
<1> HIDE DEF whole
<1>4. CASE whole.tokens = Absent
  <2>1. saved' = NoPatch /\ knobs'.tokens = knobs.tokens
    BY <1>1, <1>2, <1>4 DEF IsEmpty, ApplyPatch, Patch
  <2> QED
    BY <1>3, <1>4, <2>1 DEF NoPatch, Overlaid, ApplyPatch
<1>5. CASE whole.tokens # Absent
  <2>1. saved' = whole
    BY <1>2, <1>5 DEF IsEmpty
  <2> QED
    BY <1>1, <1>2, <1>5, <2>1 DEF Overlaid, ApplyPatch, Patch
<1> QED
  BY <1>4, <1>5

LEMMA NextAnswersIInv == ModelsTypes /\ AnswersIInv /\ [Next]_modelVars => AnswersIInv'
<1> SUFFICES ASSUME ModelsTypes, AnswersIInv, [Next]_modelVars PROVE AnswersIInv'
  OBVIOUS
<1>0. /\ promised \in [models : ModelsFile, knobs : Parameters] /\ KnobsTypeOK
      /\ request \in Request /\ ModelsWritten /\ KnobsWritten
  BY DEF ModelsTypes, ModelsTypeOK, AnswersIInv
<1>1. ASSUME NEW patch \in Patch, Configure(patch) PROVE AnswersIInv'
  <2>1. request = Idle /\ request.at = "idle" /\ UNCHANGED <<request, disk, file>>
    BY <1>1 DEF Configure, Serving, Idle
  <2>2. /\ promised' \in {promised, [promised EXCEPT !.knobs = knobs']}
        /\ cut' \in {cut, cut \cup {"knobs"}}
    BY <1>1 DEF Configure
  <2>3. ModelsWritten'
    BY <1>0, <2>1, <2>2 DEF ModelsWritten
  <2>4. CASE WritePatch(patch, TRUE) /\ promised' = [promised EXCEPT !.knobs = knobs'] /\ cut' = cut
    <3>1. promised'.knobs = knobs'
      BY <1>0, <2>4
    <3>2. Overlaid(saved).tokens = knobs.tokens =>
            /\ Overlaid(saved)'.tokens = knobs'.tokens
            /\ saved'.rules # Absent => saved'.rules = knobs'.rules
      BY <1>0, <2>4, WriteIsKept DEF Overlaid
    <3> QED
      BY <1>0, <2>3, <2>4, <3>1, <3>2 DEF KnobsWritten, AnswersIInv
  <2>5. CASE WritePatch(patch, FALSE) /\ promised' = promised
             /\ cut' = IF saved' = saved THEN cut ELSE cut \cup {"knobs"}
    <3>1. knobs' = knobs
      BY <2>5 DEF WritePatch
    <3>2. CASE saved' = saved
      BY <1>0, <2>3, <2>5, <3>1, <3>2 DEF KnobsWritten, Overlaid, ApplyPatch, AnswersIInv
    <3>3. CASE saved' # saved
      BY <2>3, <2>5, <3>3 DEF KnobsWritten, AnswersIInv
    <3> QED
      BY <3>2, <3>3
  <2> QED
    BY <1>1, <2>3, <2>4, <2>5 DEF Configure, AnswersIInv
<1>2. CASE Boot
  <2>1. ModelsWritten'
    BY <1>0, <1>2 DEF Boot, ModelsWritten
  <2>2. UNCHANGED <<saved, promised, cut>> /\ knobs' = Overlaid(saved)
    BY <1>2 DEF Boot
  <2>3. KnobsWritten'
    BY <1>0, <2>2 DEF KnobsWritten, Overlaid, ApplyPatch
  <2> QED
    BY <2>1, <2>3 DEF AnswersIInv
<1>3. ASSUME cut' = cut \/ cut' = cut \cup {"models"} \/ cut' = cut \ {"models"},
             UNCHANGED <<knobs, saved>>, promised'.knobs = promised.knobs, ModelsWritten'
      PROVE  AnswersIInv'
  <2>1. "knobs" \in cut' <=> "knobs" \in cut
    BY <1>3
  <2>2. KnobsWritten'
    BY <1>0, <1>3, <2>1 DEF KnobsWritten, Overlaid, ApplyPatch
  <2> QED
    BY <1>3, <2>2 DEF AnswersIInv
<1>4. CASE SaveSome \/ (\E id \in Ids : RemoveModel(id)) \/ StoreKey \/ ForgetKey
  <2>1. UNCHANGED <<knobs, saved, cut, promised, disk>>
    BY <1>4 DEF SaveSome, Save, RemoveModel, StoreKey, ForgetKey
  <2>2. request.at \in {"idle", "store", "forget"}
    <3>1. CASE SaveSome \/ \E id \in Ids : RemoveModel(id)
      BY <3>1 DEF SaveSome, Save, RemoveModel, Serving, Idle
    <3>2. CASE StoreKey
      BY <3>2 DEF StoreKey
    <3>3. CASE ForgetKey
      BY <3>3 DEF ForgetKey
    <3> QED
      BY <1>4, <3>1, <3>2, <3>3
  <2>3. request'.at \notin {"apply", "clear"}
    <3>1. CASE SaveSome \/ \E id \in Ids : RemoveModel(id)
      BY <3>1 DEF SaveSome, Save, RemoveModel
    <3>2. CASE StoreKey \/ ForgetKey
      <4>1. \/ request' = Idle
            \/ request' = [request EXCEPT !.at = "write"]
            \/ \E where \in {"keychain", "file"} :
                 request' = [request EXCEPT !.at = "write", !.credential = where]
        BY <3>2 DEF StoreKey, ForgetKey
      <4>2. request # Idle
        <5>1. request.at = "store" \/ request.at = "forget"
          BY <3>2 DEF StoreKey, ForgetKey
        <5> QED
          BY <5>1 DEF Idle
      <4>3. [request EXCEPT !.at = "write"].at = "write"
        BY <1>0, <4>2 DEF Idle, Request
      <4>4. ASSUME NEW where \in {"keychain", "file"},
                   request' = [request EXCEPT !.at = "write", !.credential = where]
            PROVE  request'.at = "write"
        BY <1>0, <4>2, <4>4 DEF Idle, Request
      <4>5. CASE request' = Idle
        BY <4>5 DEF Idle
      <4> QED
        BY <4>1, <4>3, <4>4, <4>5
    <3> QED
      BY <1>4, <3>1, <3>2
  <2> QED
    BY <1>0, <1>3, <2>1, <2>2, <2>3 DEF ModelsWritten
<1>5. CASE WriteProfile
  <2>1. request.at = "write" /\ request # Idle /\ UNCHANGED <<knobs, saved, promised>>
    BY <1>5 DEF WriteProfile, Idle
  <2>2. CASE SaveModels(file', TRUE) /\ request' = [request EXCEPT !.at = "apply"]
    <3>1. disk' = file' /\ cut' = cut \ {"models"}
      BY <2>2 DEF SaveModels
    <3>2. request'.at = "apply"
      BY <1>0, <2>1, <2>2 DEF Request, Idle
    <3> QED
      BY <1>3, <2>1, <3>1, <3>2 DEF ModelsWritten
  <2>3. CASE SaveModels(file', FALSE) /\ request' = Idle
    <3>1. request'.at = "idle"
      BY <2>3 DEF Idle
    <3>2. CASE UNCHANGED <<disk, cut>>
      BY <1>0, <1>3, <2>1, <3>1, <3>2 DEF ModelsWritten
    <3>3. CASE cut' = cut \cup {"models"}
      BY <1>0, <1>3, <2>1, <3>1, <3>3 DEF ModelsWritten
    <3> QED
      BY <2>3, <3>2, <3>3 DEF SaveModels
  <2>4. \/ SaveModels(file', TRUE) /\ request' = [request EXCEPT !.at = "apply"]
        \/ SaveModels(file', FALSE) /\ request' = Idle
    BY <1>5 DEF WriteProfile
  <2> QED
    BY <2>2, <2>3, <2>4
<1>6. CASE WriteRemoval
  <2>1. /\ request'.at = "apply" /\ request'.kind = "remove"
        /\ UNCHANGED <<knobs, saved, promised>>
    BY <1>0, <1>6 DEF WriteRemoval, Request, Idle
  <2>2. cut' = cut \/ cut' = cut \cup {"models"} \/ cut' = cut \ {"models"}
    BY <1>6 DEF WriteRemoval, SaveModels
  <2> QED
    BY <1>3, <2>1, <2>2 DEF ModelsWritten
<1>7. CASE Reapply
  <2>1. /\ request.at = "apply" /\ request'.at = "clear" /\ request'.kind = request.kind
        /\ UNCHANGED <<knobs, saved, promised, disk, file, cut>>
    BY <1>0, <1>7 DEF Reapply, Request, Idle
  <2> QED
    BY <1>0, <1>3, <2>1 DEF ModelsWritten
<1>8. CASE ClearCache
  <2>1. /\ request.at = "clear" /\ request' = Idle /\ request'.at = "idle"
        /\ UNCHANGED <<knobs, saved, disk, file, cut>>
        /\ promised' = [promised EXCEPT !.models = IF request.kind = "save" THEN file ELSE disk]
    BY <1>8 DEF ClearCache, Idle
  <2>2. promised'.models = disk /\ promised'.knobs = promised.knobs
    BY <1>0, <2>1 DEF ModelsWritten
  <2> QED
    BY <1>3, <2>1, <2>2 DEF ModelsWritten
<1>9. CASE Crash
  <2>1. /\ request' = Idle /\ request'.at = "idle" /\ UNCHANGED <<knobs, saved>>
        /\ cut' = IF disk' = disk THEN cut ELSE cut \cup {"models"}
    BY <1>9 DEF Crash, Idle
  <2>2. promised'.knobs = promised.knobs /\ ("models" \notin cut' => promised'.models = disk')
    BY <1>0, <1>9, <2>1 DEF Crash, ModelsWritten
  <2> QED
    BY <1>3, <2>1, <2>2 DEF ModelsWritten
<1>10. ASSUME NEW t \in Turns, StartTurn(t) \/ Choose(t) PROVE AnswersIInv'
  <2>1. UNCHANGED <<knobs, saved, promised, disk, file, cut, request>>
    BY <1>10 DEF StartTurn, Choose, Route, Classify, Look, FindProfile, TakeSecrets, FetchKey, InsertCache,
       TurnOnly
  <2> QED
    BY <1>0, <1>3, <2>1 DEF ModelsWritten
<1>11. CASE UNCHANGED modelVars
  BY <1>0, <1>3, <1>11 DEF modelVars, ModelsWritten
<1> QED
  BY <1>0, <1>1, <1>2, <1>4, <1>5, <1>6, <1>7, <1>8, <1>9, <1>10, <1>11, AskedHasType
     DEF Next, ConfigWrite, Remember, Loop

\* What a save, a removal or a config/write was told to have done is what the next start finds,
\* unless a write that failed cut that very file short: whatever is asked, in whatever order,
\* and wherever the process dies.
THEOREM AnswersLast == Spec => []AnswersOutliveRestarts
<1>1. Init => AnswersIInv
  BY DEF Init, AnswersIInv, ModelsWritten, KnobsWritten, Idle, FromEnv, NoPatch, Overlaid, ApplyPatch
<1>2. ModelsTypes /\ AnswersIInv /\ [Next]_modelVars => AnswersIInv'
  BY NextAnswersIInv
<1>3. AnswersIInv => AnswersOutliveRestarts
  BY DEF AnswersIInv, ModelsWritten, KnobsWritten, AnswersOutliveRestarts, Idle
<1> QED
  BY <1>1, <1>2, <1>3, ModelsTypesHold, PTL DEF Spec

-----------------------------------------------------------------------------
(* What is cached is fresh                                                 *)

\* The value is what resolving the profile now would give.
Fresh(id, value) ==
    /\ Has(file, id)
    /\ \E answers \in BOOLEAN : value = Resolve(Applied(file, id, answers))

\* The request in flight may have changed this profile or its key already.
Changing(id) == request.at \notin {"idle", "store"} /\ request.id = id

\* An entry that is not fresh was crossed, or is about to go with the whole cache.
CacheFresh ==
    \A id \in Ids \ crossed : ~Changing(id) /\ cache[id] # Nothing => Fresh(id, cache[id])

\* A turn that has not been crossed resolves the profile as it is, and no request is at it.
Uncrossed(t) ==
    turn[t].at \in {"key", "get", "insert"} /\ turn[t].id \notin crossed =>
        /\ request.at # "idle" => request.id # turn[t].id
        /\ turn[t].at # "insert" => Has(file, turn[t].id) /\ turn[t].got = file.profiles[turn[t].id]
        /\ turn[t].at = "insert" => Fresh(turn[t].id, turn[t].got)

\* Nothing survives in a process that is not there.
DownIsEmpty ==
    up # "yes" =>
        /\ request = Idle /\ cache = NoCache
        /\ \A t \in Turns : turn[t].at \in {"new", "gone"}

CacheIInv == CacheFresh /\ DownIsEmpty /\ \A t \in Turns : Uncrossed(t)

\* Neither the profile nor what either place has for its key changes.
Untouched(id) ==
    /\ file'.profiles[id] = file.profiles[id]
    /\ keychain'[id] = keychain[id] /\ vault'[id] = vault[id]

\* Resolving a profile looks at nothing but its entry and its keys.
LEMMA ResolvesAlike ==
    ASSUME NEW id, NEW value, Fresh(id, value), Untouched(id)
    PROVE  Fresh(id, value)'
<1>1. Has(file, id)'
  BY DEF Fresh, Has, Untouched
<1>2. PICK answers \in BOOLEAN : value = Resolve(Applied(file, id, answers))
  BY DEF Fresh
<1>3. Applied(file, id, answers)' = Applied(file, id, answers)
  BY DEF Applied, KeysOf, InStore, Untouched
<1>4. value = Resolve(Applied(file, id, answers))'
  BY <1>2, <1>3 DEF Resolve
<1> QED
  BY <1>1, <1>4 DEF Fresh

\* A step of the request loop keeps the invariant when it marks what it changes and who
\* crosses it, and leaves the cache and the turns alone.
LEMMA MarkedChangeIsFine ==
    ASSUME ModelsTypes, CacheIInv, up = "yes", UNCHANGED <<up, cache, turn>>,
           crossed \subseteq crossed',
           \A id \in Ids \ crossed' : Untouched(id) \/ Changing(id)',
           \A id \in Ids : Changing(id) => Changing(id)' \/ id \in crossed',
           \A t \in Resolving : turn[t].id \notin crossed' =>
                Untouched(turn[t].id) /\ (request'.at # "idle" => request'.id # turn[t].id)
    PROVE  CacheIInv'
<1>1. CacheFresh'
  <2> SUFFICES ASSUME NEW id \in Ids, id \notin crossed', ~Changing(id)', cache'[id] # Nothing
               PROVE  Fresh(id, cache[id])'
    BY DEF CacheFresh
  <2>1. Untouched(id) /\ ~Changing(id) /\ id \notin crossed
    OBVIOUS
  <2>2. Fresh(id, cache[id])
    BY <2>1 DEF CacheIInv, CacheFresh
  <2>3. \A value : Fresh(id, value) => Fresh(id, value)'
    BY <2>1, ResolvesAlike
  <2> QED
    BY <2>2, <2>3 DEF Fresh
<1>2. ASSUME NEW t \in Turns PROVE Uncrossed(t)'
  <2> SUFFICES ASSUME turn[t].at \in {"key", "get", "insert"}, turn[t].id \notin crossed'
               PROVE  Uncrossed(t)'
    BY DEF Uncrossed
  <2>1. Untouched(turn[t].id) /\ (request'.at # "idle" => request'.id # turn[t].id)
    BY DEF Resolving
  <2>2. Uncrossed(t) /\ turn[t].id \notin crossed
    BY DEF CacheIInv
  <2>3. \A id, value : Untouched(id) /\ Fresh(id, value) => Fresh(id, value)'
    BY ResolvesAlike
  <2>4. turn[t].at = "insert" => Fresh(turn[t].id, turn[t].got)'
    BY <2>1, <2>2, <2>3 DEF Uncrossed, Fresh
  <2>5. turn[t].at # "insert" =>
            Has(file, turn[t].id)' /\ turn[t].got = file'.profiles[turn[t].id]
    BY <2>1, <2>2 DEF Uncrossed, Has, Untouched
  <2> QED
    BY <2>1, <2>4, <2>5 DEF Uncrossed
<1>3. DownIsEmpty'
  BY DEF DownIsEmpty
<1> QED
  BY <1>1, <1>2, <1>3 DEF CacheIInv

LEMMA LoopKeepsCache ==
    ASSUME ModelsTypes, CacheIInv,
           SaveSome \/ Loop \/ (\E id \in Ids : RemoveModel(id)) \/ (\E patch : Configure(patch))
    PROVE  CacheIInv'
<1>0. /\ file \in ModelsFile /\ request \in Request /\ turn \in [Turns -> Turn]
      /\ keychain \in [Ids -> Key \cup {Nothing}] /\ vault \in [Ids -> Key \cup {Nothing}]
      /\ crossed \subseteq Ids /\ DownIsEmpty
      /\ \A t \in Resolving : turn[t].id \in Ids /\ Uncrossed(t) /\ turn[t].at \in {"key", "get", "insert"}
  BY DEF ModelsTypes, ModelsTypeOK, CacheIInv, Resolving, TurnHolds
<1>1. CASE SaveSome
  <2> PICK s \in Saves : Save(s.id, s.vendor, s.url, s.credential, s.active)
    BY <1>1 DEF SaveSome
  <2>1. /\ up = "yes" /\ request = Idle /\ request'.at = "store" /\ request'.id = s.id
        /\ UNCHANGED <<up, cache, turn, file, keychain, vault>>
        /\ crossed' = crossed \cup Crosses(s.id)
    BY DEF Save, Serving
  <2>2. \A t \in Resolving : turn[t].id = s.id => s.id \in crossed'
    BY <2>1 DEF Crosses
  <2> QED
    BY <2>1, <2>2, MarkedChangeIsFine DEF Untouched, Changing, Idle
<1>2. ASSUME NEW id \in Ids, RemoveModel(id)
      PROVE  CacheIInv'
  <2>1. /\ up = "yes" /\ request = Idle /\ request'.at = "forget" /\ request'.id = id
        /\ UNCHANGED <<up, cache, turn, keychain, vault>>
        /\ crossed' = crossed \cup Crosses(id)
        /\ file' = Removed(file, id)
    BY <1>2 DEF RemoveModel, Serving
  <2>2. \A t \in Resolving : turn[t].id = id => id \in crossed'
    BY <2>1 DEF Crosses
  <2>3. \A i \in Ids : i # id => Untouched(i)
    BY <1>0, <2>1 DEF Untouched, Removed, ModelsFile
  <2>4. \A i \in Ids : ~Changing(i)
    BY <2>1 DEF Changing, Idle
  <2>5. Changing(id)'
    BY <2>1 DEF Changing
  <2> QED
    BY <1>0, <2>1, <2>2, <2>3, <2>4, <2>5, MarkedChangeIsFine
<1>3. ASSUME NEW patch, Configure(patch)
      PROVE  CacheIInv'
  <2>1. /\ up = "yes" /\ request = Idle
        /\ UNCHANGED <<up, cache, turn, request, file, keychain, vault, crossed>>
    BY <1>3 DEF Configure, Serving
  <2> QED
    BY <2>1, MarkedChangeIsFine DEF Untouched, Changing, Idle
<1>4. CASE StoreKey
  <2>1. /\ request.at = "store" /\ request # Idle /\ up = "yes" /\ request.id \in Ids
        /\ UNCHANGED <<up, cache, turn, file>>
    BY <1>0, <1>4 DEF StoreKey, DownIsEmpty, Idle, Request
  <2>2. CASE request' = Idle /\ UNCHANGED <<keychain, vault, crossed>>
    BY <2>1, <2>2, MarkedChangeIsFine DEF Untouched, Changing, Idle
  <2>7. CASE crossed' = Ids
    BY <1>0, <2>1, <2>7, MarkedChangeIsFine DEF Changing
  <2>3. ASSUME request'.at = "write", request'.id = request.id, crossed' = crossed
        PROVE  CacheIInv'
    <3>1. \A i \in Ids : i # request.id => Untouched(i)
      BY <1>0, <1>4, <2>1, <2>3 DEF StoreKey, Put, SaveVault, VaultWith, Untouched, Idle
    <3>2. \A i \in Ids : ~Changing(i)
      BY <2>1 DEF Changing
    <3>3. \A t \in Resolving : turn[t].id \notin crossed => turn[t].id # request.id
      BY <1>0, <2>1 DEF Uncrossed
    <3>4. Changing(request.id)'
      BY <2>3 DEF Changing
    <3>5. \A i \in Ids : i = request.id => Changing(i)'
      BY <2>3 DEF Changing
    <3> QED
      BY <1>0, <2>1, <2>3, <3>1, <3>2, <3>3, <3>5, MarkedChangeIsFine
  <2>4. \/ request' = Idle /\ UNCHANGED <<keychain, vault, crossed>>
        \/ crossed' = Ids
        \/ request' = [request EXCEPT !.at = "write"] /\ crossed' = crossed
        \/ \E where \in {"keychain", "file"} :
             /\ request' = [request EXCEPT !.at = "write", !.credential = where]
             /\ crossed' = crossed
    BY <1>4 DEF StoreKey, Put, SaveVault
  <2>5. [request EXCEPT !.at = "write"].at = "write"
        /\ [request EXCEPT !.at = "write"].id = request.id
    BY <1>0, <2>1 DEF Idle, Request
  <2>6. ASSUME NEW where \in {"keychain", "file"},
               request' = [request EXCEPT !.at = "write", !.credential = where]
        PROVE  request'.at = "write" /\ request'.id = request.id
    BY <1>0, <2>1, <2>6 DEF Idle, Request
  <2> QED
    BY <2>2, <2>3, <2>4, <2>5, <2>6, <2>7
<1>5. CASE WriteProfile
  <2>1. /\ request.at = "write" /\ request # Idle /\ up = "yes" /\ request.id \in Ids
        /\ UNCHANGED <<up, cache, turn, keychain, vault>>
    BY <1>0, <1>5 DEF WriteProfile, DownIsEmpty, Idle, Request
  <2>2. \A i \in Ids : i # request.id => Untouched(i)
    BY <1>0, <1>5, <2>1 DEF WriteProfile, Upserted, ModelsFile, Untouched
  <2>3. \A t \in Resolving : turn[t].id \notin crossed => turn[t].id # request.id
    BY <1>0, <2>1 DEF Uncrossed
  <2>4. \A i \in Ids : Changing(i) <=> i = request.id
    BY <2>1 DEF Changing
  <2>5. CASE request' = Idle /\ crossed' = crossed \cup {request.id}
    <3>1. request'.at = "idle"
      BY <2>5 DEF Idle
    <3> QED
      BY <1>0, <2>1, <2>2, <2>3, <2>4, <2>5, <3>1, MarkedChangeIsFine
  <2>6. CASE request' = [request EXCEPT !.at = "apply"] /\ crossed' = crossed
    <3>1. request'.at = "apply" /\ request'.id = request.id
      BY <1>0, <2>1, <2>6 DEF Idle, Request
    <3>2. \A i \in Ids : i = request.id => Changing(i)'
      BY <3>1 DEF Changing
    <3> QED
      BY <1>0, <2>1, <2>2, <2>3, <2>4, <2>6, <3>1, <3>2, MarkedChangeIsFine
  <2> QED
    BY <1>5, <2>5, <2>6 DEF WriteProfile
<1>6. CASE ForgetKey \/ WriteRemoval \/ Reapply
  <2>0. request.at \in {"forget", "write", "apply"} /\ request # Idle
    <3>1. request.at \in {"forget", "write", "apply"}
      BY <1>6 DEF ForgetKey, WriteRemoval, Reapply
    <3> QED
      BY <3>1 DEF Idle
  <2>1. /\ request.at \in {"forget", "write", "apply"} /\ request # Idle /\ up = "yes"
        /\ request.id \in Ids /\ UNCHANGED <<up, cache, turn, file>>
    <3>1. UNCHANGED <<up, cache, turn, file>>
      BY <1>6 DEF ForgetKey, WriteRemoval, Reapply
    <3>2. request.id \in Ids
      BY <1>0, <2>0 DEF Idle, Request
    <3>3. up = "yes"
      BY <1>0, <2>0 DEF DownIsEmpty
    <3> QED
      BY <2>0, <3>1, <3>2, <3>3
  <2>6. crossed' = crossed \/ crossed' = Ids
    BY <1>6 DEF ForgetKey, Forget, SaveVault, WriteRemoval, Reapply
  <2>7. \A i \in Ids \ crossed' : i # request.id => Untouched(i)
    <3>1. CASE ForgetKey
      BY <1>0, <2>1, <3>1 DEF ForgetKey, Forget, SaveVault, VaultWith, Untouched
    <3>2. CASE WriteRemoval \/ Reapply
      BY <2>1, <3>2 DEF WriteRemoval, Reapply, Untouched
    <3> QED
      BY <1>6, <3>1, <3>2
  <2>3. \A t \in Resolving : turn[t].id \notin crossed => turn[t].id # request.id
    BY <1>0, <2>1 DEF Uncrossed
  <2>4. request'.at \in {"write", "apply", "clear"} /\ request'.id = request.id
    BY <1>0, <1>6, <2>1 DEF ForgetKey, WriteRemoval, Reapply, Idle, Request
  <2>5. \A i \in Ids : (Changing(i) <=> i = request.id) /\ (i = request.id => Changing(i)')
    BY <2>1, <2>4 DEF Changing
  <2> QED
    BY <1>0, <2>1, <2>3, <2>4, <2>5, <2>6, <2>7, MarkedChangeIsFine
<1>7. CASE ClearCache
  <2>1. /\ request' = Idle /\ request'.at = "idle" /\ cache' = NoCache /\ up = "yes"
        /\ UNCHANGED <<up, turn, file, keychain, vault>>
        /\ crossed' = {i \in crossed : Crosses(i) # {}}
    BY <1>0, <1>7 DEF ClearCache, DownIsEmpty, Idle
  <2>2. CacheFresh' /\ DownIsEmpty'
    BY <1>0, <2>1 DEF CacheFresh, DownIsEmpty, NoCache
  <2>3. ASSUME NEW t \in Turns PROVE Uncrossed(t)'
    <3>1. CASE t \in Resolving
      <4>1. turn[t].id \in crossed => turn[t].id \in crossed'
        BY <2>1, <3>1 DEF Crosses
      <4>2. \A id, value : Fresh(id, value) => Fresh(id, value)'
        BY <2>1, ResolvesAlike DEF Untouched
      <4>3. CASE turn[t].id \in crossed'
        BY <2>1, <4>3 DEF Uncrossed
      <4>4. CASE turn[t].id \notin crossed'
        <5>1. Uncrossed(t) /\ turn[t].id \notin crossed
          BY <1>0, <3>1, <4>1, <4>4
        <5>2. turn[t].at = "insert" => Fresh(turn[t].id, turn[t].got)'
          BY <2>1, <4>2, <5>1 DEF Uncrossed, Fresh
        <5>3. turn[t].at \in {"key", "get"} =>
                  Has(file, turn[t].id)' /\ turn[t].got = file'.profiles[turn[t].id]
          BY <2>1, <5>1 DEF Uncrossed, Has
        <5> QED
          BY <2>1, <5>2, <5>3 DEF Uncrossed
      <4> QED
        BY <4>3, <4>4
    <3>2. CASE t \notin Resolving
      BY <2>1, <3>2 DEF Uncrossed, Resolving
    <3> QED
      BY <3>1, <3>2
  <2> QED
    BY <2>2, <2>3 DEF CacheIInv
<1> QED
  BY <1>1, <1>2, <1>3, <1>4, <1>5, <1>6, <1>7 DEF Loop

\* A start finds no turn and no entry; a crash leaves none.
LEMMA RestartKeepsCache ==
    ASSUME ModelsTypes, CacheIInv, Boot \/ Crash
    PROVE  CacheIInv'
<1>1. /\ cache' = NoCache /\ request' = Idle /\ \A t \in Turns : turn'[t].at \in {"new", "gone"}
  <2>1. CASE Boot
    BY <2>1 DEF Boot, CacheIInv, DownIsEmpty
  <2>2. CASE Crash
    BY <2>2 DEF Crash, Unstarted, ModelsTypes, ModelsTypeOK, Turn
  <2> QED
    BY <2>1, <2>2
<1> QED
  BY <1>1 DEF CacheIInv, CacheFresh, DownIsEmpty, Uncrossed, NoCache

\* A step of a turn: nothing that an entry rests on changes, and what it inserts is fresh
\* unless it was crossed.
LEMMA TurnKeepsCache ==
    ASSUME ModelsTypes, CacheIInv, NEW t \in Turns, StartTurn(t) \/ Choose(t)
    PROVE  CacheIInv'
<1>0. /\ file \in ModelsFile /\ turn \in [Turns -> Turn] /\ cache \in [Ids -> Resolution \cup {Nothing}]
      /\ TurnHolds(t) /\ Uncrossed(t) /\ turn[t] \in Turn /\ DownIsEmpty
  BY DEF ModelsTypes, ModelsTypeOK, CacheIInv
<1>1. /\ UNCHANGED <<up, file, keychain, vault, request, crossed>>
      /\ \A u \in Turns : u # t => turn'[u] = turn[u]
  BY <1>0 DEF StartTurn, Choose, Route, Classify, Decide, Look, FindProfile, TakeSecrets, FetchKey, InsertCache,
     TurnOnly, Goto, RunOn
<1>2. up = "yes"
  BY <1>0 DEF StartTurn, Choose, Route, Classify, Decide, Look, FindProfile, TakeSecrets, FetchKey, InsertCache,
     DownIsEmpty
<1>3. \A id, value : Fresh(id, value) => Fresh(id, value)'
  BY <1>1, ResolvesAlike DEF Untouched
<1>4. ASSUME NEW u \in Turns, u # t PROVE Uncrossed(u)'
  <2>1. turn'[u] = turn[u] /\ Uncrossed(u)
    BY <1>1, <1>4 DEF CacheIInv
  <2>2. Fresh(turn[u].id, turn[u].got) => Fresh(turn[u].id, turn[u].got)'
    BY <1>3, <2>1 DEF Fresh
  <2> QED
    BY <1>1, <2>1, <2>2 DEF Uncrossed, Has, Fresh
<1>5. (cache' = cache) \/ InsertCache(t)
  BY DEF StartTurn, Choose, Route, Classify, Look, FindProfile, TakeSecrets, FetchKey
<1>6. CacheFresh'
  <2> SUFFICES ASSUME NEW id \in Ids, id \notin crossed, ~Changing(id), cache'[id] # Nothing
               PROVE  Fresh(id, cache'[id])
    BY <1>1, <1>3 DEF CacheFresh, Changing, Fresh
  <2>1. CASE cache'[id] = cache[id]
    BY <2>1 DEF CacheIInv, CacheFresh
  <2>2. CASE cache'[id] # cache[id]
    <3>1. InsertCache(t) /\ id = turn[t].id /\ cache'[id] = turn[t].got /\ turn[t].at = "insert"
      BY <1>0, <1>5, <2>2 DEF InsertCache
    <3> QED
      BY <1>0, <3>1 DEF Uncrossed
  <2> QED
    BY <2>1, <2>2
<1>7. Uncrossed(t)'
  <2>1. CASE turn'[t].at \notin {"key", "get", "insert"}
    BY <2>1 DEF Uncrossed
  <2>2. CASE FindProfile(t) /\ turn'[t].at = "key"
    <3>1. /\ request = Idle /\ Has(file, turn[t].id)
          /\ turn'[t].id = turn[t].id /\ turn'[t].got = file.profiles[turn[t].id]
      BY <1>0, <2>2 DEF FindProfile, ModelsFree, RunOn, Unstarted, Turn
    <3> QED
      BY <1>1, <2>2, <3>1 DEF Uncrossed, Has, Idle
  <2>3. CASE TakeSecrets(t)
    <3>1. /\ turn[t].at = "key" /\ turn'[t].at = "get"
          /\ turn'[t].id = turn[t].id /\ turn'[t].got = turn[t].got
      BY <1>0, <2>3 DEF TakeSecrets, Goto, Turn
    <3> QED
      BY <1>0, <1>1, <3>1 DEF Uncrossed, Has
  <2>4. CASE FetchKey(t) /\ turn'[t].at = "insert"
    <3> DEFINE copy == [active |-> Nothing, profiles |-> [i \in Ids |-> turn[t].got]]
    <3>1. turn[t].at = "get" /\ turn[t].id \in Ids
      BY <1>0, <2>4 DEF FetchKey, TurnHolds
    <3>2. PICK answers \in BOOLEAN :
              /\ turn'[t].id = turn[t].id
              /\ turn'[t].got = Resolve(Applied(copy, turn[t].id, answers))
      BY <1>0, <2>4 DEF FetchKey, KeychainAnswers, RunOn, Unstarted, Turn
    <3>3. CASE turn[t].id \notin crossed
      <4>1. Has(file, turn[t].id) /\ turn[t].got = file.profiles[turn[t].id]
            /\ (request.at # "idle" => request.id # turn[t].id)
        BY <1>0, <3>1, <3>3 DEF Uncrossed
      <4>2. copy.profiles[turn[t].id] = file.profiles[turn[t].id]
        BY <3>1, <4>1
      <4>3. Fresh(turn[t].id, turn'[t].got)
        BY <3>2, <4>1, <4>2, CopyResolvesAlike DEF Fresh
      <4> QED
        BY <1>1, <1>3, <2>4, <3>2, <4>1, <4>3 DEF Uncrossed, Fresh
    <3> QED
      BY <1>1, <3>2, <3>3 DEF Uncrossed
  <2>5. \A model : [Unstarted EXCEPT !.at = "run", !.used = model].at = "run"
    BY DEF Unstarted
  <2>6. \A model : RunOn(t, model) => turn'[t].at = "run"
    BY <1>0, <2>5 DEF RunOn
  <2>7. CASE StartTurn(t)
    <3>1. turn'[t].at \in {"refused", "route"}
      BY <1>0, <2>7 DEF StartTurn, Turn
    <3> QED
      BY <2>1, <3>1
  <2>8. CASE Route(t) \/ Classify(t) \/ Look(t) \/ InsertCache(t)
    <3>1. \/ \E model : RunOn(t, model)
          \/ \E id : turn' = [turn EXCEPT ![t] = [@ EXCEPT !.at = "look", !.id = id]]
          \/ \E id : turn' = [turn EXCEPT ![t] = [@ EXCEPT !.at = "ask", !.id = id]]
          \/ Goto(t, "find")
      BY <2>8 DEF Route, Classify, Decide, Look, InsertCache
    <3>2. turn'[t].at \in {"run", "look", "ask", "find"}
      BY <1>0, <2>6, <3>1 DEF Goto, Turn
    <3> QED
      BY <2>1, <3>2
  <2>9. CASE FindProfile(t)
    BY <1>0, <2>1, <2>2, <2>6, <2>9 DEF FindProfile, Turn
  <2>10. CASE FetchKey(t)
    <3>1. \/ RunOn(t, turn[t].base)
          \/ \E got : turn' = [turn EXCEPT ![t] = [@ EXCEPT !.at = "insert", !.got = got]]
      BY <2>10 DEF FetchKey
    <3>2. turn'[t].at \in {"run", "insert"}
      BY <1>0, <2>6, <3>1 DEF Turn
    <3> QED
      BY <2>1, <2>4, <2>10, <3>2
  <2> QED
    BY <2>3, <2>7, <2>8, <2>9, <2>10 DEF Choose
<1>8. DownIsEmpty'
  BY <1>1, <1>2 DEF DownIsEmpty
<1> QED
  BY <1>4, <1>6, <1>7, <1>8 DEF CacheIInv

\* A cached profile is what resolving it now would give, from one of the places its key may be
\* in, for every interleaving of turns with saves and removals, as long as no turn was
\* resolving that profile while it was changed and no write of it or of the keys failed.
THEOREM CacheIsFresh == Spec => []CalmCacheIsFresh
<1>1. Init => CacheIInv
  BY DEF Init, CacheIInv, CacheFresh, DownIsEmpty, Uncrossed, NoCache, Unstarted
<1>2. ModelsTypes /\ CacheIInv /\ [Next]_modelVars => CacheIInv'
  <2> SUFFICES ASSUME ModelsTypes, CacheIInv, [Next]_modelVars PROVE CacheIInv'
    OBVIOUS
  <2>1. CASE UNCHANGED modelVars
    <3>1. \A id, value : Fresh(id, value) => Fresh(id, value)'
      BY <2>1, ResolvesAlike DEF Untouched, modelVars
    <3>2. CacheFresh' /\ DownIsEmpty'
      BY <2>1, <3>1 DEF modelVars, CacheIInv, CacheFresh, DownIsEmpty, Changing, Fresh
    <3>3. \A t \in Turns : Uncrossed(t)'
      BY <2>1, <3>1 DEF modelVars, CacheIInv, Uncrossed, Has, Fresh
    <3> QED
      BY <3>2, <3>3 DEF CacheIInv
  <2> QED
    BY <2>1, LoopKeepsCache, RestartKeepsCache, TurnKeepsCache DEF Next, ConfigWrite, Remember
<1>3. CacheIInv => CalmCacheIsFresh
  BY DEF CacheIInv, CacheFresh, CalmCacheIsFresh, KeychainAnswers, Fresh, Changing, Idle
<1> QED
  BY <1>1, <1>2, <1>3, ModelsTypesHold, PTL DEF Spec


-----------------------------------------------------------------------------
(* What is on the wire                                                     *)

Frames ==
    {Response(c, what) : c \in Calls, what \in SUBSET Writes}
        \cup {Refusal(c) : c \in Calls}
        \cup [kind : {"turnStarted", "turnCompleted"}, turn : TurnCalls] \cup {[kind |-> "graph"]}
        \cup {[kind |-> "failure"]}

Streams ==
    [state : {"unopened", "open", "ended", "left"}, queue : Seq(Frames), known : BOOLEAN,
     turn : TurnCalls, lagged : BOOLEAN, answered : BOOLEAN]

WireTypes ==
    /\ stdin \in Seq(Calls) /\ sent \in Seq(Calls) /\ stdout \in Seq(Frames)
    /\ memory \in SUBSET Writes
    /\ progress \in [TurnCalls -> 0..5]
    /\ call \in [Calls -> {"unmade", "idle", "writing", "waiting", "answered", "refused", "failed"}]
    /\ answer \in [Calls -> SUBSET Writes]
    /\ pending \subseteq Calls
    /\ stream \in [TurnCalls -> Streams]
    /\ shown \in [TurnCalls -> Seq(Frames)]


LEMMA FrameFacts ==
    /\ \A c \in Calls, what \in SUBSET Writes :
           /\ Response(c, what) \in Frames /\ Response(c, what).kind = "response"
           /\ Response(c, what).call = c /\ Response(c, what).what = what
    /\ \A c \in Calls : Refusal(c) \in Frames /\ Refusal(c).kind = "error" /\ Refusal(c).call = c
    /\ \A f \in Frames :
           /\ f.kind = "response" => f.call \in Calls /\ f.what \in SUBSET Writes
                                         /\ f = Response(f.call, f.what)
           /\ f.kind = "error" => f.call \in Calls
           /\ f.kind \in {"turnStarted", "turnCompleted"} => f.turn \in TurnCalls
           /\ f.kind \in {"response", "error", "turnStarted", "turnCompleted", "graph", "failure"}
<1>1. \A c \in Calls, what \in SUBSET Writes :
           /\ Response(c, what) \in Frames /\ Response(c, what).kind = "response"
           /\ Response(c, what).call = c /\ Response(c, what).what = what
    BY DEF Frames, Response
<1>2. \A c \in Calls : Refusal(c) \in Frames /\ Refusal(c).kind = "error" /\ Refusal(c).call = c
    BY DEF Frames, Refusal
<1>3. ASSUME NEW f \in Frames
      PROVE  /\ f.kind = "response" => f.call \in Calls /\ f.what \in SUBSET Writes
                                           /\ f = Response(f.call, f.what)
             /\ f.kind = "error" => f.call \in Calls
             /\ f.kind \in {"turnStarted", "turnCompleted"} => f.turn \in TurnCalls
             /\ f.kind \in {"response", "error", "turnStarted", "turnCompleted", "graph", "failure"}
    <2>1. CASE f \in {Response(c, what) : c \in Calls, what \in SUBSET Writes}
        <3>1. PICK c \in Calls, what \in SUBSET Writes : f = Response(c, what)
            BY <2>1
        <3>2. f.kind = "response" /\ f.call = c /\ f.what = what
            BY <1>1, <3>1
        <3> QED
            BY <3>1, <3>2
    <2>2. CASE f \in {Refusal(c) : c \in Calls}
        BY <1>2, <2>2
    <2>3. CASE f \in [kind : {"turnStarted", "turnCompleted"}, turn : TurnCalls]
        BY <2>3
    <2>4. CASE f \in {[kind |-> "graph"]} \cup {[kind |-> "failure"]}
        BY <2>4
    <2> QED
        BY <2>1, <2>2, <2>3, <2>4 DEF Frames
<1> QED
    BY <1>1, <1>2, <1>3

LEMMA TurnFramesShape ==
    ASSUME NEW t \in TurnCalls
    PROVE  /\ Len(TurnFrames(t)) \in {2, 3}
           /\ \A i \in 1..Len(TurnFrames(t)) :
                  /\ TurnFrames(t)[i] \in Frames
                  /\ TurnFrames(t)[i] =
                         IF i = 1 THEN [kind |-> "turnStarted", turn |-> t]
                         ELSE IF i = Len(TurnFrames(t)) THEN [kind |-> "turnCompleted", turn |-> t]
                         ELSE [kind |-> "graph"]
<1> DEFINE a == <<[kind |-> "turnStarted", turn |-> t]>>
           b == IF t \in WithGraph THEN <<[kind |-> "graph"]>> ELSE <<>>
           c == <<[kind |-> "turnCompleted", turn |-> t]>>
<1>1. /\ a \in Seq(Frames) /\ Len(a) = 1 /\ a[1] = [kind |-> "turnStarted", turn |-> t]
      /\ c \in Seq(Frames) /\ Len(c) = 1 /\ c[1] = [kind |-> "turnCompleted", turn |-> t]
    BY DEF Frames
<1>2. /\ b \in Seq(Frames) /\ Len(b) \in {0, 1}
      /\ \A i \in 1..Len(b) : b[i] = [kind |-> "graph"]
    <2>1. [kind |-> "graph"] \in Frames
        BY DEF Frames
    <2> QED
        BY <2>1
<1> HIDE DEF a, b, c
<1> DEFINE ab == a \o b
<1>3. /\ ab \in Seq(Frames) /\ Len(ab) = Len(a) + Len(b)
      /\ \A i \in 1..(Len(a) + Len(b)) : ab[i] = IF i <= Len(a) THEN a[i] ELSE b[i - Len(a)]
    BY <1>1, <1>2, ConcatProperties
<1> HIDE DEF ab
<1> DEFINE abc == ab \o c
<1>4. /\ abc \in Seq(Frames) /\ Len(abc) = Len(ab) + Len(c)
      /\ \A i \in 1..(Len(ab) + Len(c)) : abc[i] = IF i <= Len(ab) THEN ab[i] ELSE c[i - Len(ab)]
    <2>1. ab \in Seq(Frames) /\ c \in Seq(Frames)
        BY <1>1, <1>3
    <2> QED
        BY ONLY <2>1, ConcatProperties
<1> HIDE DEF abc
<1>5. TurnFrames(t) = abc
    BY DEF TurnFrames, a, b, c, ab, abc
<1>6. Len(abc) \in {2, 3}
    BY <1>1, <1>2, <1>3, <1>4
<1>7. ASSUME NEW i \in 1..Len(abc)
      PROVE  /\ abc[i] \in Frames
             /\ abc[i] =
                    IF i = 1 THEN [kind |-> "turnStarted", turn |-> t]
                    ELSE IF i = Len(abc) THEN [kind |-> "turnCompleted", turn |-> t]
                    ELSE [kind |-> "graph"]
    <2>1. CASE i = 1
        BY <1>1, <1>2, <1>3, <1>4, <2>1
    <2>2. CASE i = Len(abc)
        BY <1>1, <1>2, <1>3, <1>4, <2>2
    <2>3. CASE i # 1 /\ i # Len(abc)
        BY <1>1, <1>2, <1>3, <1>4, <2>3
    <2> QED
        BY <2>1, <2>2, <2>3
<1> QED
    BY <1>5, <1>6, <1>7

LEMMA WireTypesAtTheStart == WireInit => WireTypes
<1> SUFFICES ASSUME WireInit PROVE WireTypes
    OBVIOUS
<1>1. PICK made \in Scenarios : call = [c \in Calls |-> IF c \in made THEN "idle" ELSE "unmade"]
    BY DEF WireInit
<1>2. call \in [Calls -> {"unmade", "idle", "writing", "waiting", "answered", "refused", "failed"}]
    BY <1>1
<1> QED
    BY <1>2 DEF WireInit, WireTypes, Streams, Unread

\* What is taken from the front, or short off at the back, was there before.
LEMMA Shorter ==
    ASSUME NEW S, NEW s \in Seq(S)
    PROVE  /\ s # <<>> => /\ Len(s) \in Nat \ {0} /\ Head(s) = s[1] /\ Head(s) \in S
                          /\ Tail(s) \in Seq(S) /\ Len(Tail(s)) = Len(s) - 1
                          /\ \A i \in 1..Len(Tail(s)) : Tail(s)[i] = s[i + 1]
           /\ \A n \in 0..Len(s) : /\ SubSeq(s, 1, n) \in Seq(S) /\ Len(SubSeq(s, 1, n)) = n
                                   /\ \A i \in 1..n : SubSeq(s, 1, n)[i] = s[i]
<1>1. ASSUME s # <<>>
      PROVE  /\ Len(s) \in Nat \ {0} /\ Head(s) = s[1] /\ Head(s) \in S
             /\ Tail(s) \in Seq(S) /\ Len(Tail(s)) = Len(s) - 1
             /\ \A i \in 1..Len(Tail(s)) : Tail(s)[i] = s[i + 1]
    BY <1>1, HeadTailProperties
<1>2. ASSUME NEW n \in 0..Len(s)
      PROVE  /\ SubSeq(s, 1, n) \in Seq(S) /\ Len(SubSeq(s, 1, n)) = n
             /\ \A i \in 1..n : SubSeq(s, 1, n)[i] = s[i]
    OBVIOUS
<1> QED
    BY <1>1, <1>2

LEMMA Longer ==
    ASSUME NEW S, NEW s \in Seq(S), NEW x \in S
    PROVE  /\ Append(s, x) \in Seq(S) /\ Len(Append(s, x)) = Len(s) + 1 /\ Len(s) \in Nat
           /\ Append(s, x)[Len(s) + 1] = x
           /\ \A i \in 1..Len(s) : Append(s, x)[i] = s[i]
BY AppendProperties, LenProperties

LEMMA BroadcastType ==
    ASSUME WireTypes, NEW note \in Frames
    PROVE  /\ Broadcast(note) \in [TurnCalls -> Streams]
           /\ \A t \in TurnCalls :
                  /\ Broadcast(note)[t].state = stream[t].state
                  /\ Broadcast(note)[t].known = stream[t].known
                  /\ Broadcast(note)[t].turn = stream[t].turn
                  /\ Broadcast(note)[t].answered = stream[t].answered
                  /\ stream[t].lagged => Broadcast(note)[t].lagged
                  /\ stream[t].state # "open" => Broadcast(note)[t] = stream[t]
                  /\ stream[t].state = "open" /\ ~Broadcast(note)[t].lagged =>
                         Broadcast(note)[t].queue = Append(stream[t].queue, note)
<1> DEFINE one(t) ==
        IF stream[t].state # "open" THEN stream[t]
        ELSE IF Len(stream[t].queue) < EventBuffer
        THEN [stream[t] EXCEPT !.queue = Append(@, note)]
        ELSE [stream[t] EXCEPT !.queue = Append(Tail(@), note), !.lagged = TRUE]
<1>1. ASSUME NEW t \in TurnCalls
      PROVE  /\ one(t) \in Streams
             /\ one(t).state = stream[t].state /\ one(t).known = stream[t].known
             /\ one(t).turn = stream[t].turn /\ one(t).answered = stream[t].answered
             /\ stream[t].lagged => one(t).lagged
             /\ stream[t].state # "open" => one(t) = stream[t]
             /\ stream[t].state = "open" /\ ~one(t).lagged =>
                    one(t).queue = Append(stream[t].queue, note)
    <2>0. stream[t] \in Streams /\ stream[t].queue \in Seq(Frames)
        BY DEF WireTypes, Streams
    <2>1. CASE stream[t].state # "open"
        BY <2>0, <2>1 DEF Streams
    <2>2. CASE stream[t].state = "open" /\ Len(stream[t].queue) < EventBuffer
        <3>1. one(t) = [stream[t] EXCEPT !.queue = Append(stream[t].queue, note)]
            BY <2>2
        <3>2. Append(stream[t].queue, note) \in Seq(Frames)
            BY <2>0
        <3> QED
            BY <2>0, <2>2, <3>1, <3>2 DEF Streams
    <2>3. CASE stream[t].state = "open" /\ ~(Len(stream[t].queue) < EventBuffer)
        <3>1. one(t) = [stream[t] EXCEPT !.queue = Append(Tail(stream[t].queue), note), !.lagged = TRUE]
            BY <2>3
        <3>2. stream[t].queue # <<>>
            BY <2>0, <2>3, WireAssumption
        <3>3. Append(Tail(stream[t].queue), note) \in Seq(Frames)
            BY <2>0, <3>2, Shorter, Longer
        <3> QED
            BY <2>0, <2>3, <3>1, <3>3 DEF Streams
    <2> QED
        BY <2>1, <2>2, <2>3
<1> HIDE DEF one
<1>2. Broadcast(note) = [t \in TurnCalls |-> one(t)]
    BY DEF Broadcast, one
<1> QED
    BY <1>1, <1>2

LEMMA StreamSteps ==
    ASSUME NEW r \in Streams, NEW q \in Seq(Frames), NEW u \in TurnCalls,
           NEW at \in {"unopened", "open", "ended", "left"}
    PROVE  /\ [r EXCEPT !.queue = q] \in Streams
           /\ [r EXCEPT !.answered = TRUE] \in Streams
           /\ [r EXCEPT !.state = at] \in Streams
           /\ [r EXCEPT !.state = at, !.queue = q] \in Streams
           /\ [r EXCEPT !.queue = q, !.known = TRUE, !.turn = u, !.state = at] \in Streams
<1>1. [r EXCEPT !.queue = q] \in Streams
    BY DEF Streams
<1>2. [r EXCEPT !.answered = TRUE] \in Streams
    BY DEF Streams
<1>3. [r EXCEPT !.state = at] \in Streams
    BY DEF Streams
<1>4. [r EXCEPT !.state = at, !.queue = q] \in Streams
    BY DEF Streams
<1>5. [r EXCEPT !.queue = q, !.known = TRUE, !.turn = u, !.state = at] \in Streams
    BY DEF Streams
<1> QED
    BY <1>1, <1>2, <1>3, <1>4, <1>5

LEMMA WireTypesStay == WireTypes /\ [WireNext]_wireVars => WireTypes'
<1> SUFFICES ASSUME WireTypes, [WireNext]_wireVars
             PROVE  WireTypes'
    OBVIOUS
<1> USE WireAssumption
<1>0. /\ TurnCalls \subseteq Calls /\ Writes \subseteq Calls
      /\ \A t \in TurnCalls : progress[t] \in 0..5
      /\ \A c \in Calls : answer[c] \in SUBSET Writes
    BY DEF Calls, WireTypes
<1>s. \A t \in TurnCalls : /\ stream[t] \in Streams /\ stream[t].queue \in Seq(Frames)
                       /\ shown[t] \in Seq(Frames)
    BY DEF WireTypes, Streams
<1>1. ASSUME NEW c \in Calls, Calling(c)
      PROVE  WireTypes'
    <2>1. Opened(c) \in [TurnCalls -> Streams]
        <3>1. CASE c \in TurnCalls
            <4>1. [stream[c] EXCEPT !.state = "open"] \in Streams
                BY <1>s, <3>1 DEF Streams
            <4>2. Opened(c) = [stream EXCEPT ![c] = [stream[c] EXCEPT !.state = "open"]]
                BY <3>1 DEF Opened
            <4> QED
                BY <3>1, <4>1, <4>2 DEF WireTypes
        <3>2. CASE c \notin TurnCalls
            BY <3>2 DEF Opened, WireTypes
        <3> QED
            BY <3>1, <3>2
    <2> QED
        BY <1>1, <2>1 DEF Calling, WireTypes, serverVars
<1>2. ASSUME NEW c \in Calls, Written(c)
      PROVE  WireTypes'
    <2>1. Append(stdin, c) \in Seq(Calls) /\ Append(sent, c) \in Seq(Calls)
        BY Longer DEF WireTypes
    <2> QED
        BY <1>2, <2>1 DEF Written, WireTypes, streamVars
<1>3. ASSUME NEW c \in Calls, WriteFails(c)
      PROVE  WireTypes'
    BY <1>3 DEF WriteFails, WireTypes, serverVars, streamVars
<1>4. CASE ReadsRequest
    <2> DEFINE c == Head(stdin)
    <2>1. c \in Calls /\ Tail(stdin) \in Seq(Calls)
        BY <1>4, Shorter DEF WireTypes, ReadsRequest
    <2>2. /\ Append(stdout, Refusal(c)) \in Seq(Frames)
          /\ Append(stdout, Response(c, memory)) \in Seq(Frames)
        BY <2>1, FrameFacts, Longer DEF WireTypes
    <2>3. c \in TurnCalls => [progress EXCEPT ![c] = Unread + 1] \in [TurnCalls -> 0..5]
        BY DEF WireTypes, Unread
    <2> HIDE DEF c
    <2>4. stdout' \in Seq(Frames) /\ progress' \in [TurnCalls -> 0..5] /\ memory' \in SUBSET Writes
        BY <1>4, <2>2, <2>3 DEF ReadsRequest, WireTypes, c
    <2>5. stdin' \in Seq(Calls)
        BY <1>4, <2>1 DEF ReadsRequest
    <2> QED
        BY <1>4, <2>4, <2>5 DEF ReadsRequest, WireTypes, clientVars, streamVars
<1>5. ASSUME NEW t \in TurnCalls, TurnSends(t)
      PROVE  WireTypes'
    <2>1. CASE progress[t] <= Len(TurnFrames(t))
        <3>0. progress[t] \in 1..Len(TurnFrames(t)) /\ Len(TurnFrames(t)) \in {2, 3}
            <4>1. progress[t] \in 1..5
                BY <1>0, <1>5 DEF TurnSends, Running, Unread
            <4>2. Len(TurnFrames(t)) \in {2, 3}
                BY TurnFramesShape
            <4> QED
                BY <2>1, <4>1, <4>2
        <3>1. TurnFrames(t)[progress[t]] \in Frames /\ progress[t] + 1 \in 0..5
            <4>1. \A i \in 1..Len(TurnFrames(t)) : TurnFrames(t)[i] \in Frames
                BY TurnFramesShape
            <4>2. TurnFrames(t)[progress[t]] \in Frames
                BY <3>0, <4>1
            <4>3. \A n \in {2, 3} : \A k \in 1..n : k + 1 \in 0..5
                OBVIOUS
            <4>4. progress[t] + 1 \in 0..5
                BY <3>0, <4>3
            <4> QED
                BY <4>2, <4>4
        <3>2. stdout' \in Seq(Frames)
            <4>1. stdout' = Append(stdout, TurnFrames(t)[progress[t]])
                BY <1>5, <2>1 DEF TurnSends
            <4> QED
                BY <3>1, <4>1, Longer DEF WireTypes
        <3>3. progress' = [progress EXCEPT ![t] = progress[t] + 1]
            BY <1>5, <2>1 DEF TurnSends
        <3> QED
            BY <1>5, <3>1, <3>2, <3>3 DEF TurnSends, WireTypes, clientVars, streamVars
    <2>2. CASE ~(progress[t] <= Len(TurnFrames(t)))
        <3>1. stdout' \in Seq(Frames)
            <4>1. stdout' = Append(stdout, Response(t, {}))
                BY <1>5, <2>2 DEF TurnSends
            <4>2. Response(t, {}) \in Frames
                BY <1>0, FrameFacts
            <4> QED
                BY <4>1, <4>2, Longer DEF WireTypes
        <3>2. progress' = [progress EXCEPT ![t] = Done]
            BY <1>5, <2>2 DEF TurnSends
        <3> QED
            BY <1>5, <3>1, <3>2 DEF TurnSends, WireTypes, clientVars, streamVars, Done
    <2> QED
        BY <2>1, <2>2
<1>6. ASSUME NEW t \in TurnCalls, TurnRefused(t)
      PROVE  WireTypes'
    <2>1. stdout' \in Seq(Frames)
        BY <1>0, <1>6, FrameFacts, Longer DEF TurnRefused, WireTypes
    <2> QED
        BY <1>6, <2>1 DEF TurnRefused, WireTypes, clientVars, streamVars, Done
<1>7. CASE Exits
    BY <1>7 DEF Exits, WireTypes, clientVars, streamVars
<1>8. CASE HangsUp
    BY <1>8 DEF HangsUp, WireTypes, clientVars, streamVars
<1>9. CASE Dies
    <2>1. PICK n \in 0..Len(stdout) : stdout' = SubSeq(stdout, 1, n)
        BY <1>9 DEF Dies
    <2>2. stdout' \in Seq(Frames)
        BY <2>1, Shorter DEF WireTypes
    <2>3. progress' \in [TurnCalls -> 0..5] /\ stdin' \in Seq(Calls)
        BY <1>9 DEF Dies, Unread, Done
    <2> QED
        BY <1>9, <2>2, <2>3 DEF Dies, WireTypes, clientVars, streamVars
<1>10. CASE Accept
    <2> DEFINE frame == Head(stdout)
    <2>1. frame \in Frames /\ Tail(stdout) \in Seq(Frames)
        BY <1>10, Shorter DEF Accept, WireTypes
    <2>2. Broadcast(frame) \in [TurnCalls -> Streams]
        BY <2>1, BroadcastType
    <2>3. frame.kind = "response" => frame.call \in Calls /\ frame.what \in SUBSET Writes
        BY <2>1, FrameFacts
    <2>4. frame.kind = "error" => frame.call \in Calls
        BY <2>1, FrameFacts
    <2> HIDE DEF frame
    <2>5. /\ stdout' \in Seq(Frames)
          /\ \/ stream' = stream
             \/ stream' = Broadcast(frame)
          /\ \/ UNCHANGED <<pending, call, answer>>
             \/ /\ frame.kind \in {"response", "error"}
                /\ pending' = pending \ {frame.call}
                /\ call' = [call EXCEPT ![frame.call] = Answered(frame)]
                /\ answer' = [answer EXCEPT ![frame.call] =
                                 IF frame.kind = "error" THEN @ ELSE frame.what]
        BY <1>10, <2>1 DEF Accept, frame
    <2>6. stream' \in [TurnCalls -> Streams]
        BY <2>2, <2>5 DEF WireTypes
    <2>7. /\ pending' \subseteq Calls
          /\ call' \in [Calls -> {"unmade", "idle", "writing", "waiting", "answered", "refused", "failed"}]
        BY <2>5 DEF WireTypes, Answered
    <2>8. answer' \in [Calls -> SUBSET Writes]
        <3>1. CASE UNCHANGED answer
            BY <3>1 DEF WireTypes
        <3>2. CASE frame.kind = "response" /\ answer' = [answer EXCEPT ![frame.call] = frame.what]
            BY <2>3, <3>2 DEF WireTypes
        <3>3. CASE frame.kind = "error" /\ answer' = [answer EXCEPT ![frame.call] = @]
            BY <1>0, <2>4, <3>3 DEF WireTypes
        <3> QED
            BY <2>5, <3>1, <3>2, <3>3
    <2> QED
        BY <1>10, <2>5, <2>6, <2>7, <2>8 DEF Accept, WireTypes
<1>11. CASE ReadLoopEnds \/ ReadFails
    BY <1>11 DEF ReadLoopEnds, ReadFails, AllTold, WireTypes, serverVars, streamVars
<1>12. ASSUME NEW t \in TurnCalls, ForwardsEvent(t)
      PROVE  WireTypes'
    <2> DEFINE note == Head(stream[t].queue)
    <2>1. note \in Frames /\ Tail(stream[t].queue) \in Seq(Frames)
        BY <1>s, <1>12, Shorter DEF ForwardsEvent
    <2>2. Append(shown[t], note) \in Seq(Frames)
        BY <1>s, <2>1, Longer
    <2>3. note.kind \in {"turnStarted", "turnCompleted"} => note.turn \in TurnCalls
        BY <2>1, FrameFacts
    <2> HIDE DEF note
    <2>4. CASE ~Belongs(note, t)
        <3>1. [stream[t] EXCEPT !.queue = Tail(stream[t].queue)] \in Streams
            BY <1>s, <2>1, StreamSteps
        <3>2. stream' = [stream EXCEPT ![t] = [stream[t] EXCEPT !.queue = Tail(stream[t].queue)]]
            BY <1>12, <2>4 DEF ForwardsEvent, note, WireTypes
        <3>3. UNCHANGED <<serverVars, clientVars, sent, shown>>
            BY <1>12, <2>4 DEF ForwardsEvent, note
        <3> QED
            BY <3>1, <3>2, <3>3 DEF WireTypes, serverVars, clientVars
    <2>5. CASE Belongs(note, t)
        <3> DEFINE new == [stream[t] EXCEPT !.queue = Tail(stream[t].queue), !.known = TRUE,
                              !.turn = IF note.kind = "graph" THEN stream[t].turn ELSE note.turn,
                              !.state = IF note.kind = "turnCompleted" THEN "ended" ELSE stream[t].state]
        <3>0. stream[t].turn \in TurnCalls /\ stream[t].state \in {"unopened", "open", "ended", "left"}
            BY <1>s DEF Streams
        <3>1. note.kind = "graph" \/ note.turn \in TurnCalls
            <4>1. note.kind = "turnStarted" => note.turn \in TurnCalls
                BY <2>3
            <4>2. note.turn = stream[t].turn => note.turn \in TurnCalls
                BY <3>0
            <4> QED
                BY <2>5, <4>1, <4>2 DEF Belongs
        <3>2. new \in Streams
            BY <1>s, <2>1, <3>0, <3>1, StreamSteps
        <3>3. stream' = [stream EXCEPT ![t] = new]
            BY <1>12, <2>5 DEF ForwardsEvent, note, WireTypes
        <3>4. /\ UNCHANGED <<serverVars, clientVars, sent>>
              /\ shown' = [shown EXCEPT ![t] = Append(shown[t], note)]
            BY <1>12, <2>5 DEF ForwardsEvent, Sends, note
        <3> HIDE DEF new
        <3> QED
            BY <2>2, <3>2, <3>3, <3>4 DEF WireTypes, serverVars, clientVars
    <2> QED
        BY <2>4, <2>5
<1>13. ASSUME NEW t \in TurnCalls, ForwardsAnswer(t)
      PROVE  WireTypes'
    <2>1. /\ [stream[t] EXCEPT !.answered = TRUE] \in Streams
          /\ [stream[t] EXCEPT !.state = "ended"] \in Streams
        BY <1>s, StreamSteps
    <2>2. Append(shown[t], [kind |-> "failure"]) \in Seq(Frames)
        <3>1. [kind |-> "failure"] \in Frames
            BY DEF Frames
        <3> QED
            BY <1>s, <3>1, Longer
    <2>3. \/ /\ stream' = [stream EXCEPT ![t] = [stream[t] EXCEPT !.answered = TRUE]]
             /\ UNCHANGED shown
          \/ /\ stream' = [stream EXCEPT ![t] = [stream[t] EXCEPT !.state = "ended"]]
             /\ shown' = [shown EXCEPT ![t] = Append(shown[t], [kind |-> "failure"])]
        BY <1>13 DEF ForwardsAnswer, Sends, WireTypes
    <2>4. stream' \in [TurnCalls -> Streams] /\ shown' \in [TurnCalls -> Seq(Frames)]
        BY <2>1, <2>2, <2>3 DEF WireTypes
    <2> QED
        BY <1>13, <2>4 DEF ForwardsAnswer, WireTypes, serverVars, clientVars
<1>14. ASSUME NEW t \in TurnCalls, BrowserLeaves(t)
      PROVE  WireTypes'
    <2>1. [stream[t] EXCEPT !.state = "left", !.queue = <<>>] \in Streams
        <3>1. <<>> \in Seq(Frames)
            OBVIOUS
        <3> QED
            BY <1>s, <3>1, StreamSteps
    <2>2. stream' = [stream EXCEPT ![t] = [stream[t] EXCEPT !.state = "left", !.queue = <<>>]]
        BY <1>14 DEF BrowserLeaves, WireTypes
    <2> QED
        BY <1>14, <2>1, <2>2 DEF BrowserLeaves, WireTypes, serverVars, clientVars
<1>15. ASSUME NEW t \in TurnCalls, BrowserReads(t)
       PROVE  WireTypes'
    BY <1>15 DEF BrowserReads, WireTypes, serverVars, clientVars
<1>16. CASE UNCHANGED wireVars
    BY <1>16 DEF wireVars, serverVars, clientVars, streamVars, WireTypes
<1> QED
    BY <1>1, <1>2, <1>3, <1>4, <1>5, <1>6, <1>7, <1>8, <1>9, <1>10, <1>11, <1>12, <1>13, <1>14, <1>15,
       <1>16
       DEF WireNext, ServerNext, ClientNext, World

LEMMA WireTypesHold == WireSpec => []WireTypes
<1>1. WireInit => WireTypes
    BY WireTypesAtTheStart
<1>2. WireTypes /\ [WireNext]_wireVars => WireTypes'
    BY WireTypesStay
<1> QED
    BY <1>1, <1>2, PTL DEF WireSpec

-----------------------------------------------------------------------------
(* Calls and answers                                                       *)

Answers(f, c) == f.kind \in {"response", "error"} /\ f.call = c
AnswerIn(s, c) == \E i \in 1..Len(s) : Answers(s[i], c)

\* While the client reads, and unless the server was killed, a call that
\* reached it is still to be read, or a running turn, or its answer is on the
\* way or there.  Whoever is not in the table any more was told.
Accounted ==
    /\ \A c \in Calls : call[c] \in {"unmade", "idle", "writing"} => c \notin Range(sent)
    /\ \A c \in pending : call[c] \in {"writing", "waiting"}
    /\ \A c \in Calls : call[c] = "waiting" => c \in pending
    /\ reading => \A c \in Calls : call[c] = "writing" => c \in pending
    /\ (deaf => ~reading) /\ (~reading => deaf \/ ~alive)
    /\ ~killed /\ ~deaf => \A c \in Calls : c \in Range(sent) =>
           \/ c \in Range(stdin)
           \/ c \in TurnCalls /\ Running(c)
           \/ AnswerIn(stdout, c)
           \/ call[c] \in {"answered", "refused"}
    /\ ~alive /\ ~killed => stdin = <<>> /\ \A t \in TurnCalls : ~Running(t)
    /\ AnsweredUnlessKilled

LEMMA RangeSteps ==
    ASSUME NEW S, NEW s \in Seq(S)
    PROVE  /\ \A x \in S : Range(Append(s, x)) = Range(s) \cup {x}
           /\ s # <<>> => Range(s) = Range(Tail(s)) \cup {Head(s)}
<1>0. Range(s) = {s[i] : i \in 1..Len(s)} /\ Len(s) \in Nat
    BY DEF Range
<1>1. ASSUME NEW x \in S
      PROVE  Range(Append(s, x)) = Range(s) \cup {x}
    <2> DEFINE long == Append(s, x)
    <2>1. /\ long \in Seq(S) /\ Len(long) = Len(s) + 1 /\ long[Len(s) + 1] = x
          /\ \A i \in 1..Len(s) : long[i] = s[i]
        BY Longer
    <2> HIDE DEF long
    <2>2. Range(long) = {long[i] : i \in 1..Len(long)}
        BY <2>1 DEF Range
    <2>3. \A i : i \in 1..Len(long) <=> i \in 1..Len(s) \/ i = Len(s) + 1
        BY <1>0, <2>1
    <2>4. Range(long) = Range(s) \cup {x}
        BY <1>0, <2>1, <2>2, <2>3
    <2> QED
        BY <2>4 DEF long
<1>2. ASSUME s # <<>>
      PROVE  Range(s) = Range(Tail(s)) \cup {Head(s)}
    <2> DEFINE rest == Tail(s)
    <2>1. /\ rest \in Seq(S) /\ Len(rest) = Len(s) - 1 /\ Head(s) = s[1] /\ Len(s) \in Nat \ {0}
          /\ \A i \in 1..Len(rest) : rest[i] = s[i + 1]
        BY <1>2, Shorter
    <2> HIDE DEF rest
    <2>2. Range(rest) = {rest[i] : i \in 1..Len(rest)}
        BY <2>1 DEF Range
    <2>3. \A i \in 1..Len(s) : i = 1 \/ (i - 1 \in 1..Len(rest) /\ rest[i - 1] = s[i])
        BY <2>1
    <2>4. \A i \in 1..Len(rest) : i + 1 \in 1..Len(s) /\ rest[i] = s[i + 1]
        BY <2>1
    <2>5. 1 \in 1..Len(s)
        BY <2>1
    <2>6. \A m : m \in Range(s) => m \in Range(rest) \/ m = Head(s)
        BY <1>0, <2>1, <2>2, <2>3
    <2>7. \A m : m \in Range(rest) \/ m = Head(s) => m \in Range(s)
        BY <1>0, <2>1, <2>2, <2>4, <2>5
    <2>8. Range(s) = Range(rest) \cup {Head(s)}
        BY <2>6, <2>7
    <2> QED
        BY <2>8 DEF rest
<1> QED
    BY <1>1, <1>2

LEMMA AnswerSteps ==
    ASSUME NEW s \in Seq(Frames), NEW c
    PROVE  /\ \A f \in Frames : AnswerIn(Append(s, f), c) <=> AnswerIn(s, c) \/ Answers(f, c)
           /\ s # <<>> => (AnswerIn(s, c) <=> AnswerIn(Tail(s), c) \/ Answers(Head(s), c))
<1>1. ASSUME NEW f \in Frames
      PROVE  AnswerIn(Append(s, f), c) <=> AnswerIn(s, c) \/ Answers(f, c)
    <2> DEFINE long == Append(s, f)
    <2>1. /\ Len(long) = Len(s) + 1 /\ long[Len(s) + 1] = f /\ Len(s) \in Nat
          /\ \A i \in 1..Len(s) : long[i] = s[i]
        BY Longer
    <2> HIDE DEF long
    <2>2. \A i : i \in 1..Len(long) <=> i \in 1..Len(s) \/ i = Len(s) + 1
        BY <2>1
    <2>3. AnswerIn(long, c) <=> AnswerIn(s, c) \/ Answers(f, c)
        BY <2>1, <2>2 DEF AnswerIn
    <2> QED
        BY <2>3 DEF long
<1>2. ASSUME s # <<>>
      PROVE  AnswerIn(s, c) <=> AnswerIn(Tail(s), c) \/ Answers(Head(s), c)
    <2> DEFINE rest == Tail(s)
    <2>1. /\ Len(rest) = Len(s) - 1 /\ Head(s) = s[1] /\ Len(s) \in Nat \ {0}
          /\ \A i \in 1..Len(rest) : rest[i] = s[i + 1]
        BY <1>2, Shorter
    <2> HIDE DEF rest
    <2>2. \A i \in 1..Len(s) : i = 1 \/ (i - 1 \in 1..Len(rest) /\ rest[i - 1] = s[i])
        BY <2>1
    <2>3. \A i \in 1..Len(rest) : i + 1 \in 1..Len(s) /\ rest[i] = s[i + 1]
        BY <2>1
    <2>4. 1 \in 1..Len(s)
        BY <2>1
    <2>5. AnswerIn(s, c) => AnswerIn(rest, c) \/ Answers(Head(s), c)
        BY <2>1, <2>2 DEF AnswerIn
    <2>6. AnswerIn(rest, c) \/ Answers(Head(s), c) => AnswerIn(s, c)
        BY <2>1, <2>3, <2>4 DEF AnswerIn
    <2>7. AnswerIn(s, c) <=> AnswerIn(rest, c) \/ Answers(Head(s), c)
        BY <2>5, <2>6
    <2> QED
        BY <2>7 DEF rest
<1> QED
    BY <1>1, <1>2

LEMMA AccountedAtTheStart == WireInit => Accounted
<1> SUFFICES ASSUME WireInit PROVE Accounted
    OBVIOUS
<1>1. PICK made \in Scenarios : call = [c \in Calls |-> IF c \in made THEN "idle" ELSE "unmade"]
    BY DEF WireInit
<1>2. Range(sent) = {}
    BY DEF WireInit, Range
<1> QED
    BY <1>1, <1>2 DEF WireInit, Accounted, AnsweredUnlessKilled

LEMMA AccountedStays == WireTypes /\ Accounted /\ [WireNext]_wireVars => Accounted'
<1> SUFFICES ASSUME WireTypes, Accounted, [WireNext]_wireVars
             PROVE  Accounted'
    OBVIOUS
<1> USE WireAssumption
<1>0. /\ TurnCalls \subseteq Calls
      /\ stdin \in Seq(Calls) /\ sent \in Seq(Calls) /\ stdout \in Seq(Frames)
      /\ call \in [Calls -> {"unmade", "idle", "writing", "waiting", "answered", "refused", "failed"}]
      /\ progress \in [TurnCalls -> 0..5]
      /\ pending \subseteq Calls
    BY DEF Calls, WireTypes
<1>1. ASSUME NEW c \in Calls, Calling(c)
      PROVE  Accounted'
    BY <1>0, <1>1 DEF Calling, Accounted, AnsweredUnlessKilled, serverVars, Running, AnswerIn
<1>2. ASSUME NEW c \in Calls, Written(c)
      PROVE  Accounted'
    <2>1. Range(stdin') = Range(stdin) \cup {c} /\ Range(sent') = Range(sent) \cup {c}
        BY <1>0, <1>2, RangeSteps DEF Written
    <2> QED
        BY <1>0, <1>2, <2>1 DEF Written, Accounted, AnsweredUnlessKilled, Running, AnswerIn
<1>3. ASSUME NEW c \in Calls, WriteFails(c)
      PROVE  Accounted'
    BY <1>0, <1>3 DEF WriteFails, Accounted, AnsweredUnlessKilled, serverVars, Running, AnswerIn
<1>4. CASE ReadsRequest
    <2>0. PICK c \in Calls : c = Head(stdin)
        BY <1>0, <1>4, Shorter DEF ReadsRequest
    <2>1. Range(stdin) = Range(stdin') \cup {c}
        BY <1>0, <1>4, <2>0, RangeSteps DEF ReadsRequest
    <2>2. UNCHANGED <<call, pending, sent, killed, deaf, reading, alive>> /\ alive
        BY <1>4 DEF ReadsRequest, clientVars
    <2>3. ASSUME c \in TurnCalls
          PROVE  /\ Running(c)'
                 /\ \A t \in TurnCalls : Running(t) => Running(t)'
                 /\ stdout' = stdout
        <3>1. progress' = [progress EXCEPT ![c] = Unread + 1] /\ stdout' = stdout
            BY <1>4, <2>0, <2>3 DEF ReadsRequest
        <3>2. \A t \in TurnCalls : progress'[t] = IF t = c THEN 1 ELSE progress[t]
            BY <1>0, <3>1 DEF Unread
        <3> QED
            BY <2>3, <3>1, <3>2 DEF Running, Unread, Done
    <2>4. ASSUME c \notin TurnCalls
          PROVE  /\ AnswerIn(stdout', c)
                 /\ \A d \in Calls : AnswerIn(stdout, d) => AnswerIn(stdout', d)
                 /\ progress' = progress
        <3>1. PICK f \in Frames : stdout' = Append(stdout, f) /\ Answers(f, c)
            <4>1. memory \in SUBSET Writes
                BY DEF WireTypes
            <4>2. /\ Refusal(c) \in Frames /\ Answers(Refusal(c), c)
                  /\ Response(c, memory) \in Frames /\ Answers(Response(c, memory), c)
                BY <4>1, FrameFacts DEF Answers
            <4>3. stdout' \in {Append(stdout, Refusal(c)), Append(stdout, Response(c, memory))}
                BY <1>4, <2>0, <2>4 DEF ReadsRequest
            <4> QED
                BY <4>2, <4>3
        <3>2. \A d : AnswerIn(stdout', d) <=> AnswerIn(stdout, d) \/ Answers(f, d)
            BY <1>0, <3>1, AnswerSteps
        <3> QED
            BY <1>4, <2>0, <2>4, <3>1, <3>2 DEF ReadsRequest
    <2>5. ASSUME ~killed, ~deaf, NEW d \in Calls, d \in Range(sent)
          PROVE  \/ d \in Range(stdin')
                 \/ d \in TurnCalls /\ Running(d)'
                 \/ AnswerIn(stdout', d)
                 \/ call[d] \in {"answered", "refused"}
        <3>1. \/ d \in Range(stdin') \/ d = c
              \/ d \in TurnCalls /\ Running(d)
              \/ AnswerIn(stdout, d)
              \/ call[d] \in {"answered", "refused"}
            BY <2>1, <2>5 DEF Accounted
        <3>2. d \in TurnCalls /\ Running(d) => Running(d)'
            BY <2>3, <2>4 DEF Running
        <3>3. AnswerIn(stdout, d) => AnswerIn(stdout', d)
            BY <2>3, <2>4
        <3>4. d = c => (d \in TurnCalls /\ Running(d)') \/ AnswerIn(stdout', d)
            BY <2>3, <2>4 DEF Running
        <3> QED
            BY <3>1, <3>2, <3>3, <3>4
    <2> QED
        BY <2>2, <2>5 DEF Accounted, AnsweredUnlessKilled
<1>5. ASSUME NEW t \in TurnCalls, NEW f \in Frames, UNCHANGED <<alive, stdin, call, pending, sent, killed, deaf, reading>>,
             alive, stdout' = Append(stdout, f),
             \A u \in TurnCalls : Running(u) => Running(u)' \/ Answers(f, u)
      PROVE  Accounted'
    <2>1. \A d : AnswerIn(stdout', d) <=> AnswerIn(stdout, d) \/ Answers(f, d)
        BY <1>0, <1>5, AnswerSteps
    <2> QED
        BY <1>5, <2>1 DEF Accounted, AnsweredUnlessKilled
<1>6. ASSUME NEW t \in TurnCalls, TurnSends(t)
      PROVE  Accounted'
    <2>0. UNCHANGED <<alive, stdin, call, pending, sent, killed, deaf, reading>> /\ alive
        BY <1>6 DEF TurnSends, clientVars
    <2>1. CASE progress[t] <= Len(TurnFrames(t))
        <3>1. progress[t] \in 1..Len(TurnFrames(t)) /\ Len(TurnFrames(t)) \in {2, 3}
            <4>1. progress[t] \in 1..5
                BY <1>0, <1>6 DEF TurnSends, Running, Unread
            <4>2. Len(TurnFrames(t)) \in {2, 3}
                BY TurnFramesShape
            <4> QED
                BY <2>1, <4>1, <4>2
        <3>2. TurnFrames(t)[progress[t]] \in Frames
            BY <3>1, TurnFramesShape
        <3>3. \A n \in {2, 3} : \A k \in 1..n : k + 1 \in 2..4
            OBVIOUS
        <3>4. progress' = [progress EXCEPT ![t] = progress[t] + 1] /\ progress[t] + 1 \in 2..4
            BY <1>6, <2>1, <3>1, <3>3 DEF TurnSends
        <3>5. \A u \in TurnCalls : Running(u) => Running(u)'
            BY <1>0, <3>4 DEF Running, Unread, Done
        <3>6. stdout' = Append(stdout, TurnFrames(t)[progress[t]])
            BY <1>6, <2>1 DEF TurnSends
        <3> QED
            BY <1>5, <2>0, <3>2, <3>5, <3>6
    <2>2. CASE ~(progress[t] <= Len(TurnFrames(t)))
        <3>1. Response(t, {}) \in Frames /\ Answers(Response(t, {}), t)
            BY <1>0, FrameFacts DEF Answers
        <3>2. stdout' = Append(stdout, Response(t, {})) /\ progress' = [progress EXCEPT ![t] = Done]
            BY <1>6, <2>2 DEF TurnSends
        <3>3. \A u \in TurnCalls : Running(u) => Running(u)' \/ Answers(Response(t, {}), u)
            BY <1>0, <3>1, <3>2 DEF Running
        <3> QED
            BY <1>5, <2>0, <3>1, <3>2, <3>3
    <2> QED
        BY <2>1, <2>2
<1>7. ASSUME NEW t \in TurnCalls, TurnRefused(t)
      PROVE  Accounted'
    <2>1. Refusal(t) \in Frames /\ Answers(Refusal(t), t)
        BY <1>0, FrameFacts DEF Answers
    <2>2. /\ UNCHANGED <<alive, stdin, call, pending, sent, killed, deaf, reading>> /\ alive
          /\ stdout' = Append(stdout, Refusal(t)) /\ progress' = [progress EXCEPT ![t] = Done]
        BY <1>7 DEF TurnRefused, clientVars
    <2>3. \A u \in TurnCalls : Running(u) => Running(u)' \/ Answers(Refusal(t), u)
        BY <1>0, <2>1, <2>2 DEF Running
    <2> QED
        BY <1>5, <2>1, <2>2, <2>3
<1>8. CASE Exits
    BY <1>8 DEF Exits, Accounted, AnsweredUnlessKilled, clientVars, Running, AnswerIn
<1>9. CASE HangsUp
    BY <1>9 DEF HangsUp, Accounted, AnsweredUnlessKilled, clientVars, Running, AnswerIn
<1>10. CASE Dies
    BY <1>10 DEF Dies, Accounted, AnsweredUnlessKilled, clientVars
<1>11. CASE Accept
    <2> DEFINE frame == Head(stdout)
    <2>1. frame \in Frames /\ \A d : AnswerIn(stdout, d) <=> AnswerIn(stdout', d) \/ Answers(frame, d)
        BY <1>0, <1>11, AnswerSteps, Shorter DEF Accept
    <2>2. UNCHANGED <<alive, stdin, progress, sent, killed, deaf, reading>>
        BY <1>11 DEF Accept
    <2>3. frame.kind \in {"response", "error"} => frame.call \in Calls
        BY <2>1, FrameFacts
    <2> HIDE DEF frame
    <2>4. CASE UNCHANGED <<pending, call>> /\ ~(frame.kind \in {"response", "error"} /\ frame.call \in pending)
        <3>1. ASSUME ~killed, ~deaf, NEW d \in Calls, d \in Range(sent), Answers(frame, d)
              PROVE  call[d] \in {"answered", "refused"}
            <4>1. call[d] \notin {"unmade", "idle", "writing"} /\ call[d] # "failed" /\ d \notin pending
                BY <2>4, <3>1 DEF Accounted, AnsweredUnlessKilled, Answers
            <4>2. call[d] # "waiting"
                BY <4>1 DEF Accounted
            <4> QED
                BY <1>0, <4>1, <4>2
        <3>2. \A u \in TurnCalls : Running(u)' <=> Running(u)
            BY <2>2 DEF Running
        <3> QED
            BY <2>1, <2>2, <2>4, <3>1, <3>2 DEF Accounted, AnsweredUnlessKilled
    <2>5. CASE /\ frame.kind \in {"response", "error"} /\ frame.call \in pending
               /\ pending' = pending \ {frame.call}
               /\ call' = [call EXCEPT ![frame.call] = Answered(frame)]
        <3>1. Answered(frame) \in {"answered", "refused"} /\ \A d : Answers(frame, d) <=> d = frame.call
            BY <2>5 DEF Answered, Answers
        <3>2. \A d \in Calls : call'[d] = IF d = frame.call THEN Answered(frame) ELSE call[d]
            BY <1>0, <2>5
        <3>3. \A u \in TurnCalls : Running(u)' <=> Running(u)
            BY <2>2 DEF Running
        <3> QED
            BY <2>1, <2>2, <2>5, <3>1, <3>2, <3>3 DEF Accounted, AnsweredUnlessKilled
    <2> QED
        BY <1>11, <2>4, <2>5 DEF Accept, frame
<1>12. CASE ReadLoopEnds
    <2>0. reading /\ ~deaf
        BY <1>12 DEF ReadLoopEnds, Accounted
    <2>1. \A d : ~AnswerIn(stdout, d)
        BY <1>12 DEF ReadLoopEnds, AnswerIn
    <2>2. ~alive /\ UNCHANGED <<alive, stdin, progress, stdout, sent, killed, deaf>>
        BY <1>12 DEF ReadLoopEnds, serverVars
    <2>3. ~killed => Range(stdin) = {} /\ \A u \in TurnCalls : ~Running(u)
        BY <2>2 DEF Accounted, Range
    <2>4. \A d \in Calls : /\ d \in Range(sent) /\ ~killed => call[d] \in {"answered", "refused"}
                           /\ call'[d] = IF call[d] = "waiting" THEN "failed" ELSE call[d]
        BY <1>0, <1>12, <2>0, <2>1, <2>3 DEF Accounted, ReadLoopEnds, AllTold
    <2>5. pending' = {} /\ reading' = FALSE /\ deaf' = deaf
        BY <1>12 DEF ReadLoopEnds, AllTold
    <2>6. \A u \in TurnCalls : Running(u)' <=> Running(u)
        BY <2>2 DEF Running
    <2> QED
        BY <1>0, <2>2, <2>4, <2>5, <2>6 DEF Accounted, AnsweredUnlessKilled
<1>r. CASE ReadFails
    <2>1. /\ pending' = {} /\ reading' = FALSE /\ deaf' = TRUE
          /\ UNCHANGED <<alive, stdin, progress, stdout, sent, killed>>
          /\ \A d \in Calls : call'[d] = IF call[d] = "waiting" THEN "failed" ELSE call[d]
        BY <1>0, <1>r DEF ReadFails, AllTold, serverVars
    <2>2. \A u \in TurnCalls : Running(u)' <=> Running(u)
        BY <2>1 DEF Running
    <2> QED
        BY <1>0, <2>1, <2>2 DEF Accounted, AnsweredUnlessKilled
<1>13. ASSUME NEW t \in TurnCalls,
              ForwardsEvent(t) \/ ForwardsAnswer(t) \/ BrowserReads(t) \/ BrowserLeaves(t)
       PROVE  Accounted'
    BY <1>13 DEF ForwardsEvent, ForwardsAnswer, BrowserReads, BrowserLeaves, serverVars, clientVars, Accounted,
                 AnsweredUnlessKilled, Running, AnswerIn
<1>14. CASE UNCHANGED wireVars
    BY <1>14 DEF wireVars, serverVars, clientVars, Accounted, AnsweredUnlessKilled, Running, AnswerIn
<1> QED
    BY <1>1, <1>2, <1>3, <1>4, <1>6, <1>7, <1>8, <1>9, <1>10, <1>11, <1>12, <1>r, <1>13, <1>14
       DEF WireNext, ServerNext, ClientNext, World

\* Every request that reached the server is answered, also after its input
\* has ended, unless it was killed or nobody could read what it wrote
\* (run_stdio, handle, read_loop).
THEOREM RequestsAreAnswered == WireSpec => []AnsweredUnlessKilled
<1>1. WireInit => Accounted
    BY AccountedAtTheStart
<1>2. WireTypes /\ Accounted /\ [WireNext]_wireVars => Accounted'
    BY AccountedStays
<1>3. Accounted => AnsweredUnlessKilled
    BY DEF Accounted
<1> QED
    BY <1>1, <1>2, <1>3, WireTypesHold, PTL DEF WireSpec

-----------------------------------------------------------------------------
(* The order of effects                                                    *)

\* The requests still to be read are the last that were sent.
ReadSoFar == Len(sent) - Len(stdin)
Served(c) == \E k \in 1..ReadSoFar : sent[k] = c

InOrder ==
    /\ \A i, j \in 1..Len(sent) : sent[i] = sent[j] => i = j
    /\ ReadSoFar >= 0
    /\ \A i \in 1..Len(stdin) : stdin[i] = sent[ReadSoFar + i]

\* What c was told, or is about to be told.
Told(c, what) ==
    \/ \E i \in 1..Len(stdout) : stdout[i] = Response(c, what)
    \/ call[c] = "answered" /\ answer[c] = what

Remembered ==
    /\ \A x \in memory : Served(x)
    /\ \A c \in Writes \cup Reads : \A what \in SUBSET Writes : Told(c, what) =>
           /\ Served(c)
           /\ c \in Writes => c \in memory
           /\ c \in Reads =>
                  /\ what \subseteq Before(c)
                  /\ \A x \in Writes \cap Before(c) :
                         (\E other \in SUBSET Writes : Told(x, other)) => x \in what

LEMMA BeforeMeans ==
    ASSUME sent \in Seq(Calls)
    PROVE  \A x, c : x \in Before(c) <=>
               \E i, k \in 1..Len(sent) : i < k /\ sent[i] = x /\ sent[k] = c
<1>1. Len(sent) \in Nat
    BY LenProperties
<1>2. \A i, k : i \in 1..Len(sent) /\ k \in i + 1..Len(sent) <=>
                   i \in 1..Len(sent) /\ k \in 1..Len(sent) /\ i < k
    BY <1>1
<1> QED
    BY <1>2 DEF Before

\* What was read stays read, and what went before it stays before it.
LEMMA OrderAtTheStart == WireInit => InOrder
BY DEF WireInit, InOrder, ReadSoFar

LEMMA OrderStays ==
    WireTypes /\ Accounted /\ InOrder /\ [WireNext]_wireVars =>
        /\ InOrder'
        /\ \A c \in Calls : Served(c) => Served(c)' /\ Before(c)' = Before(c)
<1> SUFFICES ASSUME WireTypes, Accounted, InOrder, [WireNext]_wireVars
             PROVE  InOrder' /\ \A c \in Calls : Served(c) => Served(c)' /\ Before(c)' = Before(c)
    OBVIOUS
<1>0. /\ stdin \in Seq(Calls) /\ sent \in Seq(Calls)
      /\ Len(sent) \in Nat /\ Len(stdin) \in Nat /\ ReadSoFar \in 0..Len(sent)
    <2>1. stdin \in Seq(Calls) /\ sent \in Seq(Calls) /\ ReadSoFar >= 0
        BY DEF WireTypes, InOrder
    <2>2. Len(sent) \in Nat /\ Len(stdin) \in Nat
        BY <2>1, LenProperties
    <2> QED
        BY <2>1, <2>2 DEF ReadSoFar
<1>1. CASE UNCHANGED <<stdin, sent>>
    BY <1>1 DEF InOrder, ReadSoFar, Served, Before
<1>2. ASSUME NEW d \in Calls, Written(d)
      PROVE  InOrder' /\ \A c \in Calls : Served(c) => Served(c)' /\ Before(c)' = Before(c)
    <2>1. d \notin Range(sent)
        BY <1>2 DEF Written, Accounted
    <2>2. \A i \in 1..Len(sent) : sent[i] # d
        BY <1>0, <2>1 DEF Range
    <2>3. /\ sent' \in Seq(Calls) /\ Len(sent') = Len(sent) + 1 /\ sent'[Len(sent) + 1] = d
          /\ \A i \in 1..Len(sent) : sent'[i] = sent[i]
        BY <1>0, <1>2, Longer DEF Written
    <2>4. /\ Len(stdin') = Len(stdin) + 1 /\ stdin'[Len(stdin) + 1] = d
          /\ \A i \in 1..Len(stdin) : stdin'[i] = stdin[i]
        BY <1>0, <1>2, Longer DEF Written
    <2>5. ReadSoFar' = ReadSoFar /\ ReadSoFar + Len(stdin) + 1 = Len(sent) + 1
        BY <1>0, <2>3, <2>4 DEF ReadSoFar
    <2>6. \A i, j \in 1..Len(sent') : sent'[i] = sent'[j] => i = j
        <3> SUFFICES ASSUME NEW i \in 1..Len(sent'), NEW j \in 1..Len(sent'), sent'[i] = sent'[j]
                     PROVE  i = j
            OBVIOUS
        <3>1. (i \in 1..Len(sent) \/ i = Len(sent) + 1) /\ (j \in 1..Len(sent) \/ j = Len(sent) + 1)
            BY <1>0, <2>3
        <3>2. i \in 1..Len(sent) /\ j \in 1..Len(sent) => i = j
            BY <2>3 DEF InOrder
        <3>3. i \in 1..Len(sent) => sent'[i] # d
            BY <2>2, <2>3
        <3>4. j \in 1..Len(sent) => sent'[j] # d
            BY <2>2, <2>3
        <3> QED
            BY <2>3, <3>1, <3>2, <3>3, <3>4
    <2>7. \A i \in 1..Len(stdin') : stdin'[i] = sent'[ReadSoFar' + i]
        <3> SUFFICES ASSUME NEW i \in 1..Len(stdin')
                     PROVE  stdin'[i] = sent'[ReadSoFar + i]
            BY <2>5
        <3>1. CASE i = Len(stdin) + 1
            <4>1. stdin'[i] = d
                BY <2>4, <3>1
            <4>2. ReadSoFar + i = Len(sent) + 1
                BY <1>0, <2>5, <3>1
            <4> QED
                BY <2>3, <4>1, <4>2
        <3>2. CASE i \in 1..Len(stdin)
            <4>1. ReadSoFar + i \in 1..Len(sent)
                BY <1>0, <2>5, <3>2
            <4> QED
                BY <2>3, <2>4, <3>2, <4>1 DEF InOrder
        <3> QED
            BY <1>0, <2>4, <3>1, <3>2
    <2>8. InOrder'
        BY <1>0, <2>5, <2>6, <2>7 DEF InOrder
    <2>9. ASSUME NEW c \in Calls, Served(c)
          PROVE  Served(c)' /\ Before(c)' = Before(c)
        <3>1. PICK k \in 1..ReadSoFar : sent[k] = c
            BY <2>9 DEF Served
        <3>2. k \in 1..Len(sent) /\ c # d
            BY <1>0, <2>2, <3>1
        <3>3. Served(c)'
            BY <2>3, <2>5, <3>1, <3>2 DEF Served
        <3>4. \A i, j : i \in 1..Len(sent) /\ j \in i + 1..Len(sent) /\ sent[j] = c <=>
                           i \in 1..Len(sent') /\ j \in i + 1..Len(sent') /\ sent'[j] = c
            <4>1. \A i, j : i \in 1..Len(sent) /\ j \in i + 1..Len(sent) =>
                               i \in 1..Len(sent') /\ j \in i + 1..Len(sent') /\ j \in 1..Len(sent)
                BY <1>0, <2>3
            <4>2. \A i, j : i \in 1..Len(sent') /\ j \in i + 1..Len(sent') =>
                               \/ j = Len(sent) + 1
                               \/ i \in 1..Len(sent) /\ j \in i + 1..Len(sent) /\ j \in 1..Len(sent)
                BY <1>0, <2>3
            <4> QED
                BY <2>3, <3>2, <4>1, <4>2
        <3>5. {j \in 1..Len(sent') : \E m \in j + 1..Len(sent') : sent'[m] = c}
                  = {j \in 1..Len(sent) : \E m \in j + 1..Len(sent) : sent[m] = c}
            BY <3>4
        <3>6. \A j \in {j \in 1..Len(sent) : \E m \in j + 1..Len(sent) : sent[m] = c} : sent'[j] = sent[j]
            BY <2>3
        <3> QED
            BY <3>3, <3>5, <3>6 DEF Before
    <2> QED
        BY <2>8, <2>9
<1>3. CASE ReadsRequest
    <2>1. /\ Len(stdin') = Len(stdin) - 1 /\ Len(stdin) >= 1
          /\ \A i \in 1..Len(stdin') : stdin'[i] = stdin[i + 1]
          /\ sent' = sent
        BY <1>0, <1>3, Shorter DEF ReadsRequest
    <2>2. ReadSoFar' = ReadSoFar + 1
        BY <1>0, <2>1 DEF ReadSoFar
    <2>3. \A i \in 1..Len(stdin') : stdin'[i] = sent'[ReadSoFar' + i]
        <3>0. \A a, b, r, s \in Int : b = a - 1 /\ s = r + 1 =>
                  \A i \in 1..b : i + 1 \in 1..a /\ r + (i + 1) = s + i
            OBVIOUS
        <3>2. Len(stdin) \in Int /\ Len(stdin') \in Int /\ ReadSoFar \in Int /\ ReadSoFar' \in Int
            BY <1>0, <2>1, <2>2 DEF ReadSoFar
        <3>1. \A i \in 1..Len(stdin') : i + 1 \in 1..Len(stdin) /\ ReadSoFar + (i + 1) = ReadSoFar' + i
            BY <3>0, <3>2, <2>1, <2>2
        <3> QED
            BY <2>1, <3>1 DEF InOrder
    <2>4. InOrder'
        BY <1>0, <2>1, <2>2, <2>3 DEF InOrder
    <2> QED
        BY <1>0, <2>1, <2>2, <2>4 DEF Served, Before
<1>4. CASE Dies
    <2>1. stdin' = <<>> /\ sent' = sent
        BY <1>4 DEF Dies
    <2>2. ReadSoFar' = Len(sent)
        BY <1>0, <2>1 DEF ReadSoFar
    <2>3. InOrder'
        BY <1>0, <2>1, <2>2 DEF InOrder
    <2> QED
        BY <1>0, <2>1, <2>2, <2>3 DEF Served, Before
<1> QED
    <2>1. \A c \in Calls : Calling(c) \/ WriteFails(c) => UNCHANGED <<stdin, sent>>
        BY DEF Calling, WriteFails, serverVars
    <2>2. \A t \in TurnCalls : TurnSends(t) \/ TurnRefused(t) \/ ForwardsEvent(t) \/ ForwardsAnswer(t)
                               \/ BrowserReads(t) \/ BrowserLeaves(t) => UNCHANGED <<stdin, sent>>
        BY DEF TurnSends, TurnRefused, ForwardsEvent, ForwardsAnswer, BrowserReads, BrowserLeaves,
               serverVars
    <2>3. Exits \/ HangsUp \/ Accept \/ ReadLoopEnds \/ ReadFails \/ UNCHANGED wireVars =>
              UNCHANGED <<stdin, sent>>
        BY DEF Exits, HangsUp, Accept, ReadLoopEnds, ReadFails, wireVars, serverVars
    <2> QED
        BY <1>1, <1>2, <1>3, <1>4, <2>1, <2>2, <2>3 DEF WireNext, ServerNext, ClientNext, World

LEMMA RememberedAtTheStart == WireInit => Remembered
<1> SUFFICES ASSUME WireInit PROVE Remembered
    OBVIOUS
<1>1. PICK made \in Scenarios : call = [c \in Calls |-> IF c \in made THEN "idle" ELSE "unmade"]
    BY DEF WireInit
<1>2. stdout = <<>> /\ memory = {} /\ \A c \in Calls : call[c] # "answered"
    BY <1>1 DEF WireInit
<1> QED
    BY <1>2 DEF Remembered, Told, Calls

LEMMA RememberedStays ==
    WireTypes /\ Accounted /\ InOrder /\ Remembered /\ [WireNext]_wireVars => Remembered'
<1> SUFFICES ASSUME WireTypes, Accounted, InOrder, Remembered, [WireNext]_wireVars
             PROVE  Remembered'
    OBVIOUS
<1> USE WireAssumption
<1>0. /\ TurnCalls \subseteq Calls /\ Writes \subseteq Calls /\ Reads \subseteq Calls
      /\ stdin \in Seq(Calls) /\ sent \in Seq(Calls) /\ stdout \in Seq(Frames)
      /\ call \in [Calls -> {"unmade", "idle", "writing", "waiting", "answered", "refused", "failed"}]
      /\ answer \in [Calls -> SUBSET Writes]
      /\ memory \in SUBSET Writes
    BY DEF Calls, WireTypes
<1>o. \A c \in Calls : Served(c) => Served(c)' /\ Before(c)' = Before(c)
    BY OrderStays
<1>1. ASSUME memory' = memory,
             \A c \in Writes \cup Reads : \A what \in SUBSET Writes : Told(c, what)' => Told(c, what)
      PROVE  Remembered'
    <2>1. \A x \in memory' : Served(x)'
        BY <1>0, <1>o, <1>1 DEF Remembered
    <2>2. ASSUME NEW c \in Writes \cup Reads, NEW what \in SUBSET Writes, Told(c, what)'
          PROVE  /\ Served(c)'
                 /\ c \in Writes => c \in memory'
                 /\ c \in Reads =>
                        /\ what \subseteq Before(c)'
                        /\ \A x \in Writes \cap Before(c)' :
                               (\E other \in SUBSET Writes : Told(x, other)') => x \in what
        <3>1. Told(c, what) /\ c \in Calls
            BY <1>0, <1>1, <2>2
        <3>2. Served(c) /\ (c \in Writes => c \in memory)
            BY <3>1 DEF Remembered
        <3>3. Served(c)' /\ Before(c)' = Before(c)
            BY <1>o, <3>1, <3>2
        <3>4. c \in Reads =>
                  /\ what \subseteq Before(c)
                  /\ \A x \in Writes \cap Before(c) :
                         (\E other \in SUBSET Writes : Told(x, other)) => x \in what
            BY <3>1 DEF Remembered
        <3>5. \A x \in Writes : (\E other \in SUBSET Writes : Told(x, other)')
                                   => \E other \in SUBSET Writes : Told(x, other)
            BY <1>1
        <3> QED
            BY <1>1, <3>2, <3>3, <3>4, <3>5
    <2> QED
        BY <2>1, <2>2 DEF Remembered
<1>2. ASSUME memory' = memory, stdout' = stdout,
             \A c \in Calls : call'[c] = "answered" => call[c] = "answered" /\ answer'[c] = answer[c]
      PROVE  Remembered'
    BY <1>0, <1>1, <1>2 DEF Told
<1>3. CASE ReadsRequest
    <2>0. PICK c \in Calls : c = Head(stdin) /\ c = stdin[1] /\ Len(stdin) \in Nat \ {0}
        BY <1>0, <1>3, Shorter DEF ReadsRequest
    <2>1. UNCHANGED <<call, answer, sent>>
        BY <1>3 DEF ReadsRequest, clientVars
    <2>2. CASE c \in TurnCalls
        <3>1. memory' = memory /\ stdout' = stdout
            BY <1>3, <2>0, <2>2 DEF ReadsRequest
        <3> QED
            BY <1>2, <2>1, <3>1
    <2>3. CASE c \notin TurnCalls /\ stdout' = Append(stdout, Refusal(c)) /\ memory' = memory
        <3>1. Refusal(c) \in Frames /\ \A d \in Calls, what \in SUBSET Writes : Refusal(c) # Response(d, what)
            <4>1. Refusal(c).kind = "error" /\ Refusal(c) \in Frames
                BY FrameFacts
            <4>2. \A d \in Calls, what \in SUBSET Writes : Response(d, what).kind = "response"
                BY FrameFacts
            <4> QED
                BY <4>1, <4>2
        <3>2. /\ Len(stdout') = Len(stdout) + 1 /\ stdout'[Len(stdout) + 1] = Refusal(c)
              /\ \A i \in 1..Len(stdout) : stdout'[i] = stdout[i]
              /\ Len(stdout) \in Nat
            BY <1>0, <2>3, <3>1, Longer
        <3>3. \A i \in 1..Len(stdout') : i \in 1..Len(stdout) \/ i = Len(stdout) + 1
            BY <3>2
        <3>4. \A d \in Writes \cup Reads : \A what \in SUBSET Writes : Told(d, what)' => Told(d, what)
            BY <1>0, <2>1, <3>1, <3>2, <3>3 DEF Told
        <3> QED
            BY <1>1, <2>3, <3>4
    <2>4. CASE /\ c \notin TurnCalls /\ stdout' = Append(stdout, Response(c, memory))
               /\ memory' = memory \cup ({c} \cap Writes)
        <3> DEFINE at == ReadSoFar + 1
        <3>1. /\ Len(stdin) \in Nat \ {0} /\ Len(sent) \in Nat /\ ReadSoFar \in Nat
              /\ at \in 1..Len(sent) /\ sent[at] = c /\ ReadSoFar' = at
            <4>1. Len(sent) \in Nat /\ ReadSoFar >= 0
                BY <1>0, LenProperties DEF InOrder
            <4>2. Len(stdin') = Len(stdin) - 1 /\ sent' = sent
                BY <1>0, <1>3, Shorter DEF ReadsRequest
            <4>3. sent[at] = c
                BY <2>0 DEF InOrder
            <4> QED
                BY <2>0, <4>1, <4>2, <4>3 DEF ReadSoFar
        <3> HIDE DEF at
        <3>2. Served(c)'
            BY <2>1, <3>1 DEF Served
        <3>3. Response(c, memory) \in Frames
            BY <1>0, FrameFacts
        <3>4. /\ Len(stdout') = Len(stdout) + 1 /\ stdout'[Len(stdout) + 1] = Response(c, memory)
              /\ \A i \in 1..Len(stdout) : stdout'[i] = stdout[i]
              /\ Len(stdout) \in Nat
            BY <1>0, <2>4, <3>3, Longer
        <3>5. \A i \in 1..Len(stdout') : i \in 1..Len(stdout) \/ i = Len(stdout) + 1
            BY <3>4
        <3>6. \A d \in Calls, what \in SUBSET Writes :
                  Response(d, what) = Response(c, memory) => d = c /\ what = memory
            <4>1. \A d \in Calls, what \in SUBSET Writes :
                      Response(d, what).call = d /\ Response(d, what).what = what
                BY FrameFacts
            <4> QED
                BY <1>0, <4>1
        <3>7. \A d \in Writes \cup Reads : \A what \in SUBSET Writes :
                  Told(d, what)' => Told(d, what) \/ (d = c /\ what = memory)
            BY <1>0, <2>1, <3>4, <3>5, <3>6 DEF Told
        <3>8. \A x \in memory' : Served(x)'
            BY <1>0, <1>o, <2>4, <3>2 DEF Remembered
        <3>b. /\ \A x, d : x \in Before(d) <=>
                     \E i, k \in 1..Len(sent) : i < k /\ sent[i] = x /\ sent[k] = d
              /\ \A d : Before(d)' = Before(d)
            BY <1>0, <2>1, BeforeMeans DEF Before
        <3>9. \A d \in Calls : Served(d) => c \notin Before(d)
            <4> SUFFICES ASSUME NEW d \in Calls, Served(d), c \in Before(d)
                         PROVE  FALSE
                OBVIOUS
            <4>1. PICK k \in 1..ReadSoFar : sent[k] = d
                BY DEF Served
            <4>2. PICK i \in 1..Len(sent), j \in 1..Len(sent) : i < j /\ sent[i] = c /\ sent[j] = d
                BY <3>b
            <4>3. k \in 1..Len(sent) /\ k < at
                BY <3>1, <4>1 DEF at
            <4>4. i = at /\ j = k
                BY <3>1, <4>1, <4>2, <4>3 DEF InOrder
            <4> QED
                BY <3>1, <4>2, <4>3, <4>4
        <3>10. memory \subseteq Before(c)
            <4> SUFFICES ASSUME NEW x \in memory PROVE x \in Before(c)
                OBVIOUS
            <4>1. PICK k \in 1..ReadSoFar : sent[k] = x
                BY DEF Remembered, Served
            <4>2. k \in 1..Len(sent) /\ k < at
                BY <3>1, <4>1 DEF at
            <4> QED
                BY <3>1, <3>b, <4>1, <4>2
        <3>11. ASSUME NEW d \in Writes \cup Reads, NEW what \in SUBSET Writes, Told(d, what)'
               PROVE  /\ Served(d)'
                      /\ d \in Writes => d \in memory'
                      /\ d \in Reads =>
                             /\ what \subseteq Before(d)'
                             /\ \A x \in Writes \cap Before(d)' :
                                    (\E other \in SUBSET Writes : Told(x, other)') => x \in what
            <4>1. CASE Told(d, what)
                <5>1. Served(d) /\ d \in Calls /\ (d \in Writes => d \in memory)
                    BY <1>0, <4>1 DEF Remembered
                <5>2. d \in Reads =>
                          /\ what \subseteq Before(d)
                          /\ \A x \in Writes \cap Before(d) :
                                 (\E other \in SUBSET Writes : Told(x, other)) => x \in what
                    BY <4>1 DEF Remembered
                <5>3. ASSUME NEW x \in Writes \cap Before(d), NEW other \in SUBSET Writes, Told(x, other)'
                      PROVE  Told(x, other)
                    BY <3>7, <3>9, <5>1, <5>3
                <5>4. Served(d)'
                    BY <1>o, <5>1
                <5> QED
                    BY <2>4, <3>b, <5>1, <5>2, <5>3, <5>4
            <4>2. CASE d = c /\ what = memory
                <5>1. d \in Writes => d \in memory'
                    BY <2>4, <4>2
                <5>2. ASSUME NEW x \in Writes, NEW other \in SUBSET Writes, Told(x, other)', d \in Reads
                      PROVE  x \in memory
                    <6>1. x # c
                        BY <4>2, <5>2
                    <6>2. Told(x, other)
                        BY <3>7, <5>2, <6>1
                    <6> QED
                        BY <6>2 DEF Remembered
                <5>3. Served(d)' /\ memory \subseteq Before(d)'
                    BY <3>2, <3>10, <3>b, <4>2
                <5> QED
                    BY <4>2, <5>1, <5>2, <5>3
            <4> QED
                BY <3>7, <3>11, <4>1, <4>2
        <3> QED
            BY <3>8, <3>11 DEF Remembered
    <2> QED
        BY <1>3, <2>0, <2>2, <2>3, <2>4 DEF ReadsRequest
<1>4. ASSUME NEW t \in TurnCalls, NEW f \in Frames,
             UNCHANGED <<memory, call, answer>>, stdout' = Append(stdout, f),
             \A c \in Writes \cup Reads : ~Answers(f, c)
      PROVE  Remembered'
    <2>1. \A d \in Writes \cup Reads : \A what \in SUBSET Writes : f # Response(d, what)
        BY <1>0, <1>4, FrameFacts DEF Answers
    <2>2. /\ Len(stdout') = Len(stdout) + 1 /\ stdout'[Len(stdout) + 1] = f
          /\ \A i \in 1..Len(stdout) : stdout'[i] = stdout[i]
          /\ Len(stdout) \in Nat
        BY <1>0, <1>4, Longer
    <2>3. \A i \in 1..Len(stdout') : i \in 1..Len(stdout) \/ i = Len(stdout) + 1
        BY <2>2
    <2>4. \A d \in Writes \cup Reads : \A what \in SUBSET Writes : Told(d, what)' => Told(d, what)
        BY <1>4, <2>1, <2>2, <2>3 DEF Told
    <2> QED
        BY <1>1, <1>4, <2>4
<1>5. ASSUME NEW t \in TurnCalls, TurnSends(t) \/ TurnRefused(t)
      PROVE  Remembered'
    <2>1. UNCHANGED <<memory, call, answer>>
        BY <1>5 DEF TurnSends, TurnRefused, clientVars
    <2>2. PICK f : /\ stdout' = Append(stdout, f)
                   /\ \/ f = Response(t, {}) \/ f = Refusal(t)
                      \/ progress[t] \in 1..Len(TurnFrames(t)) /\ f = TurnFrames(t)[progress[t]]
        <3>1. progress[t] \in 1..5
            <4>1. progress[t] \in 0..5
                BY DEF WireTypes
            <4> QED
                BY <1>5, <4>1 DEF TurnSends, TurnRefused, Running, Unread
        <3>2. Len(TurnFrames(t)) \in {2, 3}
            BY TurnFramesShape
        <3>3. progress[t] <= Len(TurnFrames(t)) => progress[t] \in 1..Len(TurnFrames(t))
            BY <3>1, <3>2
        <3> QED
            BY <1>5, <3>3 DEF TurnSends, TurnRefused
    <2>3. CASE f \in {Response(t, {}), Refusal(t)}
        <3>1. f \in Frames /\ f.call = t
            BY <1>0, <2>3, FrameFacts
        <3> QED
            BY <1>4, <2>1, <2>2, <3>1 DEF Answers
    <2>4. CASE progress[t] \in 1..Len(TurnFrames(t)) /\ f = TurnFrames(t)[progress[t]]
        <3>1. \A i \in 1..Len(TurnFrames(t)) :
                  /\ TurnFrames(t)[i] \in Frames
                  /\ TurnFrames(t)[i].kind \notin {"response", "error"}
            <4>1. \A i \in 1..Len(TurnFrames(t)) :
                      /\ TurnFrames(t)[i] \in Frames
                      /\ \/ TurnFrames(t)[i] = [kind |-> "turnStarted", turn |-> t]
                         \/ TurnFrames(t)[i] = [kind |-> "turnCompleted", turn |-> t]
                         \/ TurnFrames(t)[i] = [kind |-> "graph"]
                BY TurnFramesShape
            <4> QED
                BY <4>1
        <3>2. f \in Frames /\ f.kind \notin {"response", "error"}
            BY <2>4, <3>1
        <3> QED
            BY <1>4, <2>1, <2>2, <3>2 DEF Answers
    <2> QED
        BY <2>2, <2>3, <2>4
<1>6. CASE Dies
    <2>1. UNCHANGED <<memory, call, answer>>
        BY <1>6 DEF Dies, clientVars
    <2>2. PICK n \in 0..Len(stdout) : stdout' = SubSeq(stdout, 1, n)
        BY <1>6 DEF Dies
    <2>3. Len(stdout') = n /\ \A i \in 1..n : stdout'[i] = stdout[i] /\ i \in 1..Len(stdout)
        BY <1>0, <2>2, Shorter, LenProperties
    <2>4. \A d \in Writes \cup Reads : \A what \in SUBSET Writes : Told(d, what)' => Told(d, what)
        BY <2>1, <2>3 DEF Told
    <2> QED
        BY <1>1, <2>1, <2>4
<1>7. CASE Accept
    <2> DEFINE frame == Head(stdout)
    <2>1. /\ frame \in Frames /\ frame = stdout[1] /\ Len(stdout) \in Nat \ {0}
          /\ Len(stdout') = Len(stdout) - 1 /\ \A i \in 1..Len(stdout') : stdout'[i] = stdout[i + 1]
        BY <1>0, <1>7, Shorter DEF Accept
    <2> HIDE DEF frame
    <2>2. \A i \in 1..Len(stdout') : i + 1 \in 1..Len(stdout)
        BY <2>1
    <2>3. memory' = memory
        BY <1>7 DEF Accept
    <2>4. ASSUME NEW d \in Calls, call'[d] = "answered"
          PROVE  \/ call[d] = "answered" /\ answer'[d] = answer[d]
                 \/ stdout[1] = Response(d, answer'[d])
        <3>1. CASE frame.kind \in {"response", "error"} /\ frame.call \in pending
            <4>1. /\ call' = [call EXCEPT ![frame.call] = Answered(frame)]
                  /\ answer' = [answer EXCEPT ![frame.call] = IF frame.kind = "error" THEN @ ELSE frame.what]
                BY <1>7, <3>1 DEF Accept, frame
            <4>2. CASE d # frame.call
                BY <1>0, <2>4, <4>1, <4>2
            <4>3. CASE d = frame.call
                <5>1. frame.kind = "response"
                    BY <1>0, <2>4, <3>1, <4>1, <4>3 DEF Answered
                <5>2. answer'[d] = frame.what
                    BY <1>0, <4>1, <4>3, <5>1
                <5>3. frame = Response(frame.call, frame.what)
                    BY <2>1, <5>1, FrameFacts
                <5> QED
                    BY <2>1, <4>3, <5>2, <5>3
            <4> QED
                BY <4>2, <4>3
        <3>2. CASE ~(frame.kind \in {"response", "error"} /\ frame.call \in pending)
            <4>1. UNCHANGED <<call, answer>>
                BY <1>7, <3>2 DEF Accept, frame
            <4> QED
                BY <2>4, <4>1
        <3> QED
            BY <3>1, <3>2
    <2>5. 1 \in 1..Len(stdout)
        BY <2>1
    <2>6. \A d \in Writes \cup Reads : \A what \in SUBSET Writes : Told(d, what)' => Told(d, what)
        <3> SUFFICES ASSUME NEW d \in Writes \cup Reads, NEW what \in SUBSET Writes, Told(d, what)'
                     PROVE  Told(d, what)
            OBVIOUS
        <3>1. CASE \E i \in 1..Len(stdout') : stdout'[i] = Response(d, what)
            BY <2>1, <2>2, <3>1 DEF Told
        <3>2. CASE call'[d] = "answered" /\ answer'[d] = what
            BY <1>0, <2>4, <2>5, <3>2 DEF Told
        <3> QED
            BY <3>1, <3>2 DEF Told
    <2> QED
        BY <1>1, <2>3, <2>6
<1> QED
    <2>1. ASSUME NEW c \in Calls, Calling(c) \/ Written(c) \/ WriteFails(c)
          PROVE  Remembered'
        <3>1. memory' = memory /\ stdout' = stdout /\ answer' = answer
            BY <2>1 DEF Calling, Written, WriteFails, serverVars
        <3>2. \A d \in Calls : call'[d] = "answered" => call[d] = "answered"
            BY <1>0, <2>1 DEF Calling, Written, WriteFails
        <3> QED
            BY <1>2, <3>1, <3>2
    <2>2. ASSUME NEW t \in TurnCalls,
                 ForwardsEvent(t) \/ ForwardsAnswer(t) \/ BrowserReads(t) \/ BrowserLeaves(t)
          PROVE  Remembered'
        BY <1>2, <2>2 DEF ForwardsEvent, ForwardsAnswer, BrowserReads, BrowserLeaves, serverVars,
                          clientVars
    <2>3. CASE Exits \/ HangsUp \/ UNCHANGED wireVars
        BY <1>2, <2>3 DEF Exits, HangsUp, wireVars, serverVars, clientVars
    <2>4. CASE ReadLoopEnds \/ ReadFails
        <3>1. \A d \in Calls : call'[d] = "answered" => call[d] = "answered"
            BY <1>0, <2>4 DEF ReadLoopEnds, ReadFails, AllTold
        <3> QED
            BY <1>2, <2>4, <3>1 DEF ReadLoopEnds, ReadFails, serverVars
    <2> QED
        BY <1>3, <1>5, <1>6, <1>7, <2>1, <2>2, <2>3, <2>4 DEF WireNext, ServerNext, ClientNext, World

\* Requests take effect in the order they were sent: what is written before is
\* found by what is asked after, while turns run beside them (run_stdio).
THEOREM OrderIsKept == WireSpec => []ReadsSeeEarlierWrites
<1>1. WireInit => Accounted /\ InOrder /\ Remembered
    BY AccountedAtTheStart, OrderAtTheStart, RememberedAtTheStart
<1>2. WireTypes /\ Accounted /\ InOrder /\ Remembered /\ [WireNext]_wireVars =>
          (Accounted /\ InOrder /\ Remembered)'
    BY AccountedStays, OrderStays, RememberedStays
<1>3. WireTypes /\ Remembered => ReadsSeeEarlierWrites
    <2> SUFFICES ASSUME WireTypes, Remembered, NEW c \in Reads, call[c] = "answered"
                 PROVE  /\ answer[c] \subseteq Before(c)
                        /\ \A x \in Writes \cap Before(c) : call[x] = "answered" => x \in answer[c]
        BY DEF ReadsSeeEarlierWrites
    <2>1. \A d \in Calls : answer[d] \in SUBSET Writes /\ (call[d] = "answered" => Told(d, answer[d]))
        BY DEF WireTypes, Told
    <2>2. Told(c, answer[c]) /\ answer[c] \in SUBSET Writes
        BY <2>1 DEF Calls
    <2>3. \A x \in Writes : call[x] = "answered" => \E other \in SUBSET Writes : Told(x, other)
        BY <2>1 DEF Calls
    <2> QED
        BY <2>2, <2>3 DEF Remembered
<1> QED
    BY <1>1, <1>2, <1>3, WireTypesHold, PTL DEF WireSpec

-----------------------------------------------------------------------------
(* What a stream shows                                                     *)

IsStart(f, t) == f.kind = "turnStarted" /\ f.turn = t
IsEnd(f, t) == f.kind = "turnCompleted" /\ f.turn = t
StartIn(s, t) == \E i \in 1..Len(s) : IsStart(s[i], t)
EndIn(s, t) == \E i \in 1..Len(s) : IsEnd(s[i], t)

\* Nothing of t is in there twice, and its start is not behind its end.
Sorted(s, t) ==
    \A i, j \in 1..Len(s) : i < j =>
        /\ IsStart(s[j], t) => ~IsStart(s[i], t) /\ ~IsEnd(s[i], t)
        /\ IsEnd(s[j], t) => ~IsEnd(s[i], t)

\* What is in b may come after what is in a.
Follows(a, b, t) ==
    /\ StartIn(b, t) => ~StartIn(a, t) /\ ~EndIn(a, t)
    /\ EndIn(b, t) => ~EndIn(a, t)

\* The frames of t from the browser back to the server: what was shown (s),
\* what its subscriber has not taken (q), what was not read (o).
Line(s, q, o, at, t) ==
    /\ Sorted(s, t) /\ Sorted(q, t) /\ Sorted(o, t)
    /\ Follows(s, q, t) /\ Follows(s, o, t) /\ Follows(q, o, t)
    /\ at \in {Unread, 1} => ~(StartIn(s, t) \/ StartIn(q, t) \/ StartIn(o, t))
    /\ at \in Unread..Len(TurnFrames(t)) => ~(EndIn(s, t) \/ EndIn(q, t) \/ EndIn(o, t))
    /\ at \in 2..4 \/ EndIn(s, t) \/ EndIn(q, t) \/ EndIn(o, t) =>
           StartIn(s, t) \/ StartIn(q, t) \/ StartIn(o, t)

LEMMA GrownSteps ==
    ASSUME NEW s \in Seq(Frames), NEW f \in Frames, NEW t
    PROVE  /\ StartIn(Append(s, f), t) <=> StartIn(s, t) \/ IsStart(f, t)
           /\ EndIn(Append(s, f), t) <=> EndIn(s, t) \/ IsEnd(f, t)
           /\ Sorted(s, t) /\ (IsStart(f, t) => ~StartIn(s, t) /\ ~EndIn(s, t))
                  /\ (IsEnd(f, t) => ~EndIn(s, t)) => Sorted(Append(s, f), t)
<1> DEFINE long == Append(s, f)
<1>1. /\ Len(long) = Len(s) + 1 /\ long[Len(s) + 1] = f /\ Len(s) \in Nat
      /\ \A i \in 1..Len(s) : long[i] = s[i]
    BY Longer
<1> HIDE DEF long
<1>2. \A i : i \in 1..Len(long) <=> i \in 1..Len(s) \/ i = Len(s) + 1
    BY <1>1
<1>3. StartIn(long, t) <=> StartIn(s, t) \/ IsStart(f, t)
    BY <1>1, <1>2 DEF StartIn
<1>4. EndIn(long, t) <=> EndIn(s, t) \/ IsEnd(f, t)
    BY <1>1, <1>2 DEF EndIn
<1>5. ASSUME Sorted(s, t), IsStart(f, t) => ~StartIn(s, t) /\ ~EndIn(s, t), IsEnd(f, t) => ~EndIn(s, t),
             NEW i \in 1..Len(long), NEW j \in 1..Len(long), i < j
      PROVE  /\ IsStart(long[j], t) => ~IsStart(long[i], t) /\ ~IsEnd(long[i], t)
             /\ IsEnd(long[j], t) => ~IsEnd(long[i], t)
    <2>1. i \in 1..Len(s)
        BY <1>1, <1>5
    <2>2. CASE j \in 1..Len(s)
        BY <1>1, <1>5, <2>1, <2>2 DEF Sorted
    <2>3. CASE j = Len(s) + 1
        BY <1>1, <1>5, <2>1, <2>3 DEF StartIn, EndIn
    <2> QED
        BY <1>2, <2>2, <2>3
<1>6. Sorted(s, t) /\ (IsStart(f, t) => ~StartIn(s, t) /\ ~EndIn(s, t))
          /\ (IsEnd(f, t) => ~EndIn(s, t)) => Sorted(long, t)
    BY <1>5 DEF Sorted
<1> QED
    BY <1>3, <1>4, <1>6 DEF long

LEMMA TakenSteps ==
    ASSUME NEW s \in Seq(Frames), s # <<>>, NEW t
    PROVE  /\ StartIn(s, t) <=> StartIn(Tail(s), t) \/ IsStart(Head(s), t)
           /\ EndIn(s, t) <=> EndIn(Tail(s), t) \/ IsEnd(Head(s), t)
           /\ Sorted(s, t) =>
                  /\ Sorted(Tail(s), t)
                  /\ StartIn(Tail(s), t) => ~IsStart(Head(s), t) /\ ~IsEnd(Head(s), t)
                  /\ EndIn(Tail(s), t) => ~IsEnd(Head(s), t)
<1> DEFINE rest == Tail(s)
<1>1. /\ Len(rest) = Len(s) - 1 /\ Head(s) = s[1] /\ Len(s) \in Nat \ {0}
      /\ \A i \in 1..Len(rest) : rest[i] = s[i + 1]
    BY Shorter
<1> HIDE DEF rest
<1>2. \A i \in 1..Len(s) : i = 1 \/ (i - 1 \in 1..Len(rest) /\ rest[i - 1] = s[i])
    BY <1>1
<1>3. \A i \in 1..Len(rest) : i + 1 \in 1..Len(s) /\ 1 < i + 1 /\ rest[i] = s[i + 1]
    BY <1>1
<1>4. 1 \in 1..Len(s)
    BY <1>1
<1>5. StartIn(s, t) <=> StartIn(rest, t) \/ IsStart(Head(s), t)
    <2>1. StartIn(s, t) => StartIn(rest, t) \/ IsStart(Head(s), t)
        BY <1>1, <1>2 DEF StartIn
    <2>2. StartIn(rest, t) \/ IsStart(Head(s), t) => StartIn(s, t)
        BY <1>1, <1>3, <1>4 DEF StartIn
    <2> QED
        BY <2>1, <2>2
<1>6. EndIn(s, t) <=> EndIn(rest, t) \/ IsEnd(Head(s), t)
    <2>1. EndIn(s, t) => EndIn(rest, t) \/ IsEnd(Head(s), t)
        BY <1>1, <1>2 DEF EndIn
    <2>2. EndIn(rest, t) \/ IsEnd(Head(s), t) => EndIn(s, t)
        BY <1>1, <1>3, <1>4 DEF EndIn
    <2> QED
        BY <2>1, <2>2
<1>7. ASSUME Sorted(s, t)
      PROVE  /\ Sorted(rest, t)
             /\ StartIn(rest, t) => ~IsStart(Head(s), t) /\ ~IsEnd(Head(s), t)
             /\ EndIn(rest, t) => ~IsEnd(Head(s), t)
    <2>1. \A i, j \in 1..Len(rest) : i < j => i + 1 < j + 1
        BY <1>1
    <2>2. Sorted(rest, t)
        BY <1>3, <1>7, <2>1 DEF Sorted
    <2>3. StartIn(rest, t) => ~IsStart(Head(s), t) /\ ~IsEnd(Head(s), t)
        BY <1>1, <1>3, <1>4, <1>7 DEF Sorted, StartIn
    <2>4. EndIn(rest, t) => ~IsEnd(Head(s), t)
        BY <1>1, <1>3, <1>4, <1>7 DEF Sorted, EndIn
    <2> QED
        BY <2>2, <2>3, <2>4
<1> QED
    BY <1>5, <1>6, <1>7 DEF rest

LEMMA CutSteps ==
    ASSUME NEW s \in Seq(Frames), NEW n \in 0..Len(s), NEW t
    PROVE  /\ StartIn(SubSeq(s, 1, n), t) => StartIn(s, t)
           /\ EndIn(SubSeq(s, 1, n), t) => EndIn(s, t)
           /\ Sorted(s, t) =>
                  /\ Sorted(SubSeq(s, 1, n), t)
                  /\ EndIn(SubSeq(s, 1, n), t) /\ StartIn(s, t) => StartIn(SubSeq(s, 1, n), t)
<1> DEFINE short == SubSeq(s, 1, n)
<1>1. Len(short) = n /\ \A i \in 1..n : short[i] = s[i]
    BY Shorter
<1> HIDE DEF short
<1>2. Len(s) \in Nat /\ \A i \in 1..n : i \in 1..Len(s)
    BY LenProperties
<1>3. (StartIn(short, t) => StartIn(s, t)) /\ (EndIn(short, t) => EndIn(s, t))
    BY <1>1, <1>2 DEF StartIn, EndIn
<1>4. Sorted(s, t) => Sorted(short, t)
    BY <1>1, <1>2 DEF Sorted
<1>5. ASSUME Sorted(s, t), EndIn(short, t), StartIn(s, t)
      PROVE  StartIn(short, t)
    <2>1. PICK j \in 1..n : IsEnd(s[j], t)
        BY <1>1, <1>5 DEF EndIn
    <2>2. PICK i \in 1..Len(s) : IsStart(s[i], t)
        BY <1>5 DEF StartIn
    <2>3. ~(j < i)
        BY <1>2, <1>5, <2>1, <2>2 DEF Sorted
    <2>4. i \in 1..n
        BY <1>2, <2>3
    <2> QED
        BY <1>1, <2>2, <2>4 DEF StartIn
<1> QED
    BY <1>3, <1>4, <1>5 DEF short

\* A frame of no account to t, at one end or the other.
LEMMA LineBesides ==
    ASSUME NEW s \in Seq(Frames), NEW q \in Seq(Frames), NEW o \in Seq(Frames), NEW at, NEW t,
           Line(s, q, o, at, t)
    PROVE  /\ \A f \in Frames : ~IsStart(f, t) /\ ~IsEnd(f, t) => Line(s, q, Append(o, f), at, t)
           /\ o # <<>> /\ ~IsStart(Head(o), t) /\ ~IsEnd(Head(o), t) => Line(s, q, Tail(o), at, t)
           /\ q # <<>> /\ ~IsStart(Head(q), t) /\ ~IsEnd(Head(q), t) => Line(s, Tail(q), o, at, t)
<1>1. ASSUME NEW f \in Frames, ~IsStart(f, t), ~IsEnd(f, t)
      PROVE  Line(s, q, Append(o, f), at, t)
    BY <1>1, GrownSteps DEF Line, Follows
<1>2. ASSUME o # <<>>, ~IsStart(Head(o), t), ~IsEnd(Head(o), t)
      PROVE  Line(s, q, Tail(o), at, t)
    BY <1>2, TakenSteps DEF Line, Follows
<1>3. ASSUME q # <<>>, ~IsStart(Head(q), t), ~IsEnd(Head(q), t)
      PROVE  Line(s, Tail(q), o, at, t)
    BY <1>3, TakenSteps DEF Line, Follows
<1> QED
    BY <1>1, <1>2, <1>3

\* A frame goes one station on.
LEMMA LineMoves ==
    ASSUME NEW s \in Seq(Frames), NEW q \in Seq(Frames), NEW o \in Seq(Frames), NEW at, NEW t \in TurnCalls,
           Line(s, q, o, at, t)
    PROVE  /\ o # <<>> => Line(s, Append(q, Head(o)), Tail(o), at, t)
           /\ q # <<>> => Line(Append(s, Head(q)), Tail(q), o, at, t)
           /\ \A n \in 0..Len(o) : Line(s, q, SubSeq(o, 1, n), IF at = Unread THEN Unread ELSE Done, t)
<1>1. ASSUME o # <<>>
      PROVE  Line(s, Append(q, Head(o)), Tail(o), at, t)
    <2>1. Head(o) \in Frames
        BY <1>1, Shorter
    <2>2. /\ StartIn(o, t) <=> StartIn(Tail(o), t) \/ IsStart(Head(o), t)
          /\ EndIn(o, t) <=> EndIn(Tail(o), t) \/ IsEnd(Head(o), t)
          /\ Sorted(Tail(o), t)
          /\ StartIn(Tail(o), t) => ~IsStart(Head(o), t) /\ ~IsEnd(Head(o), t)
          /\ EndIn(Tail(o), t) => ~IsEnd(Head(o), t)
        BY <1>1, TakenSteps DEF Line
    <2>3. /\ StartIn(Append(q, Head(o)), t) <=> StartIn(q, t) \/ IsStart(Head(o), t)
          /\ EndIn(Append(q, Head(o)), t) <=> EndIn(q, t) \/ IsEnd(Head(o), t)
        BY <2>1, GrownSteps
    <2>4. Sorted(Append(q, Head(o)), t)
        BY <2>1, <2>2, GrownSteps DEF Line, Follows
    <2> QED
        BY <2>2, <2>3, <2>4 DEF Line, Follows
<1>2. ASSUME q # <<>>
      PROVE  Line(Append(s, Head(q)), Tail(q), o, at, t)
    <2>1. Head(q) \in Frames
        BY <1>2, Shorter
    <2>2. /\ StartIn(q, t) <=> StartIn(Tail(q), t) \/ IsStart(Head(q), t)
          /\ EndIn(q, t) <=> EndIn(Tail(q), t) \/ IsEnd(Head(q), t)
          /\ Sorted(Tail(q), t)
          /\ StartIn(Tail(q), t) => ~IsStart(Head(q), t) /\ ~IsEnd(Head(q), t)
          /\ EndIn(Tail(q), t) => ~IsEnd(Head(q), t)
        BY <1>2, TakenSteps DEF Line
    <2>3. /\ StartIn(Append(s, Head(q)), t) <=> StartIn(s, t) \/ IsStart(Head(q), t)
          /\ EndIn(Append(s, Head(q)), t) <=> EndIn(s, t) \/ IsEnd(Head(q), t)
        BY <2>1, GrownSteps
    <2>4. Sorted(Append(s, Head(q)), t)
        BY <2>1, <2>2, GrownSteps DEF Line, Follows
    <2> QED
        BY <2>2, <2>3, <2>4 DEF Line, Follows
<1>3. ASSUME NEW n \in 0..Len(o)
      PROVE  Line(s, q, SubSeq(o, 1, n), IF at = Unread THEN Unread ELSE Done, t)
    <2> DEFINE short == SubSeq(o, 1, n)
    <2>1. /\ StartIn(short, t) => StartIn(o, t)
          /\ EndIn(short, t) => EndIn(o, t)
          /\ Sorted(short, t)
          /\ EndIn(short, t) /\ StartIn(o, t) => StartIn(short, t)
        BY CutSteps DEF Line
    <2> HIDE DEF short
    <2>2. EndIn(q, t) /\ StartIn(o, t) => FALSE
        BY DEF Line, Follows
    <2>3. EndIn(s, t) /\ StartIn(o, t) => FALSE
        BY DEF Line, Follows
    <2>4. ~(Done \in Unread..Len(TurnFrames(t)))
        <3>1. \A len \in {2, 3} : ~(Done \in Unread..len)
            BY DEF Unread, Done
        <3> QED
            BY <3>1, TurnFramesShape
    <2>5. CASE at = Unread
        BY <2>1, <2>2, <2>3, <2>5 DEF Line, Follows, short, Unread
    <2>6. CASE at # Unread
        BY <2>1, <2>2, <2>3, <2>4, <2>6 DEF Line, Follows, short, Unread, Done
    <2> QED
        BY <2>5, <2>6
<1> QED
    BY <1>1, <1>2, <1>3

\* The turn sends its next frame, or it starts, or it is over.
LEMMA LineGrows ==
    ASSUME NEW s \in Seq(Frames), NEW q \in Seq(Frames), NEW o \in Seq(Frames), NEW at \in 0..5,
           NEW t \in TurnCalls, Line(s, q, o, at, t)
    PROVE  /\ at = Unread => Line(s, q, o, 1, t)
           /\ Line(s, q, o, Done, t)
           /\ at \in 1..Len(TurnFrames(t)) => Line(s, q, Append(o, TurnFrames(t)[at]), at + 1, t)
<1> DEFINE len == Len(TurnFrames(t))
<1>1. len \in {2, 3}
    BY TurnFramesShape
<1>2. at = Unread => Line(s, q, o, 1, t)
    BY <1>1 DEF Line, Unread
<1>3. Line(s, q, o, Done, t)
    BY <1>1 DEF Line, Unread, Done
<1>4. ASSUME at \in 1..len
      PROVE  Line(s, q, Append(o, TurnFrames(t)[at]), at + 1, t)
    <2> DEFINE f == TurnFrames(t)[at]
               long == Append(o, f)
    <2>1. /\ f \in Frames
          /\ at = 1 => f = [kind |-> "turnStarted", turn |-> t]
          /\ at = len => f = [kind |-> "turnCompleted", turn |-> t]
          /\ at # 1 /\ at # len => f = [kind |-> "graph"]
        <3>1. \A i \in 1..len :
                  /\ TurnFrames(t)[i] \in Frames
                  /\ TurnFrames(t)[i] =
                         IF i = 1 THEN [kind |-> "turnStarted", turn |-> t]
                         ELSE IF i = len THEN [kind |-> "turnCompleted", turn |-> t]
                         ELSE [kind |-> "graph"]
            BY TurnFramesShape
        <3>2. \A n \in {2, 3} : n # 1
            OBVIOUS
        <3> QED
            BY <1>1, <1>4, <3>1, <3>2
    <2>2. /\ IsStart(f, t) <=> at = 1
          /\ IsEnd(f, t) <=> at = len
        BY <1>1, <2>1 DEF IsStart, IsEnd
    <2> HIDE DEF f
    <2>3. /\ StartIn(long, t) <=> StartIn(o, t) \/ at = 1
          /\ EndIn(long, t) <=> EndIn(o, t) \/ at = len
        BY <2>1, <2>2, GrownSteps
    <2>4. at \in Unread..len /\ (at = 1 => at \in {Unread, 1}) /\ (at # 1 => at \in 2..4)
        <3>1. \A n \in {2, 3} : \A k \in 1..n :
                  k \in Unread..n /\ (k = 1 => k \in {Unread, 1}) /\ (k # 1 => k \in 2..4)
            BY DEF Unread
        <3> QED
            BY <1>1, <1>4, <3>1
    <2>5. /\ at = 1 => ~(StartIn(s, t) \/ StartIn(q, t) \/ StartIn(o, t))
          /\ ~(EndIn(s, t) \/ EndIn(q, t) \/ EndIn(o, t))
          /\ at # 1 => StartIn(s, t) \/ StartIn(q, t) \/ StartIn(o, t)
        BY <2>4 DEF Line
    <2>6. Sorted(long, t)
        BY <2>1, <2>2, <2>5, GrownSteps DEF Line
    <2>7. at + 1 \notin {Unread, 1} /\ (at + 1 \in Unread..len => at # len)
        BY <1>1, <1>4 DEF Unread
    <2> HIDE DEF long, len
    <2>8. Line(s, q, long, at + 1, t)
        BY <2>3, <2>5, <2>6, <2>7 DEF Line, Follows, len
    <2> QED
        BY <2>8 DEF long, f
<1> QED
    BY <1>2, <1>3, <1>4

Telling(t) ==
    /\ stream[t].turn = t
    /\ StartIn(shown[t], t) => stream[t].known
    /\ stream[t].state = "unopened" <=> call[t] \in {"unmade", "idle"}
    /\ progress[t] # Unread => Served(t)
    /\ ~stream[t].lagged =>
           /\ stream[t].state \in {"unopened", "open"} =>
                  Line(shown[t], stream[t].queue, stdout, progress[t], t)
           /\ Sorted(shown[t], t)
           /\ EndIn(shown[t], t) => StartIn(shown[t], t)
    /\ \A i \in 1..Len(shown[t]) : OfATurn(shown[t][i]) => shown[t][i].turn = t

\* Each turn has a session of its own, as far as streams that are open at the
\* same time go: the first frame is told apart by its session alone.
OneTurnASession == \A t, u \in TurnCalls : SessionOf[t] = SessionOf[u] => t = u

LEMMA TellingAtTheStart == WireInit => \A t \in TurnCalls : Telling(t)
<1> SUFFICES ASSUME WireInit, NEW t \in TurnCalls PROVE Telling(t)
    OBVIOUS
<1>1. PICK made \in Scenarios : call = [c \in Calls |-> IF c \in made THEN "idle" ELSE "unmade"]
    BY DEF WireInit
<1>2. call[t] \in {"unmade", "idle"}
    BY <1>1 DEF Calls
<1>3. /\ stream[t] = [state |-> "unopened", queue |-> <<>>, known |-> FALSE,
                      turn |-> t, lagged |-> FALSE, answered |-> FALSE]
      /\ shown[t] = <<>> /\ stdout = <<>> /\ progress[t] = Unread
    BY DEF WireInit
<1>4. ~StartIn(<<>>, t) /\ ~EndIn(<<>>, t) /\ Sorted(<<>>, t)
    BY DEF StartIn, EndIn, Sorted
<1>5. Line(<<>>, <<>>, <<>>, Unread, t)
    BY <1>4 DEF Line, Follows, Unread
<1> QED
    BY <1>2, <1>3, <1>4, <1>5 DEF Telling

LEMMA TellingStays ==
    ASSUME OneTurnASession, WireTypes, Accounted, InOrder, [WireNext]_wireVars,
           NEW t \in TurnCalls, Telling(t)
    PROVE  Telling(t)'
<1> USE WireAssumption
<1> DEFINE q == stream[t].queue
           idle(c) == c \in {"unmade", "idle"}
<1>0. /\ t \in Calls /\ TurnCalls \subseteq Calls
      /\ stdin \in Seq(Calls) /\ sent \in Seq(Calls) /\ stdout \in Seq(Frames)
      /\ call \in [Calls -> {"unmade", "idle", "writing", "waiting", "answered", "refused", "failed"}]
      /\ progress \in [TurnCalls -> 0..5] /\ progress[t] \in 0..5
      /\ memory \in SUBSET Writes
      /\ stream \in [TurnCalls -> Streams] /\ shown \in [TurnCalls -> Seq(Frames)]
    BY DEF Calls, WireTypes
<1>s. stream[t] \in Streams /\ q \in Seq(Frames) /\ shown[t] \in Seq(Frames)
    BY <1>0 DEF Streams
<1>o. Served(t) => Served(t)'
    BY <1>0, OrderStays
<1>1. ASSUME stream'[t] = stream[t], shown'[t] = shown[t], idle(call'[t]) <=> idle(call[t]),
             progress'[t] # Unread => progress[t] # Unread \/ Served(t)',
             Line(shown[t], q, stdout, progress[t], t) => Line(shown[t], q, stdout', progress'[t], t)
      PROVE  Telling(t)'
    BY <1>1, <1>o DEF Telling
<1>2. ASSUME stream'[t] = stream[t], shown'[t] = shown[t], idle(call'[t]) <=> idle(call[t]),
             progress'[t] = progress[t], stdout' = stdout
      PROVE  Telling(t)'
    BY <1>1, <1>2
<1>3. ASSUME NEW c \in Calls, Calling(c)
      PROVE  Telling(t)'
    <2>1. /\ UNCHANGED <<stdout, progress, shown>> /\ call[c] = "idle" /\ call'[c] = "writing"
          /\ \A d \in Calls : d # c => call'[d] = call[d]
        BY <1>0, <1>3 DEF Calling, serverVars
    <2>2. CASE c = t
        <3>1. stream'[t] = [stream[t] EXCEPT !.state = "open"]
            BY <1>0, <1>3, <2>2 DEF Calling, Opened
        <3>2. /\ stream'[t].state = "open" /\ stream'[t].turn = stream[t].turn
              /\ stream'[t].known = stream[t].known /\ stream'[t].queue = q
              /\ stream'[t].lagged = stream[t].lagged
            BY <1>s, <3>1 DEF Streams
        <3>3. stream[t].state = "unopened"
            BY <2>1, <2>2 DEF Telling
        <3> QED
            BY <1>o, <2>1, <2>2, <3>2, <3>3 DEF Telling
    <2>3. CASE c # t
        <3>1. stream'[t] = stream[t]
            BY <1>0, <1>3, <2>3 DEF Calling, Opened
        <3> QED
            BY <1>0, <1>2, <2>1, <2>3, <3>1
    <2> QED
        BY <2>2, <2>3
<1>4. ASSUME NEW c \in Calls, Written(c) \/ WriteFails(c)
      PROVE  Telling(t)'
    <2>1. UNCHANGED <<stream, shown, progress, stdout>> /\ (idle(call'[t]) <=> idle(call[t]))
        BY <1>0, <1>4 DEF Written, WriteFails, serverVars, streamVars
    <2> QED
        BY <1>2, <2>1
<1>5. CASE ReadsRequest
    <2>0. PICK c \in Calls : c = Head(stdin) /\ c = stdin[1] /\ Len(stdin) \in Nat \ {0}
        BY <1>0, <1>5, Shorter DEF ReadsRequest
    <2>1. UNCHANGED <<stream, shown, call>>
        BY <1>5 DEF ReadsRequest, streamVars, clientVars
    <2>2. CASE c \in TurnCalls
        <3>1. progress' = [progress EXCEPT ![c] = Unread + 1] /\ stdout' = stdout
            BY <1>5, <2>0, <2>2 DEF ReadsRequest
        <3>2. CASE c # t
            BY <1>0, <1>2, <2>1, <3>1, <3>2
        <3>3. CASE c = t
            <4>1. Len(sent) \in Nat /\ ReadSoFar >= 0
                BY <1>0, LenProperties DEF InOrder
            <4>2. Len(stdin') = Len(stdin) - 1 /\ sent' = sent
                BY <1>0, <1>5, Shorter DEF ReadsRequest
            <4>3. sent[ReadSoFar + 1] = t
                BY <2>0, <3>3 DEF InOrder
            <4>4. ReadSoFar + 1 \in 1..Len(sent) /\ ReadSoFar' = ReadSoFar + 1 /\ ReadSoFar \in Nat
                BY <2>0, <4>1, <4>2 DEF ReadSoFar
            <4>5. Served(t)'
                BY <4>2, <4>3, <4>4 DEF Served
            <4>6. ~Served(t)
                <5> SUFFICES ASSUME NEW k \in 1..ReadSoFar, sent[k] = t PROVE FALSE
                    BY DEF Served
                <5>1. k \in 1..Len(sent) /\ k # ReadSoFar + 1
                    BY <4>1, <4>4
                <5> QED
                    BY <4>3, <4>4, <5>1 DEF InOrder
            <4>7. progress[t] = Unread /\ progress'[t] = 1
                BY <1>0, <3>1, <3>3, <4>6 DEF Telling, Unread
            <4>8. Line(shown[t], q, stdout, progress[t], t) => Line(shown[t], q, stdout', progress'[t], t)
                BY <1>0, <1>s, <3>1, <4>7, LineGrows
            <4> QED
                BY <1>1, <2>1, <4>5, <4>8
        <3> QED
            BY <3>2, <3>3
    <2>3. CASE c \notin TurnCalls
        <3>1. PICK f \in Frames : stdout' = Append(stdout, f) /\ f.kind \in {"response", "error"}
            BY <1>0, <1>5, <2>0, <2>3, FrameFacts DEF ReadsRequest
        <3>2. ~IsStart(f, t) /\ ~IsEnd(f, t) /\ progress' = progress
            BY <1>5, <2>0, <2>3, <3>1 DEF ReadsRequest, IsStart, IsEnd
        <3>3. Line(shown[t], q, stdout, progress[t], t) => Line(shown[t], q, stdout', progress'[t], t)
            BY <1>0, <1>s, <3>1, <3>2, LineBesides
        <3> QED
            BY <1>1, <2>1, <3>2, <3>3
    <2> QED
        BY <2>2, <2>3
<1>6. ASSUME NEW u \in TurnCalls, TurnSends(u) \/ TurnRefused(u)
      PROVE  Telling(t)'
    <2> DEFINE len == Len(TurnFrames(u))
    <2>1. UNCHANGED <<stream, shown, call>> /\ progress[u] # Unread
        BY <1>6 DEF TurnSends, TurnRefused, streamVars, clientVars, Running
    <2>2. CASE TurnSends(u) /\ progress[u] <= len
        <3>1. progress[u] \in 1..len
            <4>1. progress[u] \in 1..5
                BY <1>0, <2>1 DEF Unread
            <4>2. len \in {2, 3}
                BY TurnFramesShape
            <4> QED
                BY <2>2, <4>1, <4>2
        <3>2. /\ stdout' = Append(stdout, TurnFrames(u)[progress[u]])
              /\ progress' = [progress EXCEPT ![u] = progress[u] + 1]
            BY <2>2 DEF TurnSends
        <3>3. CASE u = t
            <4>1. Line(shown[t], q, stdout, progress[t], t) => Line(shown[t], q, stdout', progress'[t], t)
                BY <1>0, <1>s, <3>1, <3>2, <3>3, LineGrows
            <4> QED
                BY <1>1, <2>1, <3>3, <4>1
        <3>4. CASE u # t
            <4>1. \A i \in 1..len :
                      /\ TurnFrames(u)[i] \in Frames
                      /\ \/ TurnFrames(u)[i] = [kind |-> "turnStarted", turn |-> u]
                         \/ TurnFrames(u)[i] = [kind |-> "turnCompleted", turn |-> u]
                         \/ TurnFrames(u)[i] = [kind |-> "graph"]
                BY TurnFramesShape
            <4>2. PICK f \in Frames : /\ stdout' = Append(stdout, f)
                                      /\ \/ f = [kind |-> "turnStarted", turn |-> u]
                                         \/ f = [kind |-> "turnCompleted", turn |-> u]
                                         \/ f = [kind |-> "graph"]
                BY <3>1, <3>2, <4>1
            <4>3. ~IsStart(f, t) /\ ~IsEnd(f, t) /\ progress'[t] = progress[t]
                BY <1>0, <3>2, <3>4, <4>2 DEF IsStart, IsEnd
            <4>4. Line(shown[t], q, stdout, progress[t], t) => Line(shown[t], q, stdout', progress'[t], t)
                BY <1>0, <1>s, <4>2, <4>3, LineBesides
            <4> QED
                BY <1>1, <2>1, <4>3, <4>4
        <3> QED
            BY <3>3, <3>4
    <2>3. CASE TurnRefused(u) \/ (TurnSends(u) /\ ~(progress[u] <= len))
        <3>1. /\ stdout' = Append(stdout, Refusal(u)) \/ stdout' = Append(stdout, Response(u, {}))
              /\ progress' = [progress EXCEPT ![u] = Done]
            BY <2>3 DEF TurnSends, TurnRefused
        <3>2. PICK f \in Frames : stdout' = Append(stdout, f) /\ f.kind \in {"response", "error"}
            BY <1>0, <3>1, FrameFacts
        <3>3. ~IsStart(f, t) /\ ~IsEnd(f, t) /\ stdout' \in Seq(Frames)
            BY <1>0, <3>2, Longer DEF IsStart, IsEnd
        <3>4. Line(shown[t], q, stdout, progress[t], t) => Line(shown[t], q, stdout', progress[t], t)
            BY <1>0, <1>s, <3>2, <3>3, LineBesides
        <3>5. Line(shown[t], q, stdout', progress[t], t) => Line(shown[t], q, stdout', Done, t)
            BY <1>0, <1>s, <3>3, LineGrows
        <3>6. progress'[t] = IF u = t THEN Done ELSE progress[t]
            BY <1>0, <3>1
        <3> QED
            BY <1>1, <2>1, <3>4, <3>5, <3>6
    <2> QED
        BY <1>6, <2>2, <2>3
<1>7. CASE Dies
    <2>1. /\ UNCHANGED <<stream, shown, call>>
          /\ progress'[t] = IF progress[t] = Unread THEN Unread ELSE Done
        BY <1>7 DEF Dies, streamVars, clientVars
    <2>2. PICK n \in 0..Len(stdout) : stdout' = SubSeq(stdout, 1, n)
        BY <1>7 DEF Dies
    <2>3. Line(shown[t], q, stdout, progress[t], t) => Line(shown[t], q, stdout', progress'[t], t)
        BY <1>0, <1>s, <2>1, <2>2, LineMoves
    <2> QED
        BY <1>1, <2>1, <2>3
<1>8. CASE ReadLoopEnds \/ ReadFails
    <2>1. UNCHANGED <<stream, shown, progress, stdout>> /\ (idle(call'[t]) <=> idle(call[t]))
        BY <1>0, <1>8 DEF ReadLoopEnds, ReadFails, AllTold, serverVars, streamVars
    <2> QED
        BY <1>2, <2>1
<1>9. CASE Accept
    <2>0. PICK f \in Frames : f = Head(stdout) /\ stdout' = Tail(stdout) /\ stdout # <<>>
        BY <1>0, <1>9, Shorter DEF Accept
    <2>1. UNCHANGED <<progress, shown>>
        BY <1>9 DEF Accept
    <2>2. CASE f.kind \in {"response", "error"}
        <3>1. stream' = stream
            BY <1>9, <2>0, <2>2 DEF Accept
        <3>2. idle(call'[t]) <=> idle(call[t])
            <4>1. CASE f.call \in pending
                <5>1. call' = [call EXCEPT ![f.call] = Answered(f)] /\ ~idle(Answered(f))
                    BY <1>9, <2>0, <2>2, <4>1 DEF Accept, Answered
                <5>2. t \in pending => ~idle(call[t])
                    BY <1>0 DEF Accounted
                <5> QED
                    BY <1>0, <4>1, <5>1, <5>2
            <4>2. CASE f.call \notin pending
                BY <1>9, <2>0, <2>2, <4>2 DEF Accept
            <4> QED
                BY <4>1, <4>2
        <3>3. ~IsStart(f, t) /\ ~IsEnd(f, t)
            BY <2>2 DEF IsStart, IsEnd
        <3>4. Line(shown[t], q, stdout, progress[t], t) => Line(shown[t], q, stdout', progress'[t], t)
            BY <1>0, <1>s, <2>0, <2>1, <3>3, LineBesides
        <3> QED
            BY <1>1, <2>1, <3>1, <3>2, <3>4
    <2>3. CASE f.kind \notin {"response", "error"}
        <3>1. stream' = Broadcast(f) /\ call' = call
            BY <1>9, <2>0, <2>3 DEF Accept
        <3>2. /\ stream'[t].state = stream[t].state /\ stream'[t].known = stream[t].known
              /\ stream'[t].turn = stream[t].turn /\ (stream[t].lagged => stream'[t].lagged)
              /\ stream[t].state # "open" => stream'[t] = stream[t]
              /\ stream[t].state = "open" /\ ~stream'[t].lagged => stream'[t].queue = Append(q, f)
            BY <2>0, <3>1, BroadcastType
        <3>3. CASE stream[t].state = "open"
            <4>1. Line(shown[t], q, stdout, progress[t], t) =>
                      Line(shown[t], Append(q, f), stdout', progress'[t], t)
                BY <1>0, <1>s, <2>0, <2>1, LineMoves
            <4> QED
                BY <1>o, <2>1, <3>1, <3>2, <3>3, <4>1 DEF Telling
        <3>4. CASE stream[t].state # "open"
            <4>0. stream'[t] = stream[t]
                BY <3>2, <3>4
            <4>1. ASSUME Line(shown[t], q, stdout, progress[t], t), stream[t].state = "unopened"
                  PROVE  Line(shown[t], q, stdout', progress'[t], t)
                <5>1. idle(call[t])
                    BY <4>1 DEF Telling
                <5>2. t \notin Range(sent)
                    BY <1>0, <5>1 DEF Accounted
                <5>3. ~Served(t)
                    <6> SUFFICES ASSUME NEW k \in 1..ReadSoFar, sent[k] = t PROVE FALSE
                        BY DEF Served
                    <6>1. Len(sent) \in Nat /\ Len(stdin) \in Nat
                        BY <1>0, LenProperties
                    <6>2. k \in 1..Len(sent)
                        BY <6>1 DEF ReadSoFar, InOrder
                    <6>3. Range(sent) = {sent[i] : i \in 1..Len(sent)}
                        BY <1>0 DEF Range
                    <6> QED
                        BY <5>2, <6>2, <6>3
                <5>4. progress[t] = Unread
                    BY <5>3 DEF Telling
                <5>5. ~StartIn(stdout, t) /\ ~EndIn(stdout, t)
                    <6>1. Unread \in Unread..Len(TurnFrames(t)) /\ Unread \in {Unread, 1}
                        <7>1. \A n \in {2, 3} : Unread \in Unread..n
                            BY DEF Unread
                        <7> QED
                            BY <7>1, TurnFramesShape
                    <6> QED
                        BY <4>1, <5>4, <6>1 DEF Line
                <5>6. ~IsStart(f, t) /\ ~IsEnd(f, t)
                    BY <1>0, <2>0, <5>5, TakenSteps
                <5> QED
                    BY <1>0, <1>s, <2>0, <2>1, <4>1, <5>6, LineBesides
            <4> QED
                BY <1>o, <2>1, <3>1, <3>4, <4>0, <4>1 DEF Telling
        <3> QED
            BY <3>3, <3>4
    <2> QED
        BY <2>2, <2>3
<1>10. ASSUME NEW u \in TurnCalls, ForwardsEvent(u)
       PROVE  Telling(t)'
    <2>0. UNCHANGED <<call, progress, stdout>>
        BY <1>10 DEF ForwardsEvent, serverVars, clientVars
    <2>1. CASE u # t
        <3>1. stream'[t] = stream[t] /\ shown'[t] = shown[t]
            BY <1>0, <1>10, <2>1 DEF ForwardsEvent, Sends
        <3> QED
            BY <1>2, <2>0, <3>1
    <2>2. CASE u = t
        <3>0. PICK f \in Frames : f = Head(q)
            BY <1>s, <1>10, <2>2, Shorter DEF ForwardsEvent
        <3>q. q # <<>> /\ stream[t].state = "open" /\ Tail(q) \in Seq(Frames)
            BY <1>s, <1>10, <2>2, Shorter DEF ForwardsEvent
        <3>1. CASE ~Belongs(f, t)
            <4>1. stream'[t] = [stream[t] EXCEPT !.queue = Tail(q)] /\ shown' = shown
                BY <1>0, <1>10, <2>2, <3>0, <3>1 DEF ForwardsEvent
            <4>2. /\ stream'[t].state = stream[t].state /\ stream'[t].known = stream[t].known
                  /\ stream'[t].turn = stream[t].turn /\ stream'[t].lagged = stream[t].lagged
                  /\ stream'[t].queue = Tail(q)
                BY <1>s, <4>1 DEF Streams
            <4>3. ~IsStart(f, t)
                BY <3>1 DEF Belongs, IsStart
            <4>4. Line(shown[t], q, stdout, progress[t], t) => ~IsEnd(f, t)
                <5> SUFFICES ASSUME Line(shown[t], q, stdout, progress[t], t), IsEnd(f, t) PROVE FALSE
                    OBVIOUS
                <5>1. /\ EndIn(q, t) /\ ~StartIn(Tail(q), t)
                      /\ StartIn(q, t) <=> StartIn(Tail(q), t) \/ IsStart(f, t)
                    BY <1>s, <3>0, <3>q, TakenSteps DEF Line
                <5>2. StartIn(shown[t], t)
                    BY <4>3, <5>1 DEF Line, Follows
                <5>3. stream[t].known /\ stream[t].turn = t
                    BY <5>2 DEF Telling
                <5> QED
                    BY <3>1, <5>3 DEF Belongs, IsEnd
            <4>5. Line(shown[t], q, stdout, progress[t], t) => Line(shown[t], Tail(q), stdout, progress[t], t)
                BY <1>0, <1>s, <3>0, <3>q, <4>3, <4>4, LineBesides
            <4> QED
                BY <1>o, <2>0, <4>1, <4>2, <4>5 DEF Telling
        <3>2. CASE Belongs(f, t)
            <4>1. /\ stream'[t] = [stream[t] EXCEPT
                         !.queue = Tail(q), !.known = TRUE,
                         !.turn = IF f.kind = "graph" THEN stream[t].turn ELSE f.turn,
                         !.state = IF f.kind = "turnCompleted" THEN "ended" ELSE stream[t].state]
                  /\ shown'[t] = Append(shown[t], f)
                BY <1>0, <1>10, <2>2, <3>0, <3>2 DEF ForwardsEvent, Sends
            <4>2. stream[t].turn = t
                BY DEF Telling
            <4>3. f.kind = "graph" \/ f.turn = t
                <5>1. f.kind = "turnStarted" => f.turn \in TurnCalls
                    BY FrameFacts
                <5>2. f.kind = "turnStarted" /\ SessionOf[f.turn] = SessionOf[t] => f.turn = t
                    BY <5>1 DEF OneTurnASession
                <5> QED
                    BY <3>2, <4>2, <5>2 DEF Belongs
            <4>4. /\ stream'[t].known /\ stream'[t].turn = t /\ stream'[t].lagged = stream[t].lagged
                  /\ stream'[t].queue = Tail(q) /\ stream'[t].state \in {"open", "ended"}
                BY <1>s, <3>q, <4>1, <4>2, <4>3 DEF Streams
            <4>5. Line(shown[t], q, stdout, progress[t], t) => Line(shown'[t], Tail(q), stdout, progress[t], t)
                BY <1>0, <1>s, <3>0, <3>q, <4>1, LineMoves
            <4>6. Line(shown'[t], Tail(q), stdout, progress[t], t) =>
                      /\ Sorted(shown'[t], t)
                      /\ EndIn(shown'[t], t) => StartIn(shown'[t], t)
                BY DEF Line, Follows
            <4>7. ASSUME NEW i \in 1..Len(shown'[t]), OfATurn(shown'[t][i])
                  PROVE  shown'[t][i].turn = t
                <5>1. /\ Len(shown'[t]) = Len(shown[t]) + 1 /\ Len(shown[t]) \in Nat
                      /\ shown'[t][Len(shown[t]) + 1] = f
                      /\ \A j \in 1..Len(shown[t]) : shown'[t][j] = shown[t][j]
                    BY <1>s, <4>1, Longer
                <5>2. CASE i \in 1..Len(shown[t])
                    BY <4>7, <5>1, <5>2 DEF Telling
                <5>3. CASE i = Len(shown[t]) + 1
                    BY <4>3, <4>7, <5>1, <5>3 DEF OfATurn
                <5> QED
                    BY <5>1, <5>2, <5>3
            <4>8. ~(call[t] \in {"unmade", "idle"})
                BY <3>q DEF Telling
            <4>9. stream'[t].state # "unopened"
                BY <4>4
            <4> QED
                BY <1>o, <2>0, <3>q, <4>4, <4>5, <4>6, <4>7, <4>8, <4>9 DEF Telling
        <3> QED
            BY <3>1, <3>2
    <2> QED
        BY <2>1, <2>2
<1>11. ASSUME NEW u \in TurnCalls, ForwardsAnswer(u)
       PROVE  Telling(t)'
    <2>0. UNCHANGED <<call, progress, stdout>>
        BY <1>11 DEF ForwardsAnswer, serverVars, clientVars
    <2>1. CASE u # t
        <3>1. stream'[t] = stream[t] /\ shown'[t] = shown[t]
            BY <1>0, <1>11, <2>1 DEF ForwardsAnswer, Sends
        <3> QED
            BY <1>2, <2>0, <3>1
    <2>2. CASE u = t /\ stream' = [stream EXCEPT ![t].answered = TRUE] /\ shown' = shown
        <3>1. stream'[t] = [stream[t] EXCEPT !.answered = TRUE]
            BY <1>0, <2>2
        <3>2. /\ stream'[t].state = stream[t].state /\ stream'[t].known = stream[t].known
              /\ stream'[t].turn = stream[t].turn /\ stream'[t].lagged = stream[t].lagged
              /\ stream'[t].queue = q
            BY <1>s, <3>1 DEF Streams
        <3> QED
            BY <1>o, <2>0, <2>2, <3>2 DEF Telling
    <2>3. CASE /\ u = t /\ stream' = [stream EXCEPT ![t].state = "ended"]
               /\ shown' = [shown EXCEPT ![t] = Append(@, [kind |-> "failure"])]
        <3> DEFINE f == [kind |-> "failure"]
        <3>1. stream'[t] = [stream[t] EXCEPT !.state = "ended"] /\ shown'[t] = Append(shown[t], f)
            BY <1>0, <2>3
        <3>2. /\ stream'[t].state = "ended" /\ stream'[t].known = stream[t].known
              /\ stream'[t].turn = stream[t].turn /\ stream'[t].lagged = stream[t].lagged
            BY <1>s, <3>1 DEF Streams
        <3>3. f \in Frames /\ ~IsStart(f, t) /\ ~IsEnd(f, t) /\ ~OfATurn(f)
            BY DEF Frames, IsStart, IsEnd, OfATurn
        <3> HIDE DEF f
        <3>4. /\ StartIn(shown'[t], t) <=> StartIn(shown[t], t)
              /\ EndIn(shown'[t], t) <=> EndIn(shown[t], t)
              /\ Sorted(shown[t], t) => Sorted(shown'[t], t)
            BY <1>s, <3>1, <3>3, GrownSteps
        <3>5. ASSUME NEW i \in 1..Len(shown'[t]), OfATurn(shown'[t][i])
              PROVE  shown'[t][i].turn = t
            <4>1. /\ Len(shown'[t]) = Len(shown[t]) + 1 /\ Len(shown[t]) \in Nat
                  /\ shown'[t][Len(shown[t]) + 1] = f
                  /\ \A j \in 1..Len(shown[t]) : shown'[t][j] = shown[t][j]
                BY <1>s, <3>1, <3>3, Longer
            <4>2. i \in 1..Len(shown[t])
                BY <3>3, <3>5, <4>1
            <4> QED
                BY <3>5, <4>1, <4>2 DEF Telling
        <3>6. call[t] \notin {"unmade", "idle"}
            BY <1>11, <2>3 DEF ForwardsAnswer
        <3> QED
            BY <1>o, <2>0, <3>2, <3>4, <3>5, <3>6 DEF Telling
    <2> QED
        BY <1>11, <2>1, <2>2, <2>3 DEF ForwardsAnswer, Sends
<1>12. ASSUME NEW u \in TurnCalls, BrowserLeaves(u)
       PROVE  Telling(t)'
    <2>0. UNCHANGED <<call, progress, stdout, shown>>
        BY <1>12 DEF BrowserLeaves, serverVars, clientVars
    <2>1. CASE u # t
        <3>1. stream'[t] = stream[t]
            BY <1>0, <1>12, <2>1 DEF BrowserLeaves
        <3> QED
            BY <1>2, <2>0, <3>1
    <2>2. CASE u = t
        <3>1. /\ stream'[t] = [stream[t] EXCEPT !.state = "left", !.queue = <<>>]
              /\ stream[t].state \in {"open", "ended"}
            BY <1>0, <1>12, <2>2 DEF BrowserLeaves
        <3>2. /\ stream'[t].state = "left" /\ stream'[t].known = stream[t].known
              /\ stream'[t].turn = stream[t].turn /\ stream'[t].lagged = stream[t].lagged
            BY <1>s, <3>1 DEF Streams
        <3> QED
            BY <1>o, <2>0, <3>1, <3>2 DEF Telling
    <2> QED
        BY <2>1, <2>2
<1>13. CASE Exits \/ HangsUp \/ UNCHANGED wireVars
    <2>1. UNCHANGED <<stream, shown, call, progress, stdout>>
        BY <1>13 DEF Exits, HangsUp, wireVars, serverVars, clientVars, streamVars
    <2> QED
        BY <1>2, <2>1
<1>14. ASSUME NEW u \in TurnCalls, BrowserReads(u)
       PROVE  Telling(t)'
    <2>1. UNCHANGED <<stream, shown, call, progress, stdout>>
        BY <1>14 DEF BrowserReads, serverVars, clientVars
    <2> QED
        BY <1>2, <2>1
<1> QED
    BY <1>3, <1>4, <1>5, <1>6, <1>7, <1>8, <1>9, <1>10, <1>11, <1>12, <1>13, <1>14
       DEF WireNext, ServerNext, ClientNext, World

\* Where every turn has a session of its own, a stream shows its own turn and
\* no other, from the start, in order and nothing twice, unless it lagged
\* (forward, belongs).
THEOREM StreamsAreTrue ==
    ASSUME OneTurnASession
    PROVE  WireSpec => []StreamsTellTheirTurn
<1> DEFINE AllTell == \A t \in TurnCalls : Telling(t)
<1>1. WireInit => Accounted /\ InOrder /\ AllTell
    BY AccountedAtTheStart, OrderAtTheStart, TellingAtTheStart
<1>2. WireTypes /\ Accounted /\ InOrder /\ AllTell /\ [WireNext]_wireVars =>
          (Accounted /\ InOrder /\ AllTell)'
    <2>1. WireTypes /\ Accounted /\ InOrder /\ AllTell /\ [WireNext]_wireVars => AllTell'
        BY TellingStays
    <2> QED
        BY <2>1, AccountedStays, OrderStays
<1>3. WireTypes /\ AllTell => StreamsTellTheirTurn
    <2> SUFFICES ASSUME WireTypes, NEW t \in TurnCalls, Telling(t), ~stream[t].lagged,
                        NEW j \in 1..Len(shown[t]), OfATurn(shown[t][j])
                 PROVE  /\ shown[t][j].turn = t
                        /\ IF shown[t][j].kind = "turnStarted"
                           THEN \A i \in 1..j - 1 : ~OfATurn(shown[t][i])
                           ELSE /\ \E i \in 1..j - 1 : shown[t][i].kind = "turnStarted"
                                /\ \A i \in 1..j - 1 : shown[t][i].kind # "turnCompleted"
        BY DEF StreamsTellTheirTurn
    <2>0. shown[t] \in Seq(Frames) /\ Len(shown[t]) \in Nat
        <3>1. shown[t] \in Seq(Frames)
            BY DEF WireTypes
        <3> QED
            BY <3>1, LenProperties
    <2>1. Sorted(shown[t], t) /\ (EndIn(shown[t], t) => StartIn(shown[t], t))
        BY DEF Telling
    <2>2. \A i \in 1..Len(shown[t]) : OfATurn(shown[t][i]) =>
              IsStart(shown[t][i], t) \/ IsEnd(shown[t][i], t)
        BY DEF Telling, OfATurn, IsStart, IsEnd
    <2>3. \A i \in 1..j - 1 : i \in 1..Len(shown[t]) /\ i < j
        BY <2>0
    <2>4. CASE IsStart(shown[t][j], t)
        <3>1. \A i \in 1..j - 1 : ~IsStart(shown[t][i], t) /\ ~IsEnd(shown[t][i], t)
            BY <2>1, <2>3, <2>4 DEF Sorted
        <3>2. \A i \in 1..j - 1 : ~OfATurn(shown[t][i])
            BY <2>2, <2>3, <3>1
        <3> QED
            BY <2>4, <3>2 DEF IsStart
    <2>5. CASE IsEnd(shown[t][j], t)
        <3>1. PICK i \in 1..Len(shown[t]) : IsStart(shown[t][i], t)
            BY <2>1, <2>5 DEF EndIn, StartIn
        <3>2. ~(j < i) /\ i # j
            BY <2>1, <2>5, <3>1 DEF Sorted, IsStart, IsEnd
        <3>3. i \in 1..j - 1
            BY <2>0, <3>2
        <3>4. \A k \in 1..j - 1 : ~IsEnd(shown[t][k], t)
            BY <2>1, <2>3, <2>5 DEF Sorted
        <3>5. \A k \in 1..j - 1 : shown[t][k].kind # "turnCompleted"
            BY <2>2, <2>3, <3>4 DEF OfATurn, IsStart
        <3> QED
            BY <2>5, <3>1, <3>3, <3>5 DEF IsStart, IsEnd
    <2> QED
        BY <2>2, <2>4, <2>5
<1> HIDE DEF AllTell
<1> QED
    BY <1>1, <1>2, <1>3, WireTypesHold, PTL DEF WireSpec

-----------------------------------------------------------------------------
(* The pool of the hub                                                     *)

\* A strict order of some entries.
Orders(order, entries) ==
    /\ order \subseteq entries \X entries
    /\ \A v : <<v, v>> \notin order
    /\ \A v, x, y : <<v, x>> \in order /\ <<x, y>> \in order => <<v, y>> \in order

\* Finitely many entries, ordered by their last use.
HubOrder == IsFiniteSet(pool) /\ spawns \in Nat /\ Orders(older, pool)

\* When an idle entry is left, as many were closed as had to be.
LEMMA EnoughAreEvicted ==
    ASSUME HubOrder, NEW u \in pool, IsIdle(u), u \notin Evicted
    PROVE  Cardinality(Evicted) >= Excess
<1> DEFINE left == {v \in pool : IsIdle(v) /\ v \notin Evicted}
           before == {IdleBefore(v) : v \in left}
<1>1. \A v \in pool : IdleBefore(v) \in FiniteSubsetsOf(pool)
    <2>1. \A v \in pool : IdleBefore(v) \in SUBSET pool
        BY DEF IdleBefore
    <2>2. \A s \in SUBSET pool : IsFiniteSet(s)
        BY FS_Subset DEF HubOrder
    <2> QED
        BY <2>1, <2>2 DEF FiniteSubsetsOf
<1>2. PICK least \in before : \A s \in before : <<s, least>> \notin StrictSubsetOrdering(pool)
    <2>1. before \subseteq FiniteSubsetsOf(pool) /\ before # {}
        BY <1>1
    <2>2. IsWellFoundedOn(StrictSubsetOrdering(pool), FiniteSubsetsOf(pool))
        BY FS_StrictSubsetOrderingWellFounded
    <2> HIDE DEF before
    <2> QED
        BY <2>1, <2>2, WFMin
<1>3. PICK first \in left : least = IdleBefore(first)
    OBVIOUS
<1>4. ASSUME NEW v \in IdleBefore(first), v \notin Evicted
      PROVE  FALSE
    <2>1. v \in left /\ v \in pool /\ first \in pool /\ <<v, first>> \in older
        BY <1>4 DEF IdleBefore
    <2>2. IdleBefore(v) \subseteq IdleBefore(first)
        <3> SUFFICES ASSUME NEW x \in IdleBefore(v) PROVE x \in IdleBefore(first)
            OBVIOUS
        <3>1. x \in pool /\ IsIdle(x) /\ <<x, v>> \in older
            BY DEF IdleBefore
        <3>2. <<x, first>> \in older
            BY <2>1, <3>1 DEF HubOrder, Orders
        <3> QED
            BY <3>1, <3>2 DEF IdleBefore
    <2>3. v \notin IdleBefore(v)
        BY <2>1 DEF IdleBefore, HubOrder, Orders
    <2>4. IdleBefore(v) # IdleBefore(first)
        BY <1>4, <2>3
    <2>5. IdleBefore(v) \in SUBSET pool /\ IdleBefore(first) \in SUBSET pool
        BY DEF IdleBefore
    <2>6. IdleBefore(v) \in before
        BY <2>1
    <2>7. <<IdleBefore(v), IdleBefore(first)>> \in StrictSubsetOrdering(pool)
        BY <2>2, <2>4, <2>5 DEF StrictSubsetOrdering
    <2> QED
        BY <1>2, <1>3, <2>6, <2>7
<1>5. IdleBefore(first) \subseteq Evicted
    BY <1>4
<1>6. IsFiniteSet(Evicted)
    <2>1. Evicted \in SUBSET pool
        BY DEF Evicted
    <2> QED
        BY <2>1, FS_Subset DEF HubOrder
<1>7. Cardinality(IdleBefore(first)) <= Cardinality(Evicted) /\ IsFiniteSet(IdleBefore(first))
    BY <1>5, <1>6, FS_Subset
<1>8. ~(Cardinality(IdleBefore(first)) < Excess)
    BY <1>3 DEF Evicted
<1>9. /\ Cardinality(pool) \in Nat /\ Cardinality(Evicted) \in Nat
      /\ Cardinality(IdleBefore(first)) \in Nat
    BY <1>6, <1>7, FS_CardinalityType DEF HubOrder
<1>10. Excess \in Int
    BY <1>9, HubAssumption DEF Excess
<1> QED
    BY <1>7, <1>8, <1>9, <1>10

LEMMA LatestIsLast ==
    ASSUME Orders(older, pool), NEW kept \in SUBSET pool, NEW u
    PROVE  Orders(Among(kept), kept) /\ Orders(Latest(kept, u), kept \cup {u})
<1>1. \A v, x : <<v, x>> \in older => v \in pool /\ x \in pool
    BY DEF Orders
<1>2. \A some \in SUBSET pool : Among(some) \subseteq some \X some
    BY DEF Among
<1>3. \A some \in SUBSET pool : \A v, x :
          <<v, x>> \in Among(some) <=> v \in some /\ x \in some /\ <<v, x>> \in older
    BY DEF Among
<1>4. Orders(Among(kept), kept)
    BY <1>2, <1>3 DEF Orders
<1>5. Latest(kept, u) \subseteq (kept \cup {u}) \X (kept \cup {u})
    BY <1>2 DEF Latest
<1>6. \A v, x : <<v, x>> \in Latest(kept, u) <=>
          v \in kept /\ v # u /\ (x = u \/ (x \in kept /\ x # u /\ <<v, x>> \in older))
    <2> DEFINE rest == kept \ {u}
    <2>1. \A v, x : <<v, x>> \in Among(rest) <=> v \in rest /\ x \in rest /\ <<v, x>> \in older
        BY <1>3
    <2>2. \A v, x : <<v, x>> \in rest \X {u} <=> v \in rest /\ x = u
        OBVIOUS
    <2> HIDE DEF rest
    <2>3. \A v, x : <<v, x>> \in Latest(kept, u) <=> <<v, x>> \in Among(rest) \/ <<v, x>> \in rest \X {u}
        BY DEF Latest, rest
    <2>4. \A v, x : <<v, x>> \in Latest(kept, u) <=>
              v \in rest /\ (x = u \/ (x \in rest /\ <<v, x>> \in older))
        BY <2>1, <2>2, <2>3
    <2> QED
        BY <2>4 DEF rest
<1>7. \A v : <<v, v>> \notin Latest(kept, u)
    BY <1>6 DEF Orders
<1>8. \A v, x, y : <<v, x>> \in Latest(kept, u) /\ <<x, y>> \in Latest(kept, u) => <<v, y>> \in Latest(kept, u)
    BY <1>6 DEF Orders
<1> QED
    BY <1>4, <1>5, <1>7, <1>8 DEF Orders

LEMMA HubOrderStays == HubOrder /\ [HubNext]_hubVars => HubOrder'
<1> SUFFICES ASSUME HubOrder, [HubNext]_hubVars PROVE HubOrder'
    OBVIOUS
<1>1. CASE UNCHANGED <<pool, older, spawns>>
    BY <1>1 DEF HubOrder
<1>2. ASSUME NEW r \in Requests, NEW u \in Users, Reuses(r, u)
      PROVE  HubOrder'
    <2>1. UNCHANGED <<pool, spawns>> /\ older' = Latest(pool, u) /\ pool \cup {u} = pool
        BY <1>2 DEF Reuses
    <2> QED
        BY <2>1, LatestIsLast DEF HubOrder
<1>3. ASSUME NEW r \in Requests, NEW u \in Users, Spawns(r, u)
      PROVE  HubOrder'
    <2>1. PICK kept \in SUBSET pool : \/ /\ pool' = kept \cup {u} /\ older' = Latest(kept, u)
                                         /\ spawns' = spawns + 1
                                      \/ /\ pool' = kept /\ older' = Among(kept) /\ spawns' = spawns
        BY <1>3 DEF Spawns
    <2>2. IsFiniteSet(kept) /\ IsFiniteSet(kept \cup {u})
        BY FS_Subset, FS_AddElement DEF HubOrder
    <2>3. Orders(Among(kept), kept) /\ Orders(Latest(kept, u), kept \cup {u})
        BY LatestIsLast DEF HubOrder
    <2>4. Orders(older', pool')
        <3>1. CASE pool' = kept /\ older' = Among(kept)
            BY <2>3, <3>1
        <3>2. CASE pool' = kept \cup {u} /\ older' = Latest(kept, u)
            BY <2>3, <3>2
        <3> QED
            BY <2>1, <3>1, <3>2
    <2>5. IsFiniteSet(pool')
        BY <2>1, <2>2
    <2>6. spawns' \in Nat
        <3>1. spawns \in Nat /\ spawns' \in {spawns, spawns + 1}
            BY <2>1 DEF HubOrder
        <3> QED
            BY <3>1
    <2> QED
        BY <2>4, <2>5, <2>6 DEF HubOrder
<1> QED
    <2>1. Serve \/ UNCHANGED hubVars => UNCHANGED <<pool, older, spawns>>
        BY DEF Serve, hubVars
    <2>2. \A r \in Requests : TurnedAway(r) \/ Finishes(r) => UNCHANGED <<pool, older, spawns>>
        BY DEF TurnedAway, Finishes
    <2>3. \A u \in Users : Ages(u) \/ ServerDies(u) => UNCHANGED <<pool, older, spawns>>
        BY DEF Ages, ServerDies
    <2> QED
        BY <1>1, <1>2, <1>3, <2>1, <2>2, <2>3 DEF HubNext, Authorized

\* No process is closed under a request that has a handle on it, and a pool
\* that grows over its limit keeps no process that is idle (Hub::client).
THEOREM InUseIsNeverClosed == HubSpec => PoolSparesWhatIsUsed
<1> DEFINE spares ==
        /\ pool' # pool => \A r \in Requests : holds[r] # 0 => holds[r] \notin Died
        /\ spawns' > spawns /\ Cardinality(pool') > MaxOpen => \A u \in pool \cap pool' : ~IsIdle(u)
<1>1. HubInit => HubOrder
    BY FS_EmptySet DEF HubInit, HubOrder, Orders
<1>2. HubOrder /\ [HubNext]_hubVars => HubOrder'
    BY HubOrderStays
<1>3. HubOrder /\ [HubNext]_hubVars => [spares]_hubVars
    <2> SUFFICES ASSUME HubOrder, HubNext PROVE spares
        OBVIOUS
    <2>1. CASE UNCHANGED <<pool, spawns>>
        BY <2>1 DEF HubOrder
    <2>2. ASSUME NEW r \in Requests, NEW u \in Users, Spawns(r, u)
          PROVE  spares
        <3> DEFINE closed == Evicted \cup Stale
                   kept == pool \ closed
        <3>1. \A v \in closed : v \in pool /\ IsIdle(v)
            BY DEF Evicted, Stale
        <3>2. Died \subseteq {instance[v] : v \in closed}
            BY <2>2 DEF Spawns, Died
        <3>3. \A s \in Requests : holds[s] \notin Died
            BY <3>1, <3>2 DEF IsIdle
        <3>4. u \notin pool
            BY <2>2 DEF Spawns
        <3>5. \/ pool' = kept \cup {u} /\ spawns' = spawns + 1
              \/ spawns' = spawns
            BY <2>2 DEF Spawns
        <3>6. ASSUME pool' = kept \cup {u}, Cardinality(pool') > MaxOpen, NEW v \in kept, IsIdle(v)
              PROVE  FALSE
            <4>1. /\ IsFiniteSet(kept) /\ IsFiniteSet(closed) /\ IsFiniteSet(Evicted)
                  /\ Cardinality(kept) = Cardinality(pool) - Cardinality(pool \cap closed)
                <5>1. closed \in SUBSET pool /\ Evicted \in SUBSET pool
                    BY <3>1
                <5>2. IsFiniteSet(closed) /\ IsFiniteSet(Evicted)
                    BY <5>1, FS_Subset DEF HubOrder
                <5>3. IsFiniteSet(kept) /\ Cardinality(kept) = Cardinality(pool) - Cardinality(pool \cap closed)
                    BY FS_Difference DEF HubOrder
                <5> QED
                    BY <5>2, <5>3
            <4>2. pool \cap closed = closed
                BY <3>1
            <4>3. Cardinality(Evicted) <= Cardinality(closed)
                BY <4>1, FS_Subset
            <4>4. Cardinality(kept \cup {u}) = Cardinality(kept) + 1
                BY <3>4, <4>1, FS_AddElement
            <4>5. v \in pool /\ v \notin Evicted
                OBVIOUS
            <4>6. Cardinality(Evicted) >= Excess
                BY <3>6, <4>5, EnoughAreEvicted
            <4>7. /\ Cardinality(pool) \in Nat /\ Cardinality(kept) \in Nat
                  /\ Cardinality(closed) \in Nat /\ Cardinality(Evicted) \in Nat /\ MaxOpen \in Nat
                BY <4>1, FS_CardinalityType, HubAssumption DEF HubOrder
            <4>8. /\ Cardinality(kept) + 1 > MaxOpen
                  /\ Cardinality(kept) = Cardinality(pool) - Cardinality(closed)
                  /\ Cardinality(Evicted) >= Cardinality(pool) + 1 - MaxOpen
                BY <3>6, <4>1, <4>2, <4>4, <4>6 DEF Excess
            <4> HIDE DEF closed, kept
            <4> QED
                BY <4>3, <4>7, <4>8
        <3>7. spawns' > spawns => pool' = kept \cup {u}
            BY <3>5 DEF HubOrder
        <3>8. pool' = kept \cup {u} => pool \cap pool' = kept
            BY <3>4
        <3> QED
            BY <3>3, <3>6, <3>7, <3>8
    <2>3. Serve => UNCHANGED <<pool, spawns>>
        BY DEF Serve
    <2>4. \A r \in Requests : TurnedAway(r) \/ Finishes(r) => UNCHANGED <<pool, spawns>>
        BY DEF TurnedAway, Finishes
    <2>5. \A u \in Users : Ages(u) \/ ServerDies(u) => UNCHANGED <<pool, spawns>>
        BY DEF Ages, ServerDies
    <2>6. \A r \in Requests, u \in Users : Reuses(r, u) => UNCHANGED <<pool, spawns>>
        BY DEF Reuses
    <2> QED
        BY <2>1, <2>2, <2>3, <2>4, <2>5, <2>6 DEF HubNext, Authorized
<1> QED
    BY <1>1, <1>2, <1>3, PTL DEF HubSpec, PoolSparesWhatIsUsed
=============================================================================
