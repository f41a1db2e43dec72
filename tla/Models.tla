------------------------------- MODULE Models -------------------------------
(***************************************************************************)
(* Which model a turn runs on: the profiles in models.json and the keys    *)
(* they point at (joyczl-config: models.rs, routes.rs), the methods that   *)
(* change them (joyczl-app-server: models.rs, dispatch.rs), and the choice *)
(* made for each turn (route.rs), with its cache of resolved profiles.     *)
(*                                                                         *)
(* The request loop serves these methods one by one; a turn runs beside it *)
(* and meets it in the locks of models, secrets and route_cache. A key is  *)
(* told apart by the vendor it was typed for and the request that brought  *)
(* it.                                                                     *)
(***************************************************************************)
EXTENDS Knobs

CONSTANTS
    Ids,         \* the names of profiles
    Routes,      \* model-routes.json: tier -> profile, Nothing where it has none
    Saves,       \* what model/save is asked: [id, vendor, url, credential, active]
    Turns,       \* the turns to come
    Vendors,     \* the vendors of the table that need a key
    Local,       \* a vendor of the table that needs none
    Unknown,     \* a vendor that is not in the table
    EnvKey,      \* the key in the environment
    MaxRequests, \* bound: model/save, model/remove and config requests
    MaxFaults,   \* bound: failing writes and crashes
    Nothing

Tiers == {"fast", "chat", "reasoning"}
Names == Vendors \cup {Local, Unknown}

ASSUME ModelsAssumption ==
    /\ MaxRequests \in Nat
    /\ Routes \in [Tiers -> Ids \cup {Nothing}]
    /\ Saves \subseteq [id : Ids, vendor : Names \cup {Nothing}, url : BOOLEAN,
                       credential : {"none", "env", "typed"}, active : BOOLEAN]

VARIABLES
    up,        \* "no", "yes", or "refused": the settings did not pass
    file,      \* models in memory: [active, profiles]
    disk,      \* models.json
    keychain,  \* id -> key, in the system's keychain
    vault,     \* id -> key, in secrets.json
    current,   \* the settings' vendor and key
    resolved,  \* what turns run on unless they are routed
    cache,     \* route_cache: id -> a resolved profile
    request,   \* what the request loop is at, and holds models.write() for
    secrets,   \* who holds the lock of the key store: "free", "loop" or a turn
    turn,      \* turn[t]: [at, id, got, base, used]; while it asks, id is the active one it read
    requests, faults,
    promised,  \* what was answered with success: [models, knobs]
    crossed,   \* the ids whose entry a save in flight or a failed write may have left behind
    cut        \* the files a failed write cut short: "models", "knobs"

modelVars == <<up, file, disk, keychain, vault, current, resolved, cache, request, secrets,
               turn, requests, faults, promised, crossed, cut, knobs, saved>>

Idle == [at |-> "idle"]
NoFile == [active |-> Nothing, profiles |-> [i \in Ids |-> Nothing]]
NoCache == [i \in Ids |-> Nothing]
Unstarted == [at |-> "new", id |-> Nothing, got |-> Nothing, base |-> Nothing, used |-> Nothing]

Fault == faults < MaxFaults /\ faults' = faults + 1
Sound == UNCHANGED faults

Init ==
    /\ up = "no"
    /\ file = NoFile /\ disk = NoFile
    /\ keychain = NoCache /\ vault = NoCache
    /\ current = [vendor |-> Local, key |-> Nothing]
    /\ resolved = Nothing /\ cache = NoCache
    /\ request = Idle /\ secrets = "free"
    /\ turn = [t \in Turns |-> Unstarted]
    /\ requests = 0 /\ faults = 0
    /\ knobs = FromEnv /\ saved = NoPatch
    /\ promised = [models |-> NoFile, knobs |-> FromEnv]
    /\ crossed = {} /\ cut = {}

-----------------------------------------------------------------------------
(* Profiles and keys                                                       *)

Known(vendor) == vendor \in Vendors \cup {Local}

Has(models, id) == id \in Ids /\ models.profiles[id] # Nothing

\* validate_provider: in the table, or given with an endpoint of its own.
ValidProvider(vendor, url) == Known(vendor) \/ url

\* provider::resolve: a vendor of the table, and a key where it needs one.
Resolve(s) ==
    IF s.vendor = Local \/ (s.vendor \in Vendors /\ s.key # Nothing) THEN s ELSE Nothing

\* run_limited: a command of the keychain answers, or it is missing, fails, or is killed after
\* five seconds. Nothing tells these apart, and none of them is rare.
KeychainAnswers == BOOLEAN

\* secrets.json is read and written as a whole, in place: a failed write leaves it as it was,
\* or cut short, and that reads as no keys at all.
SaveVault(keys, done) ==
    \/ done /\ vault' = keys /\ UNCHANGED crossed
    \/ ~done /\ UNCHANGED <<vault, crossed>>
    \/ ~done /\ vault' = NoCache /\ crossed' = Ids

VaultWith(id, key) == [vault EXCEPT ![id] = key]

\* SecretStore::put: the keychain, and the file when that fails; it says which it was.
Put(id, key, where) ==
    \/ where = "keychain"
       /\ keychain' = [keychain EXCEPT ![id] = key] /\ UNCHANGED <<vault, crossed>>
    \/ where = "file"
       /\ SaveVault(VaultWith(id, key), TRUE) /\ UNCHANGED keychain

\* SecretStore::get: the keychain first; one that does not answer has nothing.
InStore(id, answers) == IF answers /\ keychain[id] # Nothing THEN keychain[id] ELSE vault[id]

\* resolve_key: what the pointer says is only whether to ask the environment or the store.
KeysOf(models, id, answers) ==
    LET pointer == models.profiles[id].pointer
    IN  CASE pointer = "none" -> Nothing
          [] pointer = "env"  -> EnvKey
          [] OTHER -> InStore(id, answers)

\* apply_profile
Applied(models, id, answers) ==
    [vendor |-> models.profiles[id].vendor, key |-> KeysOf(models, id, answers)]

\* apply_active: with no profile active the settings stay what they were.
AppliedActive(models, answers, otherwise) ==
    IF Has(models, models.active) THEN Applied(models, models.active, answers) ELSE otherwise

\* upsert: a profile without a pointer keeps the one it had.
Upserted(models, id, vendor, pointer, active) ==
    LET old == models.profiles[id]
        kept == IF pointer # "none" \/ old = Nothing THEN pointer ELSE old.pointer
    IN  [active   |-> IF active THEN id ELSE models.active,
         profiles |-> [models.profiles EXCEPT ![id] = [vendor |-> vendor, pointer |-> kept]]]

\* remove: the active one leaves no dangling pointer.
Removed(models, id) ==
    [active   |-> IF models.active = id THEN Nothing ELSE models.active,
     profiles |-> [models.profiles EXCEPT ![id] = Nothing]]

\* std::fs::write in place: a failed one leaves the old content, or none.
SaveModels(models, done) ==
    \/ done /\ disk' = models /\ cut' = cut \ {"models"}
    \/ ~done /\ UNCHANGED <<disk, cut>>
    \/ ~done /\ disk' = NoFile /\ cut' = cut \cup {"models"}

-----------------------------------------------------------------------------
(* The request loop                                                        *)

Serving == up = "yes" /\ request = Idle /\ requests < MaxRequests

\* Turns past the point where they read models: what they insert may be old.
Resolving == {t \in Turns : turn[t].at \in {"key", "get", "insert"}}
Crosses(id) == IF \E t \in Resolving : turn[t].id = id THEN {id} ELSE {}

\* model/save, up to the lock: the vendor may be left out for a profile that exists.
Save(id, vendor, url, credential, active) ==
    LET keeps == vendor = Nothing
        meant == IF keeps THEN file.profiles[id].vendor ELSE vendor
    IN  /\ Serving
        /\ keeps => Has(file, id)
        /\ ValidProvider(meant, url)
        /\ request' = [at |-> "store", kind |-> "save", id |-> id, vendor |-> meant,
                       credential |-> credential, active |-> active]
        /\ requests' = requests + 1
        /\ crossed' = crossed \cup Crosses(id)
        /\ UNCHANGED <<up, file, disk, keychain, vault, current, resolved, cache, secrets,
                       turn, faults, promised, cut, knobs, saved>>

\* A typed key goes to the keychain, and to the file when that fails or is too slow.
\* When the file cannot be written either, the request fails.
StoreKey ==
    /\ request.at = "store" /\ secrets = "free"
    /\ LET key == [vendor |-> request.vendor, at |-> requests]
           stored(where) == [request EXCEPT !.at = "write", !.credential = where]
       IN  \/ /\ request.credential # "typed"
              /\ request' = [request EXCEPT !.at = "write"]
              /\ Sound /\ UNCHANGED <<keychain, vault, crossed>>
           \/ /\ request.credential = "typed" /\ Sound
              /\ \E where \in {"keychain", "file"} :
                   Put(request.id, key, where) /\ request' = stored(where)
           \/ /\ request.credential = "typed" /\ Fault
              /\ SaveVault(VaultWith(request.id, key), FALSE)
              /\ request' = Idle /\ UNCHANGED keychain
    /\ UNCHANGED <<up, file, disk, current, resolved, cache, secrets, turn, requests,
                   promised, cut, knobs, saved>>

\* The profile is changed in memory, then written. A failed write is answered with an
\* error, and the change in memory stays.
WriteProfile ==
    LET new == Upserted(file, request.id, request.vendor, request.credential, request.active)
    IN  /\ request.at = "write" /\ request.kind = "save"
        /\ file' = new
        /\ \/ SaveModels(new, TRUE) /\ Sound
              /\ request' = [request EXCEPT !.at = "apply"] /\ UNCHANGED crossed
           \/ SaveModels(new, FALSE) /\ Fault
              /\ request' = Idle /\ crossed' = crossed \cup {request.id}
        /\ UNCHANGED <<up, keychain, vault, current, resolved, cache, secrets, turn, requests,
                       promised, knobs, saved>>

\* model/remove of a profile that exists.
RemoveModel(id) ==
    /\ Serving /\ Has(file, id)
    /\ file' = Removed(file, id)
    /\ request' = [at |-> "forget", kind |-> "remove", id |-> id]
    /\ requests' = requests + 1
    /\ crossed' = crossed \cup Crosses(id)
    /\ UNCHANGED <<up, disk, keychain, vault, current, resolved, cache, secrets, turn, faults,
                   promised, cut, knobs, saved>>

\* SecretStore::remove: from the keychain, if it answers, and from the file, if it is there.
\* That its write failed is not told.
Forget(id) ==
    /\ \E answers \in KeychainAnswers :
        keychain' = [keychain EXCEPT ![id] = IF answers THEN Nothing ELSE @]
    /\ \/ SaveVault(VaultWith(id, Nothing), TRUE) /\ Sound
       \/ vault[id] # Nothing /\ SaveVault(VaultWith(id, Nothing), FALSE) /\ Fault

\* The key is removed and the lock is still held when reapply asks for it.
ForgetKeyHolding ==
    /\ request.at = "forget" /\ secrets = "free"
    /\ Forget(request.id)
    /\ secrets' = "loop"
    /\ request' = [request EXCEPT !.at = "write"]
    /\ UNCHANGED <<up, file, disk, current, resolved, cache, turn, requests, promised,
                   cut, knobs, saved>>

\* Its key goes too. The lock is let go before reapply asks for it again.
ForgetKey ==
    /\ request.at = "forget" /\ secrets = "free"
    /\ Forget(request.id)
    /\ request' = [request EXCEPT !.at = "write"]
    /\ UNCHANGED <<up, file, disk, current, resolved, cache, secrets, turn, requests,
                   promised, cut, knobs, saved>>

\* A write that fails is not told: the file keeps the profile, or loses them all.
WriteRemoval ==
    /\ request.at = "write" /\ request.kind = "remove"
    /\ \/ SaveModels(file, TRUE) /\ Sound
       \/ SaveModels(file, FALSE) /\ Fault
    /\ request' = [request EXCEPT !.at = "apply"]
    /\ UNCHANGED <<up, file, keychain, vault, current, resolved, cache, secrets, turn,
                   requests, promised, crossed, knobs, saved>>

\* reapply: the active profile into the settings, and resolved again.
Reapply ==
    /\ request.at = "apply" /\ secrets = "free"
    /\ \E answers \in KeychainAnswers : current' = AppliedActive(file, answers, current)
    /\ resolved' = Resolve(current')
    /\ request' = [request EXCEPT !.at = "clear"]
    /\ UNCHANGED <<up, file, disk, keychain, vault, cache, secrets, turn, requests, faults,
                   promised, crossed, cut, knobs, saved>>

\* The end of reapply, with the entries of before left in the cache.
ClearNothing ==
    /\ request.at = "clear"
    /\ crossed' = {i \in crossed : Crosses(i) # {}}
    /\ promised' = [promised EXCEPT !.models = IF request.kind = "save" THEN file ELSE disk]
    /\ request' = Idle
    /\ UNCHANGED <<up, file, disk, keychain, vault, current, resolved, cache, secrets, turn,
                   requests, faults, cut, knobs, saved>>

\* The end of reapply, and the answer. Resolutions that crossed the change still insert.
ClearCache ==
    /\ request.at = "clear"
    /\ cache' = NoCache
    /\ crossed' = {i \in crossed : Crosses(i) # {}}
    /\ promised' = [promised EXCEPT !.models = IF request.kind = "save" THEN file ELSE disk]
    /\ request' = Idle
    /\ UNCHANGED <<up, file, disk, keychain, vault, current, resolved, secrets, turn,
                   requests, faults, cut, knobs, saved>>

\* apply_config_patch: by config/write, or for a command a person said to remember.
Configure(patch) ==
    /\ Serving /\ ValidPatch(patch) /\ patch # NoPatch
    /\ \/ /\ WritePatch(patch, TRUE) /\ Sound
          /\ resolved' = Resolve(current)
          /\ promised' = [promised EXCEPT !.knobs = knobs']
          /\ UNCHANGED cut
       \/ /\ WritePatch(patch, FALSE) /\ Fault
          /\ cut' = IF saved' = saved THEN cut ELSE cut \cup {"knobs"}
          /\ UNCHANGED <<resolved, promised>>
    /\ requests' = requests + 1
    /\ UNCHANGED <<up, file, disk, keychain, vault, current, cache, request, secrets, turn,
                   crossed>>

ConfigWrite == \E patch \in Patches : Configure(patch)
Remember == \E c \in Commands \ knobs.rules : Configure(Remembering(c))

-----------------------------------------------------------------------------
(* Starting and stopping                                                   *)

\* open and boot: the saved patch over the environment, refused when that is not valid;
\* then the active profile over the settings.
Boot ==
    /\ up = "no"
    /\ knobs' = Overlaid(saved)
    /\ IF ValidSettings(knobs')
       THEN /\ up' = "yes" /\ file' = disk
            /\ \E answers \in KeychainAnswers :
                current' = AppliedActive(disk, answers, [vendor |-> Local, key |-> Nothing])
            /\ resolved' = Resolve(current')
       ELSE up' = "refused" /\ UNCHANGED <<file, current, resolved>>
    /\ UNCHANGED <<disk, keychain, vault, cache, request, secrets, turn, requests, faults,
                   promised, crossed, cut, saved>>

\* What a file holds when the process dies while it may be writing it.
Torn(content, empty, writing) == IF writing THEN {content, empty} ELSE {content}

\* The process dies. What it had written but not answered yet counts.
Crash ==
    /\ up = "yes" /\ Fault
    /\ up' = "no"
    /\ request' = Idle /\ secrets' = "free" /\ cache' = NoCache /\ crossed' = {}
    /\ turn' = [t \in Turns |-> IF turn[t].at = "new" THEN turn[t]
                                                      ELSE [Unstarted EXCEPT !.at = "gone"]]
    /\ promised' = IF request.at \in {"apply", "clear"} THEN [promised EXCEPT !.models = disk]
                                                       ELSE promised
    /\ disk' \in Torn(disk, NoFile, request.at = "write")
    /\ cut' = IF disk' = disk THEN cut ELSE cut \cup {"models"}
    /\ vault' \in Torn(vault, NoCache, request.at \in {"store", "forget"})
    /\ UNCHANGED <<file, keychain, current, resolved, requests, knobs, saved>>

-----------------------------------------------------------------------------
(* A turn chooses its model                                                *)

Goto(t, at) == turn' = [turn EXCEPT ![t] = [@ EXCEPT !.at = at]]
RunOn(t, model) == turn' = [turn EXCEPT ![t] = [Unstarted EXCEPT !.at = "run", !.used = model]]
TurnOnly == UNCHANGED <<up, file, disk, keychain, vault, current, resolved, request, requests,
                        promised, crossed, cut, knobs, saved>>

\* The lock of models is the request loop's from a save's or removal's first step to its last.
ModelsFree == request = Idle

\* pick_tier: a message of half the window or more reasons, one well below it is a chat.
PickedTiers == {"chat", "reasoning"}

\* profile_for_tier: reasoning and fast fall back to chat, chat to the active profile.
ProfileFor(tier, active) ==
    LET chat == IF Routes["chat"] # Nothing THEN Routes["chat"] ELSE active
    IN  IF tier # "chat" /\ Routes[tier] # Nothing THEN Routes[tier] ELSE chat

\* run_turn takes what is resolved; with nothing it answers with an error.
StartTurn(t) ==
    /\ up = "yes" /\ turn[t].at = "new"
    /\ turn' = [turn EXCEPT ![t] = [@ EXCEPT !.at = IF resolved = Nothing THEN "refused" ELSE "route",
                                            !.base = resolved]]
    /\ TurnOnly /\ UNCHANGED <<cache, secrets, faults>>

\* The active profile, or none at all, is what the turn has already.
Decide(t, tier, active) ==
    LET id == ProfileFor(tier, active)
    IN  IF id \in {Nothing, active}
        THEN RunOn(t, turn[t].base)
        ELSE turn' = [turn EXCEPT ![t] = [@ EXCEPT !.at = "look", !.id = id]]

\* resolved_for_turn: the name of the active profile is read, and the lock let go; a message
\* in between waits for the cheap model's word.
Route(t) ==
    /\ turn[t].at = "route" /\ ModelsFree
    /\ \/ \E tier \in PickedTiers : Decide(t, tier, file.active)
       \/ turn' = [turn EXCEPT ![t] = [@ EXCEPT !.at = "ask", !.id = file.active]]
    /\ TurnOnly /\ UNCHANGED <<cache, secrets, faults>>

\* classify_tier: its word, whatever was saved meanwhile; a failure or an unclear answer
\* leaves it a chat.
Classify(t) ==
    /\ turn[t].at = "ask"
    /\ \E tier \in {"chat", "reasoning"} : Decide(t, tier, turn[t].id)
    /\ TurnOnly /\ UNCHANGED <<cache, secrets, faults>>

\* resolved_profile: a hit is the answer.
Look(t) ==
    /\ turn[t].at = "look"
    /\ LET hit == cache[turn[t].id]
       IN  IF hit # Nothing THEN RunOn(t, hit) ELSE Goto(t, "find")
    /\ TurnOnly /\ UNCHANGED <<cache, secrets, faults>>

\* A copy of the models; a profile that is not there makes the turn fall back.
FindProfile(t) ==
    /\ turn[t].at = "find" /\ ModelsFree
    /\ IF Has(file, turn[t].id)
       THEN turn' = [turn EXCEPT ![t] = [@ EXCEPT !.at = "key",
                                                  !.got = file.profiles[turn[t].id]]]
       ELSE RunOn(t, turn[t].base)
    /\ TurnOnly /\ UNCHANGED <<cache, secrets, faults>>

TakeSecrets(t) ==
    /\ turn[t].at = "key" /\ secrets = "free"
    /\ secrets' = t
    /\ Goto(t, "get")
    /\ TurnOnly /\ UNCHANGED <<cache, faults>>

\* The key, by the copy of the profile; what does not resolve makes the turn fall back.
FetchKey(t) ==
    LET copy == [active |-> Nothing, profiles |-> [i \in Ids |-> turn[t].got]]
    IN  /\ turn[t].at = "get"
        /\ \E answers \in KeychainAnswers :
            LET got == Resolve(Applied(copy, turn[t].id, answers))
            IN  IF got = Nothing
                THEN RunOn(t, turn[t].base)
                ELSE turn' = [turn EXCEPT ![t] = [@ EXCEPT !.at = "insert", !.got = got]]
        /\ secrets' = "free"
        /\ TurnOnly /\ UNCHANGED <<cache, faults>>

\* Kept for the turns to come, whatever was changed since the copy was made.
InsertCache(t) ==
    /\ turn[t].at = "insert"
    /\ cache' = [cache EXCEPT ![turn[t].id] = turn[t].got]
    /\ RunOn(t, turn[t].got)
    /\ TurnOnly /\ UNCHANGED <<secrets, faults>>

-----------------------------------------------------------------------------
\* What the console sends: /model use names a profile, /model add describes one.
Ask(id, vendor, url, credential, active) ==
    [id |-> id, vendor |-> vendor, url |-> url, credential |-> credential, active |-> active]
UseProfile(id) == Ask(id, Nothing, FALSE, "none", TRUE)
AddProfile(id, vendor, url, credential) == Ask(id, vendor, url, credential, TRUE)

SaveSome == \E s \in Saves : Save(s.id, s.vendor, s.url, s.credential, s.active)

Loop == StoreKey \/ WriteProfile \/ ForgetKey \/ WriteRemoval \/ Reapply \/ ClearCache
Choose(t) == Route(t) \/ Classify(t) \/ Look(t) \/ FindProfile(t) \/ TakeSecrets(t) \/ FetchKey(t)
                      \/ InsertCache(t)

Next ==
    \/ SaveSome \/ (\E id \in Ids : RemoveModel(id)) \/ ConfigWrite \/ Remember
    \/ Loop \/ Boot \/ Crash
    \/ \E t \in Turns : StartTurn(t) \/ Choose(t)

Spec == Init /\ [][Next]_modelVars

\* The threads of the loop and of the turns run; the commands of the keychain and the calls of
\* a model have a timeout.
FairSpec == Spec /\ WF_modelVars(Loop) /\ \A t \in Turns : WF_modelVars(Choose(t))

-----------------------------------------------------------------------------
Key == [vendor : Names, at : 1..MaxRequests]
Pointers == {"none", "env", "keychain", "file"}
Profile == [vendor : Names, pointer : Pointers]
ModelsFile == [active : Ids \cup {Nothing}, profiles : [Ids -> Profile \cup {Nothing}]]
Settings == [vendor : Names, key : Key \cup {Nothing, EnvKey}]
Resolution == [vendor : Vendors \cup {Local}, key : Key \cup {Nothing, EnvKey}]

Request ==
    {Idle} \cup
    [at : {"store", "write", "apply", "clear"}, kind : {"save"}, id : Ids, vendor : Names,
     credential : Pointers \cup {"typed"}, active : BOOLEAN] \cup
    [at : {"forget", "write", "apply", "clear"}, kind : {"remove"}, id : Ids]

Turn ==
    [at : {"new", "refused", "route", "ask", "look", "find", "key", "get", "insert", "run", "gone"},
     id : Ids \cup {Nothing}, got : Profile \cup Resolution \cup {Nothing},
     base : Resolution \cup {Nothing}, used : Resolution \cup {Nothing}]

\* The shape of the state.
ModelsTypeOK ==
    /\ KnobsTypeOK
    /\ up \in {"no", "yes", "refused"}
    /\ file \in ModelsFile /\ disk \in ModelsFile
    /\ keychain \in [Ids -> Key \cup {Nothing}] /\ vault \in [Ids -> Key \cup {Nothing}]
    /\ current \in Settings
    /\ resolved \in Resolution \cup {Nothing}
    /\ cache \in [Ids -> Resolution \cup {Nothing}]
    /\ request \in Request
    /\ secrets \in {"free", "loop"} \cup Turns
    /\ turn \in [Turns -> Turn]
    /\ requests \in 0..MaxRequests
    /\ promised \in [models : ModelsFile, knobs : Parameters]
    /\ cut \subseteq {"models", "knobs"} /\ crossed \subseteq Ids

\* What a save, a removal or a config/write was told to have done is there after the next
\* start: the files hold it, with all that was written before, unless a write that failed
\* cut one of them short. The table of commands is covered once it is in the file at all.
AnswersOutliveRestarts ==
    request = Idle =>
        /\ "models" \notin cut => disk = promised.models
        /\ "knobs" \notin cut => /\ Overlaid(saved).tokens = promised.knobs.tokens
                                 /\ saved.rules # Absent => saved.rules = promised.knobs.rules

\* What config/write and remembered commands are let through with adds up to a file the next
\* start takes, but for an answer the window has no room for: only a start looks at that.
AcceptedConfigBoots ==
    up = "refused" =>
        Window # 0 /\ knobs.tokens >= Window /\ InBounds(knobs.tokens) /\ GoodRules(knobs.rules)

\* A cached profile is what resolving it now would give, from one of the places its key may
\* be in: no save or removal leaves an entry behind, unless a turn was resolving that profile
\* while it was changed, or a write of the profiles or of the keys failed.
CalmCacheIsFresh ==
    up = "yes" /\ request = Idle =>
        \A id \in Ids \ crossed : cache[id] # Nothing =>
            /\ Has(file, id)
            /\ \E answers \in KeychainAnswers : cache[id] = Resolve(Applied(file, id, answers))

\* No lock order makes the loop and the turns wait for one another: a request is answered,
\* and a turn that has a model to start from gets to run on one.
ChoosingEnds ==
    /\ request # Idle ~> request = Idle
    /\ \A t \in Turns : turn[t].at = "route" ~> turn[t].at \in {"run", "gone"}

\* configuration.md: a remembered command goes to the table of settings.json and runs without
\* asking from the next start on. Whatever table was answered for is the one a start finds.
RememberedCommandsLast ==
    "knobs" \notin cut => Overlaid(saved).rules = promised.knobs.rules

=============================================================================
