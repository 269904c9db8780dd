------------------------------ MODULE Settings ------------------------------
(***************************************************************************)
(* The system settings with their cache (shared/settings_service.py,       *)
(* shared/settings_repository.py), the scan profiles                       *)
(* (shared/profile_repository.py), the requests that change both           *)
(* (api/settings_routes.py) and the seeding of both at startup.            *)
(*                                                                         *)
(* Each process that imports the service has a cache of its own.  The API  *)
(* registers its database and reads the cache synchronously only; the      *)
(* asynchronous reader, which would fill it, has one caller, the webhook   *)
(* of the watchdog, and the watchdog registers no database.                *)
(***************************************************************************)
EXTENDS FiniteSets, Naturals

CONSTANTS
    Keys,       \* the settings that are seeded
    Builtins,   \* the predefined profiles, their keys in PROFILES
    Customs,    \* ids of profiles users create
    Names,      \* profile names
    SeedName,   \* SeedName[b]: the name PROFILES gives b
    Updates,    \* PUT /settings requests
    Edits,      \* PUT and DELETE /profiles/{id} requests
    NoRow,      \* what a table holds for an absent row
    MaxSeeds    \* bound: starts of the API

ASSUME SettingsAssumption ==
    /\ Builtins \cap Customs = {}
    /\ SeedName \in [Builtins -> Names]
    /\ \A a, b \in Builtins : SeedName[a] = SeedName[b] => a = b
    /\ NoRow \notin Names
    /\ MaxSeeds \in Nat

Profiles == Builtins \cup Customs
Readers == {"api", "watchdog"}

VARIABLES
    setting,    \* setting[k]: system_settings, committed
    batch,      \* batch[u]: where update request u is
    keys,       \* keys[u]: the settings it has yet to write
    registered, \* the processes that have given the service a database
    cache,      \* cache[p]: the keys process p has cached
    posted,     \* whether the watchdog has looked for its webhook's URL
    profile,    \* profile[i]: the name in row i of custom_scan_profiles
    edit,       \* edit[e]: where edit request e is
    edited,     \* edited[e]: the profile it is for
    boot,       \* "down", "settings", "profiles", "up" or "broken"
    boots       \* how often the API was started

settingVars == <<setting, batch, keys, registered, cache, posted>>
profileVars == <<profile, edit, edited>>
settingsVars == <<settingVars, profileVars, boot, boots>>

SettingsTypeOK ==
    /\ setting \in [Keys -> {"default", "changed", NoRow}]
    /\ batch \in [Updates -> {"sent", "writing", "done", "lost"}]
    /\ keys \in [Updates -> SUBSET Keys]
    /\ registered \subseteq Readers
    /\ cache \in [Readers -> SUBSET Keys]
    /\ posted \in BOOLEAN
    /\ profile \in [Profiles -> Names \cup {NoRow}]
    /\ edit \in [Edits -> {"sent", "update", "delete", "done", "lost"}]
    /\ edited \in [Edits -> Profiles \cup {NoRow}]
    /\ boot \in {"down", "settings", "profiles", "up", "broken"}
    /\ boots \in 0 .. MaxSeeds

SettingsInit ==
    /\ setting = [k \in Keys |-> NoRow]
    /\ batch = [u \in Updates |-> "sent"]
    /\ keys = [u \in Updates |-> {}]
    /\ registered = {}
    /\ cache = [p \in Readers |-> {}]
    /\ posted = FALSE
    /\ profile = [i \in Profiles |-> NoRow]
    /\ edit = [e \in Edits |-> "sent"]
    /\ edited = [e \in Edits |-> NoRow]
    /\ boot = "down"
    /\ boots = 0

-----------------------------------------------------------------------------
(* Startup: _seed_data, after the migrations.                              *)

BootApi ==
    /\ boot = "down" /\ boots < MaxSeeds
    /\ boot' = "settings"
    /\ boots' = boots + 1
    /\ UNCHANGED <<settingVars, profileVars>>

\* Mutant: the seeds replace what is there.
SeedSettingsOver ==
    /\ boot = "settings"
    /\ setting' = [k \in Keys |-> "default"]
    /\ boot' = "profiles"
    /\ UNCHANGED <<batch, keys, registered, cache, posted, profileVars, boots>>

\* seed_defaults: inserts what is missing, one commit at the end.
SeedSettings ==
    /\ boot = "settings"
    /\ setting' = [k \in Keys |-> IF setting[k] = NoRow THEN "default" ELSE setting[k]]
    /\ boot' = "profiles"
    /\ UNCHANGED <<batch, keys, registered, cache, posted, profileVars, boots>>

\* The predefined profiles seed_builtin_profiles does not find by name.
Missing == {b \in Builtins : ~\E i \in Builtins : profile[i] = SeedName[b]}

Taken(n) == \E i \in Profiles : profile[i] = n

\* Its inserts: the id and the name are unique.
CanSeed(b) == profile[b] = NoRow /\ ~Taken(SeedName[b])

\* init_settings_service follows.
SeedProfiles ==
    /\ boot = "profiles"
    /\ \A b \in Missing : CanSeed(b)
    /\ profile' = [i \in Profiles |-> IF i \in Missing THEN SeedName[i] ELSE profile[i]]
    /\ registered' = registered \cup {"api"}
    /\ boot' = "up"
    /\ UNCHANGED <<setting, batch, keys, cache, posted, edit, edited, boots>>

\* IntegrityError out of the lifespan hook: the server does not start.
SeedProfilesFails ==
    /\ boot = "profiles"
    /\ \E b \in Missing : ~CanSeed(b)
    /\ boot' = "broken"
    /\ UNCHANGED <<settingVars, profileVars, boots>>

\* The API stops; its memory and the requests under way are gone.
StopApi ==
    /\ boot \in {"settings", "profiles", "up"}
    /\ boot' = "down"
    /\ registered' = registered \ {"api"}
    /\ cache' = [cache EXCEPT !["api"] = {}]
    /\ batch' = [u \in Updates |-> IF batch[u] = "writing" THEN "lost" ELSE batch[u]]
    /\ edit' = [e \in Edits |-> IF edit[e] \in {"update", "delete"} THEN "lost" ELSE edit[e]]
    /\ UNCHANGED <<setting, keys, posted, profile, edited, boots>>

-----------------------------------------------------------------------------
(* Settings.                                                               *)

\* update_settings: a batch of keys; one that does not exist updates no row.
SendUpdate(u) ==
    /\ boot = "up" /\ batch[u] = "sent"
    /\ batch' = [batch EXCEPT ![u] = "writing"]
    /\ \E K \in SUBSET Keys \ {{}} : keys' = [keys EXCEPT ![u] = K]
    /\ UNCHANGED <<setting, registered, cache, posted, profileVars, boot, boots>>

\* The statements of the batch and its commit, then invalidate_cache.
WriteBatch(u) ==
    /\ boot = "up" /\ batch[u] = "writing"
    /\ setting' = [k \in Keys |-> IF k \in keys[u] THEN "changed" ELSE setting[k]]
    /\ batch' = [batch EXCEPT ![u] = "done"]
    /\ cache' = [cache EXCEPT !["api"] = {}]
    /\ UNCHANGED <<keys, registered, posted, profileVars, boot, boots>>

\* get_setting: fills the cache of p, unless p has no database.
Load(p) ==
    cache' = IF p \in registered THEN [cache EXCEPT ![p] = Keys] ELSE cache

\* send_webhook_notification, in the watchdog.
PostWebhook ==
    /\ ~posted
    /\ posted' = TRUE
    /\ Load("watchdog")
    /\ UNCHANGED <<setting, batch, keys, registered, profileVars, boot, boots>>

\* get_setting_sync in the API: the caller's own default, if not cached.
ReadSync(k) == IF k \in cache["api"] THEN setting[k] ELSE "default"

-----------------------------------------------------------------------------
(* Profiles.                                                               *)

\* create_profile: 409 when the name is taken.
CreateProfile ==
    /\ boot = "up"
    /\ \E i \in Customs, n \in Names :
        /\ profile[i] = NoRow /\ ~Taken(n)
        /\ profile' = [profile EXCEPT ![i] = n]
    /\ UNCHANGED <<settingVars, edit, edited, boot, boots>>

\* update_profile, delete_profile: 404, and for delete 403 on a builtin one.
CheckEdit(e) ==
    /\ boot = "up" /\ edit[e] = "sent"
    /\ \E i \in Profiles :
        /\ profile[i] # NoRow
        /\ \/ edit' = [edit EXCEPT ![e] = "update"]
           \/ i \in Customs /\ edit' = [edit EXCEPT ![e] = "delete"]
        /\ edited' = [edited EXCEPT ![e] = i]
    /\ UNCHANGED <<settingVars, profile, boot, boots>>

\* UPDATE ... WHERE id: nothing if it was deleted; a taken name is refused.
UpdateProfile(e) ==
    /\ boot = "up" /\ edit[e] = "update"
    /\ \E n \in Names :
        profile' = IF profile[edited[e]] = NoRow \/ Taken(n)
                   THEN profile
                   ELSE [profile EXCEPT ![edited[e]] = n]
    /\ edit' = [edit EXCEPT ![e] = "done"]
    /\ UNCHANGED <<settingVars, edited, boot, boots>>

DeleteProfile(e) ==
    /\ boot = "up" /\ edit[e] = "delete"
    /\ profile' = [profile EXCEPT ![edited[e]] = NoRow]
    /\ edit' = [edit EXCEPT ![e] = "done"]
    /\ UNCHANGED <<settingVars, edited, boot, boots>>

SettingsNext ==
    \/ BootApi \/ SeedSettings \/ SeedProfiles \/ SeedProfilesFails \/ StopApi
    \/ \E u \in Updates : SendUpdate(u) \/ WriteBatch(u)
    \/ PostWebhook
    \/ CreateProfile
    \/ \E e \in Edits : CheckEdit(e) \/ UpdateProfile(e) \/ DeleteProfile(e)

SettingsSpec == SettingsInit /\ [][SettingsNext]_settingsVars

-----------------------------------------------------------------------------
(* seed_defaults, seed_builtin_profiles: "überspringt bereits vorhandene". *)
(* However often the API is started, and stopped half-way through, a start *)
(* takes back no change of a setting or of a profile's name.               *)
StartsKeepChanges ==
    [][boot' \in {"settings", "profiles", "up", "broken"} /\ boot' # boot =>
          /\ \A k \in Keys : setting[k] # NoRow => setting'[k] = setting[k]
          /\ \A i \in Profiles : profile[i] # NoRow => profile'[i] = profile[i]]_settingsVars

(* update_settings: "Cache invalidieren damit neue Werte sofort gelten".   *)
(* What the API reads of a setting is what was stored last.                *)
SettingsTakeEffect ==
    boot = "up" => \A k \in Keys : ReadSync(k) = setting[k]
=============================================================================
