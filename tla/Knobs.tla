-------------------------------- MODULE Knobs --------------------------------
(***************************************************************************)
(* The running parameters (joyczl-config: lib.rs): the environment, over   *)
(* it the patch that config/write accumulates in settings.json, and the    *)
(* rules the two ends share: a value out of its bounds stops a start, and  *)
(* is refused in a patch.                                                  *)
(*                                                                         *)
(* Of the ten fields of a patch two stand for the rest: a number with      *)
(* bounds, and the table of commands that may run, which "remember this    *)
(* command" replaces as a whole.                                           *)
(***************************************************************************)
EXTENDS Naturals, FiniteSets

CONSTANTS
    EnvTokens,  \* JOY_MAX_TOKENS, or the default
    Window,     \* JOY_CONTEXT_WINDOW; 0: not set
    Asked,      \* the numbers a client asks for
    Commands,   \* the commands a person may be asked about
    Broken,     \* those that make no rule: empty, two lines, too long
    MaxRules,   \* MAX_EXEC_RULES
    Absent      \* a field the patch does not carry

\* The row of BOUNDS for the number.
Low == 1
High == 3

ASSUME KnobsAssumption ==
    EnvTokens \in Low..High /\ Window \in Nat /\ Broken \subseteq Commands /\ MaxRules \in Nat

VARIABLES
    knobs,  \* the settings in memory: [tokens, rules]
    saved   \* the patch in settings.json

knobVars == <<knobs, saved>>

NoPatch == [tokens |-> Absent, rules |-> Absent]

\* Settings::from_env. A number that does not parse is the default.
FromEnv == [tokens |-> EnvTokens, rules |-> {}]

\* apply_patch: only the fields the patch carries have a say.
ApplyPatch(patch, base) ==
    [f \in {"tokens", "rules"} |-> IF patch[f] = Absent THEN base[f] ELSE patch[f]]

\* Only the last patch is saved.
ForgetOlder(old, newer) == newer

\* SettingsPatch::merge_newer: the saved patch is the ground of the new one.
MergeNewer(old, newer) == ApplyPatch(newer, old)

InBounds(n) == n \in Low..High

GoodRules(rules) == Cardinality(rules) <= MaxRules /\ rules \cap Broken = {}

\* Only the table of commands is looked at.
ValidRulesOnly(patch) == patch.rules # Absent => GoodRules(patch.rules)

\* validate_patch_values: what config/write looks at. Only what it carries.
ValidPatch(patch) ==
    /\ patch.tokens # Absent => InBounds(patch.tokens)
    /\ patch.rules # Absent => GoodRules(patch.rules)

\* Settings::validate: what a start looks at. The answer must fit the window.
ValidSettings(s) ==
    /\ InBounds(s.tokens)
    /\ Window # 0 => s.tokens < Window
    /\ GoodRules(s.rules)

\* What a start makes of a home: the environment under the saved patch.
Overlaid(patch) == ApplyPatch(patch, FromEnv)

\* SettingsPatch::is_empty looks at every field but the table of commands.
IsEmpty(patch) == patch.tokens = Absent

\* save_patch: an empty patch takes the file away; another replaces it in place, where a
\* failure leaves it as it was, or cut short. A file that cannot be read is no patch.
SavePatch(patch, done) ==
    \/ done /\ saved' = IF IsEmpty(patch) THEN NoPatch ELSE patch
    \/ ~done /\ saved' \in {saved, NoPatch}

\* apply_config_patch, once the patch is valid: save the accumulated patch, and only
\* then change the settings in memory.
WritePatch(patch, done) ==
    LET whole == MergeNewer(saved, patch)
    IN  /\ SavePatch(whole, done)
        /\ knobs' = IF done THEN ApplyPatch(whole, knobs) ELSE knobs

\* What a client may send to config/write.
Patches == [tokens : Asked \cup {Absent}, rules : {Absent}]

\* remember_command: the table in force and the command, none if it is there already.
Remembering(command) == [NoPatch EXCEPT !.rules = knobs.rules \cup {command}]

Patch == [tokens : Asked \cup {Absent}, rules : (SUBSET Commands) \cup {Absent}]
Parameters == [tokens : Asked \cup {EnvTokens}, rules : SUBSET Commands]

KnobsTypeOK ==
    /\ knobs \in Parameters
    /\ saved \in Patch
=============================================================================
