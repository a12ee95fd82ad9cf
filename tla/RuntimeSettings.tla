-------------------------- MODULE RuntimeSettings --------------------------
(***************************************************************************)
(* The trading settings that the monitor's screen changes while the bot    *)
(* runs: config.load_settings, which puts the stored values over those of  *)
(* the environment and fills the store where keys are missing, and         *)
(* save_runtime_risk_settings, over runtime_settings_store.py, which       *)
(* writes one key per transaction.  Jobs, requests and the command line    *)
(* do so side by side; a read or a write of the database may raise.  The   *)
(* keys are those whose handling differs, each value a number.             *)
(***************************************************************************)
EXTENDS Integers, Sequences

CONSTANTS
    Users,          \* processes and threads that load or save
    EnvValues,      \* the settings of the environment: key -> value
    FileValues,     \* the settings of an older settings file, of some keys
    Requests,       \* bodies of a save: key -> value, of some keys
    MaxCalls        \* bound: calls begun

\* The order in which _runtime_settings_from_settings lists the keys.
KeyOrder ==
    <<"loss", "preset", "trailing", "min_price", "max_price", "refresh", "mode">>
SettingKeys == {KeyOrder[i] : i \in DOMAIN KeyOrder}

AllSettings == [SettingKeys -> Int]

\* The environment has a value for every key, the file and a request for some.
ASSUME SettingsAssumption ==
    /\ EnvValues \in AllSettings
    /\ \A some \in {FileValues} \cup Requests :
          DOMAIN some \subseteq SettingKeys /\ some \in [DOMAIN some -> Int]
    /\ MaxCalls \in Nat

VARIABLES
    stored,         \* table runtime_setting, of the keys it has
    userCall,       \* what each user is doing
    shown,          \* the settings in the last answer of a save
    inEffect,        \* history: no call overlapped or failed since that answer
    calls           \* calls begun

settingsVars == <<stored, userCall, shown, inEffect, calls>>

Refresh == 1        \* candidate_selection_mode: refresh, fixed, hybrid
Fixed == 2
Conservative == 2   \* strategy_preset; 1 is CURRENT
NoRequest == <<>>
Idle == [step |-> "idle", request |-> NoRequest, values |-> EnvValues, next |-> 1,
         clean |-> TRUE]

\* _apply_strategy_preset: a preset replaces the values it names.
WithPreset(values) ==
    IF values.preset = Conservative
    THEN [values EXCEPT !.loss = 25, !.trailing = 20] ELSE values

\* _normalize_candidate_mode
CoherentMode(values) ==
    IF values.mode = Refresh /\ values.refresh = 0
    THEN [values EXCEPT !.mode = Fixed] ELSE values

Effective(values) == WithPreset(CoherentMode(values))

Over(upper, lower) ==
    [key \in DOMAIN lower \cup DOMAIN upper |->
        IF key \in DOMAIN upper THEN upper[key] ELSE lower[key]]

\* _read_runtime_settings: the table over the file; a read that raises has no
\* rows.
Found(ok) == IF ok THEN Over(stored, FileValues) ELSE FileValues

Mutant_Complete(values) == Over(EnvValues, values)
\* _complete_runtime_settings
Complete(values) == Over(values, EnvValues)

SettingsInit ==
    /\ stored = <<>>
    /\ userCall = [u \in Users |-> Idle]
    /\ shown = Effective(Complete(FileValues))
    /\ inEffect = TRUE
    /\ calls = 0

SettingsTypeOK ==
    /\ DOMAIN stored \subseteq SettingKeys /\ DOMAIN shown = SettingKeys
    /\ \A u \in Users : userCall[u].next \in 1 .. Len(KeyOrder) + 1
    /\ inEffect \in BOOLEAN /\ calls \in 0 .. MaxCalls

-----------------------------------------------------------------------------
SomeoneBusy == \E u \in Users : userCall[u].step # "idle"
EndCall(u) == userCall' = [userCall EXCEPT ![u] = Idle]

Begin(u, request) ==
    /\ userCall[u].step = "idle" /\ calls < MaxCalls
    /\ calls' = calls + 1
    /\ userCall' = [w \in Users |->
          IF w = u THEN [Idle EXCEPT !.step = "read", !.request = request,
                                     !.clean = ~SomeoneBusy]
          ELSE [userCall[w] EXCEPT !.clean = FALSE]]
    /\ inEffect' = (inEffect /\ ~SomeoneBusy)
    /\ UNCHANGED <<stored, shown>>

\* load_settings, by a job, a command or GET settings.
LoadBegins(u) == Begin(u, NoRequest)

\* POST settings; the stop loss is the one entry without which it raises.
SaveBegins(u) == \E request \in Requests :
    /\ request.loss \in 1 .. 50
    /\ Begin(u, request)

\* _apply_runtime_settings up to the missing keys.
Reads(u, ok) ==
    LET values == Found(ok)
        missing == DOMAIN values # SettingKeys
        first == userCall[u].step = "read"
    IN  /\ userCall[u].step \in {"read", "reread"}
        /\ userCall' = [userCall EXCEPT
              ![u].values = Complete(values),
              ![u].next = 1,
              ![u].clean = @ /\ (first \/ ok),
              ![u].step = CASE missing -> IF first THEN "fill" ELSE "refill"
                            [] ~missing -> IF first THEN "loaded" ELSE "answer"]
        /\ inEffect' = (inEffect /\ ok)
        /\ UNCHANGED <<stored, shown, calls>>

WritesDone(step) ==
    CASE step = "fill" -> "loaded" [] step = "write" -> "reread"
      [] step = "refill" -> "answer"

Writing(u) ==
    userCall[u].step \in {"fill", "write", "refill"} /\ userCall[u].next <= Len(KeyOrder)

\* RuntimeSettingsStore.save: one key.
WritesKey(u) ==
    LET key == KeyOrder[userCall[u].next] IN
    /\ Writing(u)
    /\ stored' = Over([k \in {key} |-> userCall[u].values[key]], stored)
    /\ userCall' = [userCall EXCEPT ![u].next = @ + 1,
                      ![u].step = IF userCall[u].next = Len(KeyOrder)
                                  THEN WritesDone(@) ELSE @]
    /\ UNCHANGED <<shown, inEffect, calls>>

\* Filling in is tried and forgotten; a save that fails is an answer 400.
WriteRaises(u) ==
    /\ Writing(u)
    /\ IF userCall[u].step = "write"
       THEN EndCall(u) /\ inEffect' = FALSE
       ELSE /\ userCall' = [userCall EXCEPT ![u].step = WritesDone(@)]
            /\ UNCHANGED inEffect
    /\ UNCHANGED <<stored, shown, calls>>

\* save_runtime_risk_settings: the payload is everything in effect, and over it
\* what the body asks for; a candidate mode brings its refresh flag with it.
Payload(loaded, request) ==
    LET asked == Over(request, Effective(loaded)) IN
    IF "mode" \notin DOMAIN request THEN asked
    ELSE [asked EXCEPT !.refresh = IF request.mode = Fixed THEN 0 ELSE 1]

\* _validate_price_range, against the price that is not in the body.
PricesRefused(payload, request) ==
    /\ {"min_price", "max_price"} \cap DOMAIN request # {}
    /\ payload.min_price >= payload.max_price

LoadEnds(u) ==
    /\ userCall[u].step = "loaded" /\ userCall[u].request = NoRequest
    /\ EndCall(u) /\ UNCHANGED <<stored, shown, inEffect, calls>>

SaveGoesOn(u) ==
    LET payload == Payload(userCall[u].values, userCall[u].request) IN
    /\ userCall[u].step = "loaded" /\ userCall[u].request # NoRequest
    /\ IF PricesRefused(payload, userCall[u].request) THEN EndCall(u)
       ELSE userCall' = [userCall EXCEPT ![u].step = "write", ![u].next = 1,
                           ![u].values = payload, ![u].request = payload]
    /\ UNCHANGED <<stored, shown, inEffect, calls>>

\* The answer: the payload over a second load, the preset applied once more.
SaveAnswers(u) ==
    /\ userCall[u].step = "answer"
    /\ shown' = WithPreset(userCall[u].request)
    /\ inEffect' = userCall[u].clean
    /\ EndCall(u) /\ UNCHANGED <<stored, calls>>

SettingsNext == \E u \in Users :
    \/ LoadBegins(u) \/ SaveBegins(u)
    \/ \E ok \in BOOLEAN : Reads(u, ok)
    \/ WritesKey(u) \/ WriteRaises(u)
    \/ LoadEnds(u) \/ SaveGoesOn(u) \/ SaveAnswers(u)

SettingsSpec == SettingsInit /\ [][SettingsNext]_settingsVars

-----------------------------------------------------------------------------
\* What the screen was told after a save is what every later load that can read
\* the table works with: no load puts a value of the environment or of the old
\* file back, fills that broke off and refused saves included.  Excepted are
\* loads and saves that overlapped, a save that broke off, a read that raised
\* (its load takes the environment for the store and writes it there), and the
\* mode "refresh" without its flag, shown as refresh and run as fixed.
AnswerInEffect ==
    inEffect /\ ~SomeoneBusy =>
        LET used == Effective(Complete(Found(TRUE))) IN
        \/ used = shown
        \/ shown.mode = Refresh /\ shown.refresh = 0 /\ used = CoherentMode(shown)
=============================================================================
