---------------------------- MODULE SettingsProofs ----------------------------
(* Theorems about what an administrator configures: the settings routes, for   *)
(* any number of concurrent requests, of edits and of restarts, and the        *)
(* session with one CRM, for any number of callers, of authorizations and of   *)
(* tokens, whether or not the vendor rotates them. They are stated of          *)
(* Platform, whose other parts leave the settings and the session alone.       *)
EXTENDS Platform, TLAPS

-----------------------------------------------------------------------------
(* The settings routes *)
Handling ==
  [route : {"none", "rules", "key", "pair", "values", "settings", "create"},
   at : {"none", "rules", "key", "pair", "paired", "values", "audit", "pause",
         "write", "replace"},
   config : Settings!Config, rules : Settings!Rules]

-----------------------------------------------------------------------------
(* Shapes *)

SettingsShape ==
  req \in [Actor -> Handling] /\ row \in Settings!Stored /\ mem \in Settings!Stored

LEMMA NothingConfigured ==
  /\ None \in Settings!Rules /\ None \notin Settings!Pairing
  /\ Settings!Pairing \subseteq Settings!Rules
  /\ Settings!NoConfig \in Settings!Config
BY PlatformAssumption
DEF Settings!NoConfig, Settings!Config, Settings!Rules, Settings!Pairing

LEMMA OffIsOff ==
  ASSUME NEW c \in Settings!Config
  PROVE  Settings!Off(c) \in Settings!Config /\ ~Settings!Live(Settings!Off(c))
BY DEF Settings!Config, Settings!Off, Settings!Live

LEMMA NoRequestShape ==
  /\ Settings!NoRequest \in Handling
  /\ Settings!NoRequest.route = "none" /\ Settings!NoRequest.at = "none"
  /\ Settings!NoRequest.rules = None
BY NothingConfigured DEF Settings!NoRequest, Handling

LEMMA MergedShape ==
  ASSUME NEW r \in Settings!Stored
  PROVE  /\ Settings!Merged(r) \in Settings!Config
         /\ [r EXCEPT !.config = Settings!Merged(r)] \in Settings!Stored
         /\ Settings!Live(Settings!Merged(r)) <=> Settings!Live(r.config)
<1>1. r.config \in Settings!Config /\ r.other \in BOOLEAN BY DEF Settings!Stored
<1>2. Settings!Merged(r) \in Settings!Config
  BY <1>1 DEF Settings!Merged, Settings!Config
<1>3. Settings!Live(Settings!Merged(r)) <=> Settings!Live(r.config)
  BY <1>1 DEF Settings!Merged, Settings!Config, Settings!Live
<1>4. QED BY <1>2, <1>3 DEF Settings!Stored

\* The entry of a handler, as its route begins, computes a config, or advances.
LEMMA HandlingShape ==
  ASSUME NEW e \in Handling, NEW r \in {"rules", "key", "pair", "values", "settings",
                                        "create"},
         NEW c \in Settings!Config, NEW u \in Settings!Rules
  PROVE  /\ [Settings!NoRequest EXCEPT !.route = r, !.at = "write", !.config = c]
              \in Handling
         /\ r \in {"rules", "key", "pair", "values"} =>
              [Settings!NoRequest EXCEPT !.route = r, !.at = r, !.rules = u] \in Handling
         /\ \A l \in {"audit", "pause", "paired", "rules", "replace"} :
              [e EXCEPT !.at = l] \in Handling
BY NoRequestShape DEF Handling

LEMMA StoredShape ==
  ASSUME NEW r \in Settings!Stored
  PROVE  /\ r.pairing \in Settings!Pairing /\ r.rules \in Settings!Rules
         /\ r.key \in Settings!Rules /\ r.config \in Settings!Config
         /\ r.other \in BOOLEAN
         /\ [r EXCEPT !.other = TRUE] \in Settings!Stored
         /\ \A u \in Settings!Rules : /\ [r EXCEPT !.rules = u] \in Settings!Stored
                                      /\ [r EXCEPT !.key = u] \in Settings!Stored
         /\ \A c \in Settings!Config : [r EXCEPT !.config = c] \in Settings!Stored
         /\ \A q \in Settings!Pairing, u, v \in Settings!Rules :
              [r EXCEPT !.pairing = q, !.key = u, !.rules = v] \in Settings!Stored
BY DEF Settings!Stored

\* A route is taken: every entry it makes is well shaped.
LEMMA RequestKeepsShape ==
  ASSUME SettingsShape, NEW h \in Actor, Settings!Request(h) PROVE SettingsShape'
<1>1. /\ mem.pairing \in Settings!Rules /\ mem.rules \in Settings!Rules
      /\ mem.config \in Settings!Config /\ None \in Settings!Rules
      /\ [mem.config EXCEPT !.other = "off"] \in Settings!Config
  BY NothingConfigured, StoredShape DEF SettingsShape, Settings!Config
<1>2. CASE Settings!EditRules(h)
  <2>1. row' = row /\ mem' = [mem EXCEPT !.rules = mem.pairing]
        /\ req' = [req EXCEPT ![h] = [Settings!NoRequest EXCEPT
                     !.route = "rules", !.at = "rules", !.rules = mem.pairing]]
    BY <1>2 DEF Settings!EditRules, Settings!Begin
  <2>2. QED
    BY <1>1, <2>1, HandlingShape, NoRequestShape, StoredShape, NothingConfigured
    DEF SettingsShape
<1>3. CASE Settings!EditKey(h)
  <2>1. row' = row /\ mem' = [mem EXCEPT !.key = mem.rules]
        /\ req' = [req EXCEPT ![h] = [Settings!NoRequest EXCEPT
                     !.route = "key", !.at = "key", !.rules = mem.rules]]
    BY <1>3 DEF Settings!EditKey, Settings!Begin
  <2>2. QED
    BY <1>1, <2>1, HandlingShape, NoRequestShape, StoredShape, NothingConfigured
    DEF SettingsShape
<1>4. CASE Settings!RePair(h) \/ Settings!EditValues(h)
  <2>1. row' = row /\ mem' = mem BY <1>4 DEF Settings!RePair, Settings!EditValues
  <2>2. PICK r \in {"pair", "values"} :
          req' = [req EXCEPT ![h] = [Settings!NoRequest EXCEPT
                    !.route = r, !.at = r, !.rules = None]]
    BY <1>4 DEF Settings!RePair, Settings!EditValues, Settings!Begin
  <2>3. [Settings!NoRequest EXCEPT !.route = r, !.at = r, !.rules = None] \in Handling
    BY <1>1, HandlingShape, NoRequestShape, NothingConfigured
  <2>4. QED BY <2>1, <2>2, <2>3 DEF SettingsShape
<1>5. CASE Settings!PatchSettings(h)
  <2>1. row' = row /\ mem' = mem BY <1>5 DEF Settings!PatchSettings
  <2>2. PICK c \in Settings!Config :
          req' = [req EXCEPT ![h] = [Settings!NoRequest EXCEPT
                    !.route = "settings", !.at = "write", !.config = c]]
    BY <1>5 DEF Settings!PatchSettings, Settings!Compute
  <2>3. [Settings!NoRequest EXCEPT !.route = "settings", !.at = "write", !.config = c]
          \in Handling
    BY <1>1, HandlingShape, NoRequestShape
  <2>4. QED BY <2>1, <2>2, <2>3 DEF SettingsShape
<1>6. CASE Settings!CreateOther(h)
  <2>1. row' = [row EXCEPT !.other = TRUE] /\ mem' = [mem EXCEPT !.other = TRUE]
        /\ req' = [req EXCEPT ![h] = [Settings!NoRequest EXCEPT
                     !.route = "create", !.at = "write",
                     !.config = [mem.config EXCEPT !.other = "off"]]]
    BY <1>6 DEF Settings!CreateOther, Settings!Compute
  <2>2. [Settings!NoRequest EXCEPT !.route = "create", !.at = "write",
                                   !.config = [mem.config EXCEPT !.other = "off"]]
          \in Handling
    BY <1>1, HandlingShape, NoRequestShape
  <2>3. row' \in Settings!Stored /\ mem' \in Settings!Stored
    BY <2>1, StoredShape DEF SettingsShape
  <2>4. QED BY <2>1, <2>2, <2>3 DEF SettingsShape
<1>7. QED BY <1>2, <1>3, <1>4, <1>5, <1>6 DEF Settings!Request

LEMMA ShapeKept == ASSUME SettingsShape, Settings!Next PROVE SettingsShape'
<1>1. /\ None \in Settings!Rules /\ Settings!NoRequest \in Handling
      /\ \A h \in Actor : /\ req[h].rules \in Settings!Rules
                          /\ req[h].config \in Settings!Config
  BY NothingConfigured, NoRequestShape DEF SettingsShape, Handling
<1>2. ASSUME NEW h \in Actor, NEW l \in {"audit", "pause", "paired", "rules", "replace"},
             Settings!Advance(h, l)
      PROVE  req' \in [Actor -> Handling]
  <2>1. [req[h] EXCEPT !.at = l] \in Handling
    BY HandlingShape, NothingConfigured DEF SettingsShape
  <2>2. QED BY <1>2, <2>1 DEF Settings!Advance, SettingsShape
<1>3. ASSUME NEW h \in Actor, Settings!Ends(h) PROVE req' \in [Actor -> Handling]
  BY <1>1, <1>3 DEF Settings!Ends, SettingsShape
<1>4. ASSUME NEW h \in Actor, Settings!Proceed(h) PROVE SettingsShape'
  <2>1. CASE Settings!StoreRules(h)
    BY <1>1, <1>2, <2>1, StoredShape
    DEF Settings!StoreRules, SettingsShape, Settings!historyVars
  <2>2. CASE Settings!StoreKey(h)
    BY <1>1, <1>2, <2>2, StoredShape
    DEF Settings!StoreKey, SettingsShape, Settings!historyVars
  <2>3. CASE Settings!StorePairing(h)
    <3>0. row.pairing \in Settings!Pairing /\ row.pairing < MaxPairing
      BY <2>3, StoredShape DEF Settings!StorePairing, SettingsShape
    <3>1. row.pairing + 1 \in Settings!Pairing
      BY <3>0, PlatformAssumption DEF Settings!Pairing
    <3>2. row' \in Settings!Stored
      BY <2>3, <3>1, <1>1 DEF Settings!StorePairing, SettingsShape, Settings!Stored
    <3>3. QED
      BY <1>2, <2>3, <3>2 DEF Settings!StorePairing, SettingsShape,
         Settings!historyVars
  <2>4. CASE Settings!AdoptPairing(h)
    <3>1. mem' \in Settings!Stored
      BY <1>1, <2>4, StoredShape DEF Settings!AdoptPairing, SettingsShape
    <3>2. QED
      BY <1>2, <2>4, <3>1 DEF Settings!AdoptPairing, SettingsShape,
         Settings!historyVars
  <2>5. CASE Settings!StoreValues(h) \/ Settings!Audit(h)
    BY <1>2, <2>5 DEF Settings!StoreValues, Settings!Audit, SettingsShape,
       Settings!historyVars
  <2>6. CASE Settings!Pause(h)
    <3>1. CASE Settings!Ends(h)
      BY <1>3, <2>6, <3>1 DEF Settings!Pause, SettingsShape
    <3>2. CASE Settings!Compute(h, req[h].route, Settings!Off(mem.config))
      <4>1. Settings!Off(mem.config) \in Settings!Config
        BY OffIsOff, StoredShape DEF SettingsShape
      <4>2. [Settings!NoRequest EXCEPT !.route = req[h].route, !.at = "write",
                                       !.config = Settings!Off(mem.config)]
              \in Handling
        BY <1>1, <4>1 DEF SettingsShape, Handling
      <4>3. QED BY <2>6, <3>2, <4>2 DEF Settings!Pause, Settings!Compute, SettingsShape
    <3>3. QED BY <2>6, <3>1, <3>2 DEF Settings!Pause, Settings!PauseOrAnswer
  <2>7. CASE Settings!WriteConfig(h)
    BY <1>1, <1>2, <2>7, StoredShape DEF Settings!WriteConfig, SettingsShape
  <2>8. CASE Settings!ReplaceConfig(h)
    BY <1>1, <1>3, <2>8, StoredShape DEF Settings!ReplaceConfig, SettingsShape
  <2>9. CASE Settings!Fails(h)
    BY <1>3, <2>9 DEF Settings!Fails, SettingsShape
  <2>10. QED
    BY <1>4, <2>1, <2>2, <2>3, <2>4, <2>5, <2>6, <2>7, <2>8, <2>9
    DEF Settings!Proceed
<1>5. CASE Settings!Restart
  BY <1>1, <1>5, MergedShape DEF Settings!Restart, SettingsShape
<1>6. QED BY <1>4, <1>5, RequestKeepsShape DEF Settings!Next

-----------------------------------------------------------------------------
(* The pause *)

LiveRow == Settings!Live(row.config)
LiveMem == Settings!Live(mem.config)

\* What one writer at a time keeps: the copy lags behind the row only while a
\* request is between the two, and that of an edit, or of a newcomer after an
\* edit, never makes the object live.
PauseInv ==
  ~overlap =>
    /\ \A h, k \in Actor : Settings!Writing(h) /\ Settings!Writing(k) => h = k
    /\ \A h \in Actor : req[h].at = "replace" => row.config = req[h].config
    /\ (\A h \in Actor : req[h].at # "replace") => (LiveRow <=> LiveMem)
    /\ \A h \in Actor :
         Settings!Writing(h) /\ Settings!Live(req[h].config) =>
           req[h].route \in {"settings", "create"}
    /\ unreviewed =>
         /\ ~LiveRow /\ ~LiveMem
         /\ \A h \in Actor :
              Settings!Writing(h) /\ Settings!Live(req[h].config) =>
                req[h].route = "settings" /\ req[h].at = "write"

\* Handler h is not writing a config, now and then.
Aside(h) ==
  /\ req[h].at # "replace"
  /\ ~Settings!Writing(h)'
  /\ \A k \in Actor \ {h} : req'[k] = req[k]

Only(h) == \A k \in Actor \ {h} : req'[k] = req[k]

\* A step that is not about configs.
LEMMA PauseAside ==
  ASSUME SettingsShape, PauseInv, NEW h \in Actor, Aside(h),
         row'.config = row.config, mem'.config = mem.config,
         overlap' = overlap, unreviewed' = unreviewed
  PROVE  PauseInv'
<1>1. \A k \in Actor : Settings!Writing(k)' => req'[k] = req[k] /\ Settings!Writing(k)
  BY DEF Aside, Settings!Writing
<1>2. \A k \in Actor : /\ req'[k].at = "replace" => req[k].at = "replace"
                       /\ req[k].at = "replace" => req'[k] = req[k]
  BY DEF Aside, Settings!Writing
<1>3. (LiveRow' <=> LiveRow) /\ (LiveMem' <=> LiveMem) BY DEF LiveRow, LiveMem
<1>4. SUFFICES ASSUME ~overlap PROVE PauseInv' BY DEF PauseInv
<1>5. (\A k \in Actor : req'[k].at # "replace") => (LiveRow' <=> LiveMem')
  BY <1>2, <1>3, <1>4 DEF PauseInv
<1>6. \A k \in Actor : req'[k].at = "replace" => row'.config = req'[k].config
  BY <1>2, <1>4 DEF PauseInv
<1>7. QED BY <1>1, <1>2, <1>3, <1>4, <1>5, <1>6 DEF PauseInv

\* A config is computed: another writer shows as an overlap.
LEMMA PauseComputes ==
  ASSUME SettingsShape, PauseInv, NEW h \in Actor, Only(h),
         overlap' = (overlap \/ Settings!SomeoneWrites),
         unreviewed' = unreviewed, req[h].at # "replace", req'[h].at = "write",
         Settings!Live(req'[h].config) =>
           \/ req'[h].route = "settings"
           \/ req'[h].route = "create" /\ LiveMem,
         row'.config = row.config, mem'.config = mem.config
  PROVE  PauseInv'
<1> SUFFICES ASSUME ~overlap, ~Settings!SomeoneWrites PROVE PauseInv' BY DEF PauseInv
<1>1. \A k \in Actor : ~Settings!Writing(k) BY DEF Settings!SomeoneWrites
<1>2. \A k \in Actor : /\ Settings!Writing(k)' => k = h
                       /\ req[k].at # "replace" /\ req'[k].at # "replace"
  BY <1>1 DEF Settings!Writing, Only
<1>3. LiveRow' = LiveRow /\ LiveMem' = LiveMem BY DEF LiveRow, LiveMem
<1>4. QED BY <1>2, <1>3 DEF PauseInv

\* There is nothing to pause: the edit is answered.
LEMMA PauseAnswers ==
  ASSUME SettingsShape, PauseInv, NEW h \in Actor, Only(h),
         overlap' = (overlap \/ Settings!SomeoneWrites),
         req[h].at # "replace", ~Settings!Writing(h)', ~LiveMem,
         row'.config = row.config, mem'.config = mem.config
  PROVE  PauseInv'
<1> SUFFICES ASSUME ~overlap, ~Settings!SomeoneWrites PROVE PauseInv' BY DEF PauseInv
<1>1. \A k \in Actor : ~Settings!Writing(k) BY DEF Settings!SomeoneWrites
<1>2. \A k \in Actor : /\ ~Settings!Writing(k)'
                       /\ req[k].at # "replace" /\ req'[k].at # "replace"
  BY <1>1 DEF Settings!Writing, Only
<1>3. LiveRow' = LiveRow /\ LiveMem' = LiveMem BY DEF LiveRow, LiveMem
<1>4. QED BY <1>2, <1>3 DEF PauseInv

LEMMA PauseWrites ==
  ASSUME SettingsShape, PauseInv, NEW h \in Actor, Settings!WriteConfig(h)
  PROVE  PauseInv'
<1>1. /\ req[h].at = "write" /\ req' = [req EXCEPT ![h].at = "replace"]
      /\ row' = [row EXCEPT !.config = req[h].config]
      /\ mem' = mem /\ overlap' = overlap
      /\ unreviewed' <=> unreviewed /\ req[h].route # "settings"
  BY DEF Settings!WriteConfig, Settings!At, Settings!Advance
<1>2. /\ req'[h] = [req[h] EXCEPT !.at = "replace"]
      /\ req'[h].config = req[h].config /\ req'[h].route = req[h].route
      /\ req'[h].at = "replace"
      /\ \A k \in Actor \ {h} : req'[k] = req[k]
  BY <1>1 DEF SettingsShape, Handling
<1>3. row'.config = req[h].config BY <1>1 DEF SettingsShape, Settings!Stored
<1>4. SUFFICES ASSUME ~overlap PROVE PauseInv' BY <1>1 DEF PauseInv
<1>5. \A k \in Actor : Settings!Writing(k) => k = h
  BY <1>1, <1>4 DEF PauseInv, Settings!Writing
<1>6. \A k \in Actor : Settings!Writing(k)' => k = h
  BY <1>2, <1>5 DEF Settings!Writing
<1>7. (LiveRow' <=> Settings!Live(req[h].config)) /\ (LiveMem' <=> LiveMem)
  BY <1>1, <1>3 DEF LiveRow, LiveMem
<1>8. Settings!Writing(h) BY <1>1 DEF Settings!Writing
<1>9. Settings!Live(req[h].config) => req[h].route \in {"settings", "create"}
  BY <1>4, <1>8 DEF PauseInv
<1>10. unreviewed' => /\ ~LiveMem /\ ~Settings!Live(req[h].config)
  BY <1>1, <1>4, <1>8 DEF PauseInv
<1>11. \A k \in Actor : req'[k].at = "replace" => k = h
  BY <1>6 DEF Settings!Writing
<1>12. QED BY <1>1, <1>2, <1>3, <1>6, <1>7, <1>9, <1>10, <1>11 DEF PauseInv

LEMMA PauseReplaces ==
  ASSUME SettingsShape, PauseInv, NEW h \in Actor, Settings!ReplaceConfig(h)
  PROVE  PauseInv'
<1>1. /\ req[h].at = "replace" /\ req' = [req EXCEPT ![h] = Settings!NoRequest]
      /\ mem' = [mem EXCEPT !.config = req[h].config]
      /\ row' = row /\ overlap' = overlap
      /\ unreviewed' <=> unreviewed \/ req[h].route \notin {"settings", "create"}
  BY DEF Settings!ReplaceConfig, Settings!At, Settings!Ends
<1>2. req'[h].at = "none" /\ \A k \in Actor \ {h} : req'[k] = req[k]
  BY <1>1, NoRequestShape DEF SettingsShape
<1>3. mem'.config = req[h].config BY <1>1 DEF SettingsShape, Settings!Stored
<1>4. SUFFICES ASSUME ~overlap PROVE PauseInv' BY <1>1 DEF PauseInv
<1>5. \A k \in Actor : Settings!Writing(k) => k = h
  BY <1>1, <1>4 DEF PauseInv, Settings!Writing
<1>6. \A k \in Actor : ~Settings!Writing(k)' /\ req'[k].at # "replace"
  BY <1>2, <1>5 DEF Settings!Writing
<1>7. row.config = req[h].config BY <1>1, <1>4 DEF PauseInv
<1>8. /\ LiveRow' <=> Settings!Live(req[h].config)
      /\ LiveMem' <=> Settings!Live(req[h].config)
  BY <1>1, <1>3, <1>7 DEF LiveRow, LiveMem
<1>9. unreviewed' => ~Settings!Live(req[h].config)
  BY <1>1, <1>4 DEF PauseInv, Settings!Writing
<1>10. QED BY <1>6, <1>8, <1>9 DEF PauseInv

LEMMA PauseRestarts ==
  ASSUME SettingsShape, PauseInv, Settings!Restart PROVE PauseInv'
<1>1. /\ mem' = [row EXCEPT !.config = Settings!Merged(row)] /\ row' = row
      /\ overlap' = overlap /\ unreviewed' = unreviewed
      /\ req' = [h \in Actor |-> Settings!NoRequest]
  BY DEF Settings!Restart
<1>2. \A h \in Actor : ~Settings!Writing(h)' /\ req'[h].at # "replace"
  BY <1>1, NoRequestShape DEF Settings!Writing
<1>3. mem'.config = Settings!Merged(row)
  BY <1>1 DEF SettingsShape, Settings!Stored
<1>4. (LiveMem' <=> LiveRow) /\ (LiveRow' <=> LiveRow)
  BY <1>1, <1>3, MergedShape DEF LiveMem, LiveRow, SettingsShape
<1>5. QED BY <1>1, <1>2, <1>4 DEF PauseInv

LEMMA PauseKept ==
  ASSUME SettingsShape, PauseInv, Settings!Next PROVE PauseInv'
<1>1. req \in [Actor -> Handling] /\ Settings!NoRequest.at = "none"
  BY NoRequestShape DEF SettingsShape
<1>2. ASSUME NEW h \in Actor, Settings!Arrives(h) PROVE req[h].at # "replace"
  BY <1>2, NoRequestShape DEF Settings!Arrives
<1>3. ASSUME NEW h \in Actor, NEW r \in {"rules", "key", "pair", "values"}, NEW u,
             Settings!Begin(h, r, u), req[h].at # "replace"
      PROVE  Aside(h)
  <2>1. req'[h].at = r BY <1>1, <1>3, NoRequestShape DEF Settings!Begin, Handling
  <2>2. QED BY <1>1, <1>3, <2>1 DEF Aside, Settings!Writing, Settings!Begin
<1>4. ASSUME NEW h \in Actor, NEW l \in {"audit", "pause", "paired", "rules"},
             Settings!Advance(h, l), req[h].at # "replace"
      PROVE  Aside(h)
  BY <1>1, <1>4 DEF Aside, Settings!Writing, Settings!Advance, Handling
<1>5. ASSUME NEW h \in Actor, Settings!Ends(h), req[h].at # "replace"
      PROVE  Aside(h) /\ Only(h) /\ ~Settings!Writing(h)'
  BY <1>1, <1>5 DEF Aside, Only, Settings!Writing, Settings!Ends
<1>6. ASSUME NEW h \in Actor, NEW r, NEW c, Settings!Compute(h, r, c)
      PROVE  /\ Only(h) /\ req'[h].at = "write"
             /\ req'[h].route = r /\ req'[h].config = c
  BY <1>1, <1>6, NoRequestShape DEF Only, Settings!Compute, Handling
<1>7. ASSUME NEW h \in Actor, Settings!Request(h) PROVE PauseInv'
  <2>1. CASE Settings!EditRules(h)
    <3>1. row' = row /\ mem'.config = mem.config
      BY <2>1 DEF Settings!EditRules, SettingsShape, Settings!Stored
    <3>2. QED BY <1>2, <1>3, <2>1, <3>1, PauseAside DEF Settings!EditRules
  <2>2. CASE Settings!EditKey(h)
    <3>1. row' = row /\ mem'.config = mem.config
      BY <2>2 DEF Settings!EditKey, SettingsShape, Settings!Stored
    <3>2. QED BY <1>2, <1>3, <2>2, <3>1, PauseAside DEF Settings!EditKey
  <2>3. CASE Settings!RePair(h)
    BY <1>2, <1>3, <2>3, PauseAside DEF Settings!RePair
  <2>4. CASE Settings!EditValues(h)
    BY <1>2, <1>3, <2>4, PauseAside DEF Settings!EditValues, Settings!historyVars
  <2>5. CASE Settings!PatchSettings(h)
    BY <1>2, <1>6, <2>5, PauseComputes DEF Settings!PatchSettings
  <2>6. CASE Settings!CreateOther(h)
    <3>1. row'.config = row.config /\ mem'.config = mem.config
      BY <2>6 DEF Settings!CreateOther, SettingsShape, Settings!Stored
    <3>2. Settings!Live([mem.config EXCEPT !.other = "off"]) => LiveMem
      <4>1. mem.config \in Settings!Config BY StoredShape DEF SettingsShape
      <4>2. QED BY <4>1 DEF LiveMem, Settings!Live, Settings!Config
    <3>3. QED
      BY <1>2, <1>6, <2>6, <3>1, <3>2, PauseComputes DEF Settings!CreateOther
  <2>7. QED BY <1>7, <2>1, <2>2, <2>3, <2>4, <2>5, <2>6 DEF Settings!Request
<1>8. ASSUME NEW h \in Actor, Settings!Proceed(h) PROVE PauseInv'
  <2>1. CASE Settings!StoreRules(h) \/ Settings!StoreKey(h)
    <3>1. /\ row'.config = row.config /\ mem' = mem /\ req[h].at # "replace"
          /\ overlap' = overlap /\ unreviewed' = unreviewed
      BY <2>1 DEF Settings!StoreRules, Settings!StoreKey, SettingsShape,
         Settings!Stored, Settings!At, Settings!historyVars
    <3>2. Aside(h)
      BY <1>4, <2>1, <3>1 DEF Settings!StoreRules, Settings!StoreKey
    <3>3. QED BY <3>1, <3>2, PauseAside
  <2>2. CASE Settings!StorePairing(h) \/ Settings!AdoptPairing(h)
    <3>1. /\ row'.config = row.config /\ mem'.config = mem.config
          /\ req[h].at # "replace"
          /\ overlap' = overlap /\ unreviewed' = unreviewed
      BY <2>2 DEF Settings!StorePairing, Settings!AdoptPairing, SettingsShape,
         Settings!Stored, Settings!At, Settings!historyVars
    <3>2. Aside(h)
      BY <1>4, <2>2, <3>1 DEF Settings!StorePairing, Settings!AdoptPairing
    <3>3. QED BY <3>1, <3>2, PauseAside
  <2>3. CASE Settings!StoreValues(h) \/ Settings!Audit(h)
    BY <1>4, <2>3, PauseAside DEF Settings!StoreValues, Settings!Audit,
       Settings!At, Settings!historyVars
  <2>4. CASE Settings!Pause(h)
    <3>1. /\ row' = row /\ mem' = mem /\ req[h].at # "replace"
          /\ overlap' = (overlap \/ Settings!SomeoneWrites)
      BY <2>4 DEF Settings!Pause, Settings!PauseOrAnswer, Settings!At
    <3>2. CASE LiveMem
      <4>1. /\ Settings!Compute(h, req[h].route, Settings!Off(mem.config))
            /\ unreviewed' = unreviewed
        BY <2>4, <3>2 DEF Settings!Pause, Settings!PauseOrAnswer, LiveMem
      <4>2. ~Settings!Live(Settings!Off(mem.config))
        BY OffIsOff, StoredShape DEF SettingsShape
      <4>3. QED BY <1>6, <3>1, <4>1, <4>2, PauseComputes
    <3>3. CASE ~LiveMem
      <4>1. Settings!Ends(h)
        BY <2>4, <3>3 DEF Settings!Pause, Settings!PauseOrAnswer, LiveMem
      <4>2. QED BY <1>5, <3>1, <3>3, <4>1, PauseAnswers
    <3>4. QED BY <3>2, <3>3
  <2>5. CASE Settings!Fails(h)
    BY <1>5, <2>5, PauseAside DEF Settings!Fails
  <2>6. QED
    BY <1>8, <2>1, <2>2, <2>3, <2>4, <2>5, PauseWrites, PauseReplaces
    DEF Settings!Proceed
<1>9. QED BY <1>7, <1>8, PauseRestarts DEF Settings!Next

-----------------------------------------------------------------------------
(* The pairing *)

Fit(u, pairing) == u \in {pairing, None}

Editing(h) == req[h].route \in {"rules", "key", "pair"}

\* Between the reply of a re-pairing and the clearing of the stored rules
HalfPaired(h) == req[h].route = "pair" /\ req[h].at \in {"paired", "rules"}

\* Where a route may be
Placed(h) ==
  /\ req[h].at \in {"pair", "paired"} => req[h].route = "pair"
  /\ req[h].at = "key" => req[h].route = "key"
  /\ req[h].at = "rules" => req[h].route \in {"rules", "pair"}
  /\ req[h].route = "pair" => req[h].rules = None

\* Unless the edits of a pairing are torn, a re-pairing is the only one of them
\* under way; what is in use fits the pairing in memory; and so does what is
\* stored, once a re-pairing has cleared it.
FitInv ==
  ~torn =>
    /\ \A h \in Actor : Placed(h)
    /\ \A h, k \in Actor : req[h].route = "pair" /\ Editing(k) => h = k
    /\ Fit(mem.rules, mem.pairing) /\ Fit(mem.key, mem.pairing)
    /\ \A h \in Actor : req[h].at \in {"rules", "key"} => Fit(req[h].rules, mem.pairing)
    /\ \A h \in Actor : HalfPaired(h) => row.key = None
    /\ (\A h \in Actor : req[h].at # "paired") => row.pairing = mem.pairing
    /\ (\A h \in Actor : ~HalfPaired(h)) =>
         Fit(row.rules, row.pairing) /\ Fit(row.key, row.pairing)

\* A step that is not about pairings.
LEMMA FitAside ==
  ASSUME SettingsShape, FitInv, NEW h \in Actor, Only(h), torn' = torn,
         req[h].at \notin {"pair", "paired", "rules", "key"},
         /\ req'[h].at \notin {"pair", "paired", "rules", "key"}
         /\ req'[h].route \in {req[h].route, "none", "values", "settings", "create"}
         /\ req'[h].rules \in {req[h].rules, None},
         \A f \in {"pairing", "rules", "key"} : row'[f] = row[f] /\ mem'[f] = mem[f]
  PROVE  FitInv'
<1> SUFFICES ASSUME ~torn PROVE FitInv' BY DEF FitInv
<1>1. /\ row'.pairing = row.pairing /\ row'.rules = row.rules /\ row'.key = row.key
      /\ mem'.pairing = mem.pairing /\ mem'.rules = mem.rules /\ mem'.key = mem.key
  OBVIOUS
<1>2. \A k \in Actor : Placed(k)' BY DEF FitInv, Placed, Only
<1>3. \A k \in Actor : /\ Editing(k)' => Editing(k)
                       /\ req'[k].route = "pair" => req[k].route = "pair"
  BY DEF Editing, Only
<1>4. \A k \in Actor : /\ HalfPaired(k)' <=> HalfPaired(k)
                       /\ req'[k].at = "paired" <=> req[k].at = "paired"
  BY DEF HalfPaired, Only
<1>5. \A k \in Actor : req'[k].at \in {"rules", "key"} =>
                         req'[k] = req[k]
  BY DEF Only
<1>6. QED BY <1>1, <1>2, <1>3, <1>4, <1>5 DEF FitInv, Fit

LEMMA FitRequest ==
  ASSUME SettingsShape, FitInv, NEW h \in Actor, Settings!Request(h) PROVE FitInv'
<1>1. req \in [Actor -> Handling] /\ mem \in Settings!Stored /\ row \in Settings!Stored
  BY DEF SettingsShape
<1>2. req[h].at = "none" /\ req[h].route = "none"
  BY <1>1, NoRequestShape
  DEF Settings!Request, Settings!EditRules, Settings!EditKey, Settings!RePair,
      Settings!EditValues, Settings!PatchSettings, Settings!CreateOther,
      Settings!Arrives
<1>3. ASSUME NEW r \in {"rules", "key", "pair", "values"}, NEW u, Settings!Begin(h, r, u)
      PROVE  /\ Only(h) /\ req'[h].at = r /\ req'[h].route = r /\ req'[h].rules = u
  BY <1>1, <1>3, NoRequestShape DEF Settings!Begin, Only, Handling
<1>4. ASSUME NEW r, NEW c, Settings!Compute(h, r, c)
      PROVE  /\ Only(h) /\ req'[h].at = "write" /\ req'[h].route = r
             /\ req'[h].rules = None
  BY <1>1, <1>4, NoRequestShape DEF Settings!Compute, Only, Handling
<1>5. CASE Settings!EditRules(h)
  <2>1. /\ row' = row
        /\ torn' <=> torn \/ Settings!Editing({"pair"})
        /\ Settings!Begin(h, "rules", mem.pairing)
        /\ mem'.pairing = mem.pairing /\ mem'.rules = mem.pairing /\ mem'.key = mem.key
    BY <1>1, <1>5 DEF Settings!EditRules, Settings!Stored
  <2>2. /\ Only(h) /\ req'[h].at = "rules" /\ req'[h].route = "rules"
        /\ req'[h].rules = mem.pairing
    BY <1>3, <2>1
  <2> SUFFICES ASSUME ~torn, \A k \in Actor : req[k].route # "pair" PROVE FitInv'
    BY <2>1 DEF FitInv, Settings!Editing
  <2>3. \A k \in Actor : req'[k].route # "pair" /\ Placed(k)'
    BY <2>2 DEF FitInv, Only, Placed
  <2>4. \A k \in Actor : req[k].at # "paired" /\ ~HalfPaired(k)
    BY DEF FitInv, Placed, HalfPaired
  <2>5. QED BY <2>1, <2>2, <2>3, <2>4 DEF FitInv, Fit, Only, HalfPaired
<1>6. CASE Settings!EditKey(h)
  <2>1. /\ row' = row
        /\ torn' <=> torn \/ Settings!Editing({"pair"})
        /\ Settings!Begin(h, "key", mem.rules)
        /\ mem'.pairing = mem.pairing /\ mem'.rules = mem.rules /\ mem'.key = mem.rules
    BY <1>1, <1>6 DEF Settings!EditKey, Settings!Stored
  <2>2. /\ Only(h) /\ req'[h].at = "key" /\ req'[h].route = "key"
        /\ req'[h].rules = mem.rules
    BY <1>3, <2>1
  <2> SUFFICES ASSUME ~torn, \A k \in Actor : req[k].route # "pair" PROVE FitInv'
    BY <2>1 DEF FitInv, Settings!Editing
  <2>3. \A k \in Actor : req'[k].route # "pair" /\ Placed(k)'
    BY <2>2 DEF FitInv, Only, Placed
  <2>4. \A k \in Actor : req[k].at # "paired" /\ ~HalfPaired(k)
    BY DEF FitInv, Placed, HalfPaired
  <2>5. QED BY <2>1, <2>2, <2>3, <2>4 DEF FitInv, Fit, Only, HalfPaired
<1>7. CASE Settings!RePair(h)
  <2>1. /\ row' = row /\ mem' = mem
        /\ torn' <=> torn \/ Settings!Editing({"rules", "key", "pair"})
        /\ Settings!Begin(h, "pair", None)
    BY <1>7 DEF Settings!RePair
  <2>2. /\ Only(h) /\ req'[h].at = "pair" /\ req'[h].route = "pair"
        /\ req'[h].rules = None
    BY <1>3, <2>1
  <2> SUFFICES ASSUME ~torn, \A k \in Actor : ~Editing(k) PROVE FitInv'
    BY <2>1 DEF FitInv, Settings!Editing, Editing
  <2>3. \A k \in Actor : /\ Editing(k)' => k = h
                         /\ Placed(k)' /\ ~HalfPaired(k) /\ ~HalfPaired(k)'
                         /\ req[k].at # "paired" /\ req'[k].at # "paired"
                         /\ req'[k].at \notin {"rules", "key"}
    BY <2>2 DEF FitInv, Only, Placed, HalfPaired, Editing
  <2>4. QED BY <2>1, <2>2, <2>3 DEF FitInv, Fit, Editing
<1>8. CASE Settings!EditValues(h)
  BY <1>2, <1>3, <1>8, FitAside DEF Settings!EditValues, Settings!historyVars
<1>9. CASE Settings!PatchSettings(h)
  BY <1>2, <1>4, <1>9, FitAside DEF Settings!PatchSettings
<1>10. CASE Settings!CreateOther(h)
  <2>1. \A f \in {"pairing", "rules", "key"} : row'[f] = row[f] /\ mem'[f] = mem[f]
    BY <1>1, <1>10 DEF Settings!CreateOther, Settings!Stored
  <2>2. QED BY <1>2, <1>4, <1>10, <2>1, FitAside DEF Settings!CreateOther
<1>11. QED
  BY <1>5, <1>6, <1>7, <1>8, <1>9, <1>10 DEF Settings!Request

\* Handler h is the only one that edits, if it re-pairs or anybody else does.
LEMMA FitProceed ==
  ASSUME SettingsShape, FitInv, NEW h \in Actor, Settings!Proceed(h) PROVE FitInv'
<1>1. req \in [Actor -> Handling] /\ mem \in Settings!Stored /\ row \in Settings!Stored
  BY DEF SettingsShape
<1>2. ASSUME NEW l \in {"audit", "pause", "paired", "rules", "replace"},
             Settings!Advance(h, l)
      PROVE  /\ Only(h) /\ req'[h].at = l /\ req'[h].route = req[h].route
             /\ req'[h].rules = req[h].rules
  BY <1>1, <1>2 DEF Settings!Advance, Only, Handling
<1>3. ASSUME Settings!Ends(h)
      PROVE  /\ Only(h) /\ req'[h].at = "none" /\ req'[h].route = "none"
             /\ req'[h].rules = None
  BY <1>1, <1>3, NoRequestShape DEF Settings!Ends, Only
<1>4. CASE Settings!StoreRules(h)
  <2>1. /\ req[h].at = "rules" /\ mem' = mem /\ torn' = torn
        /\ row'.pairing = row.pairing /\ row'.key = row.key
        /\ row'.rules = req[h].rules
        /\ Settings!Advance(h, "audit")
    BY <1>1, <1>4 DEF Settings!StoreRules, Settings!Stored, Settings!At,
       Settings!historyVars
  <2>2. Only(h) /\ req'[h].at = "audit" /\ req'[h].route = req[h].route
        /\ req'[h].rules = req[h].rules
    BY <1>2, <2>1
  <2> SUFFICES ASSUME ~torn PROVE FitInv' BY <2>1 DEF FitInv
  <2>3. Editing(h) /\ Placed(h) BY <2>1 DEF FitInv, Placed, Editing
  <2>4. \A k \in Actor : req[k].at # "paired" /\ req'[k].at # "paired"
    BY <2>1, <2>2, <2>3 DEF FitInv, Placed, Only
  <2>5. \A k \in Actor : HalfPaired(k) => k = h
    BY <2>3 DEF FitInv, HalfPaired
  <2>6. \A k \in Actor : ~HalfPaired(k)'
    BY <2>2, <2>5 DEF HalfPaired, Only
  <2>7. row.pairing = mem.pairing BY <2>4 DEF FitInv
  <2>8. Fit(row.key, row.pairing)
    BY <2>5 DEF FitInv, Fit
  <2>9. \A k \in Actor : Placed(k)' /\ (Editing(k)' <=> Editing(k))
    BY <2>2 DEF FitInv, Placed, Only, Editing
  <2>10. Fit(req[h].rules, mem.pairing) BY <2>1 DEF FitInv
  <2>11. \A k, l \in Actor : req'[k].route = "pair" /\ Editing(l)' => k = l
    BY <2>2, <2>9 DEF FitInv, Only
  <2>12. QED
    BY <2>1, <2>2, <2>4, <2>6, <2>7, <2>8, <2>9, <2>10, <2>11 DEF FitInv, Only, Fit
<1>5. CASE Settings!StoreKey(h)
  <2>1. /\ req[h].at = "key" /\ mem' = mem /\ torn' = torn
        /\ row'.pairing = row.pairing /\ row'.rules = row.rules
        /\ row'.key = req[h].rules
        /\ Settings!Advance(h, "pause")
    BY <1>1, <1>5 DEF Settings!StoreKey, Settings!Stored, Settings!At,
       Settings!historyVars
  <2>2. Only(h) /\ req'[h].at = "pause" /\ req'[h].route = req[h].route
        /\ req'[h].rules = req[h].rules
    BY <1>2, <2>1
  <2> SUFFICES ASSUME ~torn PROVE FitInv' BY <2>1 DEF FitInv
  <2>3. req[h].route = "key" /\ Editing(h) BY <2>1 DEF FitInv, Placed, Editing
  <2>4. \A k \in Actor : req[k].route # "pair" BY <2>3 DEF FitInv
  <2>5. \A k \in Actor : /\ req[k].at # "paired" /\ req'[k].at # "paired"
                         /\ ~HalfPaired(k) /\ ~HalfPaired(k)'
                         /\ req'[k].route # "pair" /\ Placed(k)'
    BY <2>2, <2>3, <2>4 DEF FitInv, Placed, Only, HalfPaired
  <2>6. QED BY <2>1, <2>2, <2>5 DEF FitInv, Only, Fit
<1>6. CASE Settings!StorePairing(h)
  <2>1. /\ req[h].at = "pair" /\ mem' = mem /\ torn' = torn /\ row'.key = None
        /\ Settings!Advance(h, "paired")
    BY <1>1, <1>6 DEF Settings!StorePairing, Settings!Stored, Settings!At,
       Settings!historyVars
  <2>2. Only(h) /\ req'[h].at = "paired" /\ req'[h].route = req[h].route
        /\ req'[h].rules = req[h].rules
    BY <1>2, <2>1
  <2> SUFFICES ASSUME ~torn PROVE FitInv' BY <2>1 DEF FitInv
  <2>3. req[h].route = "pair" BY <2>1 DEF FitInv, Placed
  <2>4. HalfPaired(h)' BY <2>2, <2>3 DEF HalfPaired
  <2>5. \A k \in Actor : Placed(k)' /\ (Editing(k)' <=> Editing(k))
    BY <2>2, <2>3 DEF FitInv, Placed, Only, Editing
  <2>6. \A k, l \in Actor : req'[k].route = "pair" /\ Editing(l)' => k = l
    BY <2>2, <2>5 DEF FitInv, Only
  <2>7. QED BY <2>1, <2>2, <2>4, <2>5, <2>6 DEF FitInv, Only, Fit
<1>7. CASE Settings!AdoptPairing(h)
  <2>1. /\ req[h].at = "paired" /\ row' = row /\ torn' = torn
        /\ mem'.pairing = row.pairing /\ mem'.key = None /\ mem'.rules = None
        /\ Settings!Advance(h, "rules")
    BY <1>1, <1>7 DEF Settings!AdoptPairing, Settings!Stored, Settings!At,
       Settings!historyVars
  <2>2. Only(h) /\ req'[h].at = "rules" /\ req'[h].route = req[h].route
        /\ req'[h].rules = req[h].rules
    BY <1>2, <2>1
  <2> SUFFICES ASSUME ~torn PROVE FitInv' BY <2>1 DEF FitInv
  <2>3. req[h].route = "pair" /\ req[h].rules = None BY <2>1 DEF FitInv, Placed
  <2>4. HalfPaired(h) /\ HalfPaired(h)' BY <2>1, <2>2, <2>3 DEF HalfPaired
  <2>5. \A k \in Actor : Placed(k)' /\ (Editing(k)' <=> Editing(k))
    BY <2>2, <2>3 DEF FitInv, Placed, Only, Editing
  <2>6. \A k \in Actor : req'[k].at \in {"rules", "key"} => k = h
    BY <2>2, <2>3, <2>5 DEF FitInv, Only, Placed, Editing
  <2>7. \A k, l \in Actor : req'[k].route = "pair" /\ Editing(l)' => k = l
    BY <2>2, <2>5 DEF FitInv, Only
  <2>8. QED
    BY <2>1, <2>2, <2>3, <2>4, <2>5, <2>6, <2>7 DEF FitInv, Fit, HalfPaired
<1>8. CASE Settings!StoreValues(h) \/ Settings!Audit(h)
  BY <1>2, <1>8, FitAside DEF Settings!StoreValues, Settings!Audit, Settings!At,
     Settings!historyVars
<1>9. CASE Settings!Pause(h)
  <2>1. req[h].at = "pause" /\ row' = row /\ mem' = mem /\ torn' = torn
    BY <1>9 DEF Settings!Pause, Settings!At
  <2>2. CASE Settings!Ends(h) BY <1>3, <2>1, <2>2, FitAside
  <2>3. CASE Settings!Compute(h, req[h].route, Settings!Off(mem.config))
    <3>1. /\ Only(h) /\ req'[h].at = "write" /\ req'[h].route = req[h].route
          /\ req'[h].rules = None
      BY <1>1, <2>3, NoRequestShape DEF Settings!Compute, Only, Handling
    <3>2. QED BY <2>1, <3>1, FitAside
  <2>4. QED BY <1>9, <2>2, <2>3 DEF Settings!Pause, Settings!PauseOrAnswer
<1>10. CASE Settings!WriteConfig(h)
  <2>1. \A f \in {"pairing", "rules", "key"} : row'[f] = row[f] /\ mem'[f] = mem[f]
    BY <1>1, <1>10 DEF Settings!WriteConfig, Settings!Stored
  <2>2. QED BY <1>2, <1>10, <2>1, FitAside DEF Settings!WriteConfig, Settings!At
<1>11. CASE Settings!ReplaceConfig(h)
  <2>1. \A f \in {"pairing", "rules", "key"} : row'[f] = row[f] /\ mem'[f] = mem[f]
    BY <1>1, <1>11 DEF Settings!ReplaceConfig, Settings!Stored
  <2>2. QED BY <1>3, <1>11, <2>1, FitAside DEF Settings!ReplaceConfig, Settings!At
<1>12. CASE Settings!Fails(h)
  <2>1. /\ Settings!Ends(h) /\ row' = row /\ mem' = mem /\ req[h].at # "paired"
        /\ torn' <=> torn \/ (req[h].at = "rules" /\ req[h].route = "pair")
    BY <1>12 DEF Settings!Fails
  <2>2. Only(h) /\ req'[h].at = "none" /\ req'[h].route = "none"
        /\ req'[h].rules = None
    BY <1>3, <2>1
  <2> SUFFICES ASSUME ~torn, ~HalfPaired(h) PROVE FitInv'
    BY <2>1 DEF FitInv, HalfPaired
  <2>3. \A k \in Actor : /\ Placed(k)' /\ (Editing(k)' => Editing(k))
                         /\ HalfPaired(k)' <=> HalfPaired(k)
                         /\ req'[k].at = "paired" <=> req[k].at = "paired"
    BY <2>1, <2>2 DEF FitInv, Placed, Only, Editing, HalfPaired
  <2>4. QED BY <2>1, <2>2, <2>3 DEF FitInv, Only
<1>13. QED
  BY <1>4, <1>5, <1>6, <1>7, <1>8, <1>9, <1>10, <1>11, <1>12 DEF Settings!Proceed

LEMMA FitRestarts ==
  ASSUME SettingsShape, FitInv, Settings!Restart PROVE FitInv'
<1>1. /\ row' = row /\ mem'.pairing = row.pairing /\ mem'.rules = row.rules
      /\ mem'.key = row.key
      /\ torn' <=> torn \/ Settings!Editing({"pair"})
      /\ req' = [h \in Actor |-> Settings!NoRequest]
  BY DEF Settings!Restart, SettingsShape, Settings!Stored
<1> SUFFICES ASSUME ~torn, \A h \in Actor : req[h].route # "pair" PROVE FitInv'
  BY <1>1 DEF FitInv, Settings!Editing
<1>2. \A h \in Actor : ~HalfPaired(h) BY DEF HalfPaired
<1>3. \A h \in Actor : req'[h].at = "none" /\ req'[h].route = "none"
  BY <1>1, NoRequestShape
<1>4. QED BY <1>1, <1>2, <1>3 DEF FitInv, Placed, HalfPaired, Editing

-----------------------------------------------------------------------------
SettingsInv == SettingsShape /\ PauseInv /\ FitInv

LEMMA SettingsBegin == ASSUME Settings!Init PROVE SettingsInv
<1>1. SettingsShape
  <2>1. [Settings!NoConfig EXCEPT !.sync = TRUE] \in Settings!Config
    BY DEF Settings!NoConfig, Settings!Config
  <2>2. 0 \in Settings!Pairing /\ 0 \in Settings!Rules
    BY PlatformAssumption DEF Settings!Pairing, Settings!Rules
  <2>3. row \in Settings!Stored /\ mem \in Settings!Stored
    BY <2>1, <2>2 DEF Settings!Init, Settings!Stored
  <2>4. QED BY <2>3, NoRequestShape DEF Settings!Init, SettingsShape
<1>2. \A h \in Actor : req[h].at = "none" /\ req[h].route = "none"
  BY NoRequestShape DEF Settings!Init
<1>3. PauseInv
  BY <1>2 DEF Settings!Init, PauseInv, LiveRow, LiveMem, Settings!Writing
<1>4. FitInv
  BY <1>2 DEF Settings!Init, FitInv, Placed, Editing, HalfPaired, Fit
<1>5. QED BY <1>1, <1>3, <1>4 DEF SettingsInv

LEMMA SettingsGoOn == ASSUME SettingsInv, Settings!Next PROVE SettingsInv'
<1>1. FitInv'
  BY FitRequest, FitProceed, FitRestarts DEF SettingsInv, Settings!Next
<1>2. QED BY <1>1, ShapeKept, PauseKept DEF SettingsInv

LEMMA SettingsAlways == Spec => [](topic = "settings" => SettingsInv)
<1> DEFINE Holds == topic = "settings" => SettingsInv
<1>1. Init => Holds BY SettingsBegin DEF Init
<1>2. Holds /\ [Next]_vars => Holds'
  <2>1. Next => topic' = topic /\ (topic = "settings" => Settings!Next)
    BY DEF Next, SettingsStep, SessionStep, CallsStep, IntakeStep, PollStep, RunStep,
       LinksStep, FieldStep, PreflightStep, ConditionsStep
  <2>2. Holds /\ Next => Holds' BY <2>1, SettingsGoOn
  <2>3. Holds /\ UNCHANGED vars => Holds'
    BY DEF vars, settingsPart, SettingsInv, SettingsShape, PauseInv, LiveRow, LiveMem,
       FitInv, Placed, Editing, HalfPaired, Settings!Writing
  <2>4. QED BY <2>2, <2>3
<1>3. QED BY <1>1, <1>2, PTL DEF Spec

\* "Pause both so nothing syncs against the edited configuration until an operator
\* reviews it" (server.ts:66-71): with any number of requests and restarts, an
\* object whose configuration was edited stays off until somebody asks for other
\* settings, unless two configs are written at the same time.
THEOREM PauseAlwaysHolds == Spec => []PauseHolds
<1>1. (topic = "settings" => SettingsInv) => PauseHolds
  BY DEF SettingsInv, PauseInv, LiveMem, PauseHolds, Settings!PauseHolds
<1>2. QED BY <1>1, SettingsAlways, PTL

\* The field rules and the natural key in use are those of the paired objects,
\* whatever fails and whenever the process restarts, as long as a re-pairing is
\* neither cut short nor overlapped by another edit.
THEOREM RulesAlwaysFit == Spec => []RulesFitPairing
<1>1. (topic = "settings" => SettingsInv) => RulesFitPairing
  BY DEF SettingsInv, FitInv, Fit, RulesFitPairing, Settings!RulesFitPairing
<1>2. QED BY <1>1, SettingsAlways, PTL

-----------------------------------------------------------------------------
(* The session with one CRM *)
CallerShape == [at : {"away", "get", "got", "waits", "warm"},
                for : {"init", "retry"}, conn : Session!Rows \cup {None}]

FlightShape == [at : {"none", "asked", "answered"},
                conn : Session!Rows \cup {None},
                refresh : Session!Token, access : Session!Token]

SessionShape ==
  /\ conn \in Session!Rows \cup {None} /\ issued \in Session!Token
  /\ flight \in FlightShape /\ (flight.at # "none" => flight.conn \in Session!Rows)
  /\ caller \in [Actor -> CallerShape]
  /\ resets \in Nat

-----------------------------------------------------------------------------
(* Shapes *)

LEMMA RowShape ==
  ASSUME NEW g \in Session!Grant, NEW r \in Session!Token, NEW a \in Session!Token
  PROVE  /\ Session!Row(g, r, a) \in Session!Rows /\ Session!Row(g, r, a) # None
         /\ Session!Row(g, r, a).grant = g /\ Session!Row(g, r, a).refresh = r
BY NoneIsNoRow DEF Session!Row, Session!Rows

LEMMA Zero == 0 \in Session!Grant /\ 0 \in Session!Token
BY PlatformAssumption DEF Session!Grant, Session!Token

LEMMA AwayShape ==
  /\ Session!Away \in CallerShape /\ Session!Away.at = "away"
  /\ Session!NoFlight \in FlightShape /\ Session!NoFlight.at = "none"
BY Zero DEF Session!Away, CallerShape, Session!NoFlight, FlightShape

\* The next token
LEMMA NextToken ==
  ASSUME issued \in Session!Token, issued < MaxTokens
  PROVE  issued + 1 \in Session!Token
BY PlatformAssumption DEF Session!Token

\* What one caller becomes
LEMMA CallerKept ==
  ASSUME SessionShape, NEW c \in Actor, NEW e \in CallerShape
  PROVE  /\ [caller EXCEPT ![c] = e] \in [Actor -> CallerShape]
         /\ \A l \in {"away", "get", "got", "waits", "warm"} :
              [e EXCEPT !.at = l] \in CallerShape
         /\ \A l \in {"init", "retry"} :
              [Session!Away EXCEPT !.at = "get", !.for = l] \in CallerShape
         /\ [Session!Away EXCEPT !.at = "get"] \in CallerShape
         /\ \A r \in Session!Rows \cup {None} : [e EXCEPT !.conn = r] \in CallerShape
BY AwayShape DEF SessionShape, CallerShape

LEMMA AdminKeepsShape == ASSUME SessionShape, Session!Admin PROVE SessionShape'
<1>1. CASE Session!Start \/ Session!Disconnect \/ Session!SaveCredentials
           \/ Session!Reset
  <2>1. \/ resets' = resets \/ resets' = resets + 1
        \/ resets > 0 /\ resets' = resets - 1
    BY <1>1 DEF Session!Start, Session!Disconnect, Session!SaveCredentials,
       Session!Reset
  <2>2. conn' \in {conn, None} /\ UNCHANGED <<issued, flight, caller>>
    BY <1>1 DEF Session!Start, Session!Disconnect, Session!SaveCredentials,
       Session!Reset, Session!vendorVars
  <2>3. QED BY <2>1, <2>2 DEF SessionShape
<1>2. ASSUME NEW g \in Session!Grant,
             Session!StateExpires(g) \/ Session!Callback(g) \/ Session!ExchangeFails(g)
      PROVE  SessionShape'
  BY <1>2 DEF Session!StateExpires, Session!Callback, Session!ExchangeFails,
     SessionShape, Session!vendorVars, Session!historyVars
<1>3. ASSUME NEW g \in Session!Grant, Session!Exchanged(g) PROVE SessionShape'
  <2>1. issued + 1 \in Session!Token
    BY <1>3, NextToken DEF Session!Exchanged, SessionShape
  <2>2. Session!Row(g, issued + 1, issued + 1) \in Session!Rows BY <2>1, RowShape
  <2>3. QED BY <1>3, <2>1, <2>2 DEF Session!Exchanged, SessionShape
<1>4. QED BY <1>1, <1>2, <1>3 DEF Session!Admin

LEMMA CallerKeepsShape ==
  ASSUME SessionShape, NEW c \in Actor, Session!Asks(c) PROVE SessionShape'
<1>1. caller \in [Actor -> CallerShape] /\ caller[c] \in CallerShape
  BY DEF SessionShape
<1>2. ASSUME NEW l \in {"away", "get", "got", "waits", "warm"}, Session!Goes(c, l)
      PROVE  caller' \in [Actor -> CallerShape]
  BY <1>1, <1>2, CallerKept DEF Session!Goes
<1>3. CASE Session!EnsureLiveInit(c) \/ Session!Unauthorized(c)
  BY <1>1, <1>3, CallerKept DEF Session!EnsureLiveInit, Session!Unauthorized,
     SessionShape, Session!vendorVars, Session!adminVars
<1>4. CASE Session!Get(c)
  <2>1. [caller[c] EXCEPT !.at = "got", !.conn = conn] \in CallerShape
    BY <1>1 DEF CallerShape, SessionShape
  <2>2. QED
    BY <1>1, <1>4, <2>1 DEF Session!Get, SessionShape, Session!vendorVars,
       Session!adminVars
<1>5. CASE Session!Seed(c)
  <2>1. Session!Row(0, 0, 0) \in Session!Rows BY Zero, RowShape
  <2>2. QED
    BY <1>1, <1>5, <2>1, CallerKept DEF Session!Seed, SessionShape,
       Session!vendorVars, Session!adminVars
<1>6. CASE Session!StartRefresh(c)
  <2>1. caller[c].conn \in Session!Rows
    BY <1>1, <1>6 DEF Session!StartRefresh, Session!Stale, CallerShape
  <2>2. flight' = [Session!NoFlight EXCEPT !.at = "asked", !.conn = caller[c].conn]
    BY <1>6 DEF Session!StartRefresh
  <2>3. flight' \in FlightShape /\ flight'.conn = caller[c].conn
    BY <2>1, <2>2, AwayShape DEF FlightShape
  <2>4. QED
    BY <1>2, <1>6, <2>1, <2>3 DEF Session!StartRefresh, SessionShape,
       Session!vendorVars, Session!adminVars
<1>7. CASE Session!HandOut(c)
  BY <1>2, <1>7 DEF Session!HandOut, Session!Given, SessionShape,
     Session!vendorVars, Session!adminVars
<1>8. CASE Session!NotConnected(c) \/ Session!Join(c) \/ Session!Ready(c)
           \/ Session!InitFails(c)
  BY <1>2, <1>8 DEF Session!NotConnected, Session!Join, Session!Ready,
     Session!InitFails, SessionShape, Session!vendorVars, Session!adminVars
<1>9. QED BY <1>3, <1>4, <1>5, <1>6, <1>7, <1>8 DEF Session!Asks

\* The end of a refresh, well or ill
LEMMA RejectedShape ==
  ASSUME SessionShape, Session!Rejected
  PROVE  caller' \in [Actor -> CallerShape]
BY AwayShape DEF Session!Rejected, SessionShape

LEMMA FlightKeepsShape ==
  ASSUME SessionShape,
         Session!Refreshed \/ Session!Refused \/ Session!ReplyLost \/ Session!Store
           \/ Session!Expires \/ Session!Restart
  PROVE  SessionShape'
<1>1. /\ flight.refresh \in Session!Token /\ flight.access \in Session!Token
      /\ flight.at # "none" => /\ flight.conn \in Session!Rows
                               /\ flight.conn.grant \in Session!Grant
                               /\ flight.conn.refresh \in Session!Token
  BY DEF SessionShape, FlightShape, Session!Rows
<1>2. CASE Session!Refreshed
  <2>1. issued' \in Session!Token /\ issued' = issued + 1
    BY <1>2, NextToken DEF Session!Refreshed, Session!Issue, SessionShape
  <2>2. flight' = [flight EXCEPT !.at = "answered", !.access = issued + 1,
          !.refresh = IF Rotates THEN issued + 1 ELSE flight.conn.refresh]
    BY <1>2 DEF Session!Refreshed
  <2>3. flight' \in FlightShape /\ flight'.conn = flight.conn
    BY <1>1, <1>2, <2>1, <2>2 DEF Session!Refreshed, SessionShape, FlightShape
  <2>4. QED
    BY <1>1, <1>2, <2>1, <2>3 DEF Session!Refreshed, SessionShape, Session!adminVars
<1>3. CASE Session!Refused
  BY <1>3, RejectedShape, AwayShape DEF Session!Refused, SessionShape,
     Session!vendorVars, Session!adminVars
<1>4. CASE Session!ReplyLost
  <2>1. issued' \in Session!Token
    BY <1>4, NextToken DEF Session!ReplyLost, Session!Issue, SessionShape
  <2>2. QED
    BY <1>4, <2>1, RejectedShape, AwayShape DEF Session!ReplyLost, SessionShape,
       Session!adminVars
<1>5. CASE Session!Store
  <2>1. conn' \in Session!Rows
    BY <1>1, <1>5, RowShape DEF Session!Store, Session!RefreshedRow
  <2>2. caller' \in [Actor -> CallerShape]
    <3>1. \A c \in Actor : caller[c] \in CallerShape
                           /\ [caller[c] EXCEPT !.at = "warm"] \in CallerShape
      BY DEF SessionShape, CallerShape
    <3>2. QED BY <1>5, <3>1, AwayShape DEF Session!Store
  <2>3. QED
    BY <1>5, <2>1, <2>2, AwayShape DEF Session!Store, SessionShape,
       Session!vendorVars, Session!adminVars
<1>6. CASE Session!Expires
  BY <1>6 DEF Session!Expires, SessionShape, Session!adminVars
<1>7. CASE Session!Restart
  BY <1>7, AwayShape DEF Session!Restart, SessionShape, Session!vendorVars
<1>8. QED BY <1>2, <1>3, <1>4, <1>5, <1>6, <1>7

-----------------------------------------------------------------------------
(* The stored refresh token *)

\* The reply that a refresh holds is good, and so is the row, or its successor.
TokenInv ==
  /\ flight.at = "answered" => flight.refresh \in valid
  /\ Session!TokenKept

LEMMA TokenUntouched ==
  ASSUME TokenInv, UNCHANGED <<conn, flight, cut>>, valid \subseteq valid'
  PROVE  TokenInv'
BY DEF TokenInv, Session!TokenKept

LEMMA TokenGoesOn ==
  ASSUME SessionShape, TokenInv, Session!Next PROVE TokenInv'
<1>1. CASE Session!Admin
  <2>1. CASE Session!Start \/ Session!SaveCredentials \/ Session!Reset
    BY <2>1, TokenUntouched DEF Session!Start, Session!SaveCredentials,
       Session!Reset, Session!vendorVars, Session!historyVars
  <2>2. CASE Session!Disconnect
    BY <2>2 DEF Session!Disconnect, TokenInv, Session!TokenKept, Session!vendorVars,
       Session!historyVars
  <2>3. ASSUME NEW g \in Session!Grant,
               Session!StateExpires(g) \/ Session!Callback(g) \/ Session!ExchangeFails(g)
        PROVE  TokenInv'
    BY <2>3, TokenUntouched DEF Session!StateExpires, Session!Callback,
       Session!ExchangeFails, Session!vendorVars, Session!historyVars
  <2>4. ASSUME NEW g \in Session!Grant, Session!Exchanged(g) PROVE TokenInv'
    <3>1. conn'.refresh = issued + 1 BY <2>4 DEF Session!Exchanged, Session!Row
    <3>2. QED BY <2>4, <3>1 DEF Session!Exchanged, TokenInv, Session!TokenKept
  <2>5. QED BY <1>1, <2>1, <2>2, <2>3, <2>4 DEF Session!Admin
<1>2. ASSUME NEW c \in Actor, Session!Asks(c) PROVE TokenInv'
  <2>1. CASE Session!Seed(c)
    <3>1. conn'.refresh = 0 BY <2>1 DEF Session!Seed, Session!Row
    <3>2. QED BY <2>1, <3>1 DEF Session!Seed, TokenInv, Session!TokenKept,
             Session!vendorVars
  <2>2. CASE Session!StartRefresh(c)
    <3>1. CASE flight.at = "answered"
      BY <2>2, <3>1, AwayShape DEF Session!StartRefresh
    <3>2. CASE flight.at # "answered"
      <4>1. flight'.at = "asked"
        BY <2>2, AwayShape DEF Session!StartRefresh, Session!NoFlight
      <4>2. QED
        BY <2>2, <3>2, <4>1 DEF Session!StartRefresh, TokenInv, Session!TokenKept,
           Session!vendorVars, Session!historyVars
    <3>3. QED BY <3>1, <3>2
  <2>3. CASE ~Session!Seed(c) /\ ~Session!StartRefresh(c)
    <3>1. UNCHANGED <<conn, valid, flight, cut>>
      BY <1>2, <2>3 DEF Session!Asks, Session!EnsureLiveInit, Session!Unauthorized,
         Session!Get, Session!NotConnected, Session!HandOut, Session!Join,
         Session!Ready, Session!InitFails, Session!vendorVars, Session!historyVars
    <3>2. QED BY <3>1, TokenUntouched
  <2>4. QED BY <2>1, <2>2, <2>3
<1>3. CASE Session!Refreshed
  <2>1. flight'.at = "answered" /\ flight'.refresh
          = IF Rotates THEN issued + 1 ELSE flight.conn.refresh
    BY <1>3 DEF Session!Refreshed, SessionShape, FlightShape
  <2>2. flight'.refresh \in valid' /\ conn' = conn /\ cut' = cut
    BY <1>3, <2>1 DEF Session!Refreshed, Session!Issue, Session!historyVars
  <2>3. QED BY <2>1, <2>2 DEF TokenInv, Session!TokenKept
<1>4. CASE Session!Refused
  BY <1>4, AwayShape DEF Session!Refused, TokenInv, Session!TokenKept,
     Session!vendorVars
<1>5. CASE Session!ReplyLost
  BY <1>5, AwayShape DEF Session!ReplyLost, TokenInv, Session!TokenKept
<1>6. CASE Session!Store
  <2>1. conn'.refresh = flight.refresh
    BY <1>6 DEF Session!Store, Session!RefreshedRow, Session!Row
  <2>2. QED
    BY <1>6, <2>1, AwayShape DEF Session!Store, TokenInv, Session!TokenKept,
       Session!vendorVars
<1>7. CASE Session!Expires
  BY <1>7, TokenUntouched DEF Session!Expires, Session!historyVars
<1>8. CASE Session!Restart
  BY <1>8, AwayShape DEF Session!Restart, TokenInv, Session!TokenKept,
     Session!vendorVars
<1>9. QED
  BY <1>1, <1>2, <1>3, <1>4, <1>5, <1>6, <1>7, <1>8 DEF Session!Next

-----------------------------------------------------------------------------
(* The client *)

\* The connection has the grant g.
Has(g) == conn # None /\ conn.grant = g

\* Since the last reset found nobody initializing, whoever builds a client does it
\* from the connection that is stored.
Current ==
  /\ flight.at # "none" => Has(flight.conn.grant)
  /\ liveInited => Has(client.grant)
  /\ \A c \in Actor :
       /\ caller[c].at = "warm" => Has(client.grant)
       /\ caller[c].at = "got" /\ caller[c].conn # None => Has(caller[c].conn.grant)
       /\ caller[c].at = "got" /\ caller[c].conn = None => conn = None \/ Has(0)

ClientInv ==
  /\ flight.at # "none" => \E c \in Actor : caller[c].at = "waits"
  /\ resets = 0 /\ ~raced => Current

LEMMA ClientAdmin ==
  ASSUME SessionShape, ClientInv, Session!Admin PROVE ClientInv'
<1>1. CASE Session!Start
  BY <1>1 DEF Session!Start, ClientInv, Current, Has, Session!historyVars
<1>2. CASE Session!Disconnect \/ Session!SaveCredentials
  BY <1>2 DEF Session!Disconnect, Session!SaveCredentials, ClientInv
<1>3. CASE Session!Reset
  <2>1. UNCHANGED <<flight, caller, conn>> /\ liveInited' = FALSE
        /\ (raced' <=> \E c \in Actor : caller[c].at # "away")
    BY <1>3 DEF Session!Reset, Session!ForceInit, Session!Initializing
  <2>2. ~raced' => Current' BY <2>1 DEF ClientInv, Current
  <2>3. QED BY <2>1, <2>2 DEF ClientInv
<1>4. ASSUME NEW g \in Session!Grant,
             Session!StateExpires(g) \/ Session!Callback(g) \/ Session!ExchangeFails(g)
      PROVE  ClientInv'
  BY <1>4 DEF Session!StateExpires, Session!Callback, Session!ExchangeFails,
     ClientInv, Current, Has, Session!historyVars
<1>5. ASSUME NEW g \in Session!Grant, Session!Exchanged(g) PROVE ClientInv'
  BY <1>5 DEF Session!Exchanged, ClientInv, SessionShape
<1>6. QED BY <1>1, <1>2, <1>3, <1>4, <1>5 DEF Session!Admin

LEMMA ClientAsks ==
  ASSUME SessionShape, ClientInv, NEW c \in Actor, Session!Asks(c) PROVE ClientInv'
<1>1. caller \in [Actor -> CallerShape] BY DEF SessionShape
<1>2. \A d \in Actor \ {c} : caller'[d] = caller[d]
  BY <1>1 DEF Session!Asks, Session!EnsureLiveInit, Session!Unauthorized,
     Session!Get, Session!Seed, Session!NotConnected, Session!HandOut,
     Session!Given, Session!Join, Session!StartRefresh, Session!Ready,
     Session!InitFails, Session!Goes
<1>3. ASSUME NEW l \in {"away", "get", "got", "waits", "warm"}, Session!Goes(c, l)
      PROVE  caller'[c].at = l /\ caller'[c].conn = caller[c].conn
  BY <1>1, <1>3 DEF Session!Goes, CallerShape
<1>4. CASE Session!EnsureLiveInit(c) \/ Session!Unauthorized(c)
  <2>1. /\ caller[c].at = "away" /\ caller'[c].at = "get"
        /\ UNCHANGED <<conn, flight, client, liveInited, resets, raced>>
    BY <1>1, <1>4, AwayShape DEF Session!EnsureLiveInit, Session!Unauthorized,
       Session!Initializing, Session!adminVars, Session!historyVars, CallerShape
  <2>2. QED BY <1>2, <2>1 DEF ClientInv, Current, Has
<1>5. CASE Session!Get(c)
  <2>1. /\ caller[c].at = "get" /\ caller'[c].at = "got" /\ caller'[c].conn = conn
        /\ UNCHANGED <<conn, flight, client, liveInited, resets, raced>>
    BY <1>1, <1>5 DEF Session!Get, Session!adminVars, Session!historyVars, CallerShape
  <2>2. QED BY <1>2, <2>1 DEF ClientInv, Current, Has
<1>6. CASE Session!Seed(c)
  <2>1. /\ caller[c].at = "got" /\ caller[c].conn = None
        /\ caller'[c].at = "got" /\ caller'[c].conn = Session!Row(0, 0, 0)
        /\ conn' = Session!Row(0, 0, 0)
        /\ UNCHANGED <<flight, client, liveInited, resets, raced>>
    BY <1>1, <1>6 DEF Session!Seed, Session!adminVars, CallerShape
  <2>2. conn' # None /\ conn'.grant = 0 BY <2>1, Zero, RowShape
  <2>3. QED BY <1>2, <2>1, <2>2 DEF ClientInv, Current, Has
<1>7. CASE Session!HandOut(c)
  <2>1. /\ caller[c].at = "got" /\ caller[c].conn # None
        /\ caller'[c].at \in {"warm", "away"}
        /\ client'.grant = caller[c].conn.grant
        /\ UNCHANGED <<conn, flight, liveInited, resets, raced>>
    BY <1>3, <1>7 DEF Session!HandOut, Session!Given, Session!adminVars,
       Session!historyVars
  <2>2. QED BY <1>2, <2>1 DEF ClientInv, Current, Has
<1>8. CASE Session!StartRefresh(c)
  <2>1. /\ caller[c].at = "got" /\ caller[c].conn # None
        /\ caller'[c].at = "waits" /\ flight'.conn = caller[c].conn
        /\ UNCHANGED <<conn, client, liveInited, resets, raced>>
    BY <1>3, <1>8, AwayShape DEF Session!StartRefresh, Session!Stale,
       Session!NoFlight, Session!adminVars, Session!historyVars
  <2>2. QED BY <1>2, <2>1 DEF ClientInv, Current, Has
<1>9. CASE Session!Ready(c)
  <2>1. /\ caller[c].at = "warm" /\ caller'[c].at = "away"
        /\ UNCHANGED <<conn, flight, client, resets, raced>>
    BY <1>3, <1>9 DEF Session!Ready, Session!adminVars, Session!historyVars
  <2>2. QED BY <1>2, <2>1 DEF ClientInv, Current, Has
<1>10. CASE Session!NotConnected(c) \/ Session!Join(c) \/ Session!InitFails(c)
  <2>1. /\ caller[c].at \in {"got", "warm"} /\ caller'[c].at \in {"away", "waits"}
        /\ UNCHANGED <<conn, flight, client, liveInited, resets, raced>>
    BY <1>3, <1>10 DEF Session!NotConnected, Session!Join, Session!InitFails,
       Session!Stale, Session!adminVars, Session!historyVars
  <2>2. QED BY <1>2, <2>1 DEF ClientInv, Current, Has
<1>11. QED
  BY <1>4, <1>5, <1>6, <1>7, <1>8, <1>9, <1>10 DEF Session!Asks

LEMMA ClientFlight ==
  ASSUME SessionShape, ClientInv,
         Session!Refreshed \/ Session!Refused \/ Session!ReplyLost \/ Session!Store
           \/ Session!Expires \/ Session!Restart
  PROVE  ClientInv'
<1>1. CASE Session!Refreshed
  <2>1. /\ flight.at = "asked" /\ flight'.conn = flight.conn
        /\ UNCHANGED <<conn, caller, client, liveInited, resets, raced>>
    BY <1>1 DEF Session!Refreshed, SessionShape, FlightShape, Session!adminVars,
       Session!historyVars
  <2>2. QED BY <2>1 DEF ClientInv, Current, Has
<1>2. CASE Session!Refused \/ Session!ReplyLost
  <2>1. /\ flight'.at = "none"
        /\ \A c \in Actor : caller'[c] = caller[c] \/ caller'[c].at = "away"
        /\ UNCHANGED <<conn, client, liveInited, resets, raced>>
    BY <1>2, AwayShape DEF Session!Refused, Session!ReplyLost, Session!Rejected,
       Session!adminVars
  <2>2. QED BY <2>1 DEF ClientInv, Current, Has
<1>3. CASE Session!Store
  <2>1. flight.conn.grant \in Session!Grant /\ flight.refresh \in Session!Token
        /\ flight.access \in Session!Token
    BY <1>3 DEF Session!Store, SessionShape, FlightShape, Session!Rows
  <2>2. conn' # None /\ conn'.grant = flight.conn.grant
    BY <1>3, <2>1, RowShape DEF Session!Store, Session!RefreshedRow
  <2>3. \A c \in Actor : caller'[c] = caller[c] \/ caller'[c].at \in {"warm", "away"}
    BY <1>3, AwayShape DEF Session!Store, SessionShape, CallerShape
  <2>4. \E c \in Actor : caller[c].at = "waits"
    BY <1>3 DEF Session!Store, ClientInv
  <2>5. client'.grant = flight.conn.grant BY <1>3, <2>4 DEF Session!Store
  <2>6. /\ flight.at = "answered" /\ flight'.at = "none"
        /\ UNCHANGED <<liveInited, resets, raced>>
    BY <1>3, AwayShape DEF Session!Store, Session!adminVars, Session!historyVars
  <2>7. QED BY <2>2, <2>3, <2>5, <2>6 DEF ClientInv, Current, Has
<1>4. CASE Session!Expires
  BY <1>4 DEF Session!Expires, ClientInv, Current, Has, Session!adminVars,
     Session!historyVars
<1>5. CASE Session!Restart
  BY <1>5, AwayShape DEF Session!Restart, ClientInv, Current, Has
<1>6. QED BY <1>1, <1>2, <1>3, <1>4, <1>5

-----------------------------------------------------------------------------
SessionInv == SessionShape /\ TokenInv /\ ClientInv

LEMMA SessionBegins == ASSUME Session!Init PROVE SessionInv
<1>1. SessionShape
  BY Zero, AwayShape DEF Session!Init, SessionShape
<1>2. TokenInv BY AwayShape DEF Session!Init, TokenInv, Session!TokenKept
<1>3. ClientInv BY AwayShape DEF Session!Init, ClientInv, Current
<1>4. QED BY <1>1, <1>2, <1>3 DEF SessionInv

LEMMA SessionGoesOn == ASSUME SessionInv, Session!Next PROVE SessionInv'
<1>1. SessionShape'
  BY AdminKeepsShape, CallerKeepsShape, FlightKeepsShape DEF SessionInv, Session!Next
<1>2. ClientInv'
  BY ClientAdmin, ClientAsks, ClientFlight DEF SessionInv, Session!Next
<1>3. QED BY <1>1, <1>2, TokenGoesOn DEF SessionInv

LEMMA SessionAlways == Spec => [](topic = "session" => SessionInv)
<1> DEFINE Holds == topic = "session" => SessionInv
<1>1. Init => Holds BY SessionBegins DEF Init
<1>2. Holds /\ [Next]_vars => Holds'
  <2>1. Next => topic' = topic /\ (topic = "session" => Session!Next)
    BY DEF Next, SettingsStep, SessionStep, CallsStep, IntakeStep, PollStep, RunStep,
       LinksStep, FieldStep, PreflightStep, ConditionsStep
  <2>2. Holds /\ Next => Holds' BY <2>1, SessionGoesOn
  <2>3. Holds /\ UNCHANGED vars => Holds'
    BY DEF vars, sessionPart, SessionInv, SessionShape, TokenInv, Session!TokenKept,
       ClientInv, Current, Has
  <2>4. QED BY <2>2, <2>3
<1>3. QED BY <1>1, <1>2, PTL DEF Spec

\* Refresh-token rotation is persisted (HANDOFF.md:107): for any number of
\* callers, reconnections and refreshes that overlap, the stored refresh token is
\* one the vendor takes, or its successor is held by the refresh in flight, unless
\* an answer was lost or the row was seeded from the environment.
THEOREM TokenAlwaysKept == Spec => []TokenKept
<1>1. (topic = "session" => SessionInv) => TokenKept
  BY DEF SessionInv, TokenInv, TokenKept
<1>2. QED BY <1>1, SessionAlways, PTL

\* A connector taken as initialized calls the organization that is connected,
\* unless an initialization was under way when its flag was cleared.
THEOREM ClientAlwaysCurrent == Spec => []ClientIsCurrent
<1>1. (topic = "session" => SessionInv) => ClientIsCurrent
  BY DEF SessionInv, ClientInv, Current, Has, ClientIsCurrent, Session!ClientIsCurrent
<1>2. QED BY <1>1, SessionAlways, PTL
===============================================================================
