---------------------------- MODULE SyncSettings ----------------------------
(* What an operator configures for one object, and the pause that an edit of *)
(* it causes: the routes of server.ts that change the pairing, the field      *)
(* rules, the natural key, the value translations and the sync settings, over *)
(* stores that keep a row in PostgreSQL and a copy in memory. Executions and  *)
(* polls read the copy only.                                                  *)
EXTENDS Naturals, FiniteSets

CONSTANTS
  Handler,      \* HTTP requests in progress
  NoRules,      \* the empty list of field rules, the absent natural key: no number
  MaxPairing,   \* bound: re-pairings of the object
  MaxRequests,  \* bound: requests
  MaxRestarts   \* bound: restarts of the process

\* Rules and keys are known by the pairing whose fields they name.
Pairing == 0 .. MaxPairing
Rules   == Pairing \cup {NoRules}

\* A SyncConfig: enabled of the object's objects and polling entries, and the
\* entry of an object that is registered meanwhile.
Config == [sync : BOOLEAN, poll : BOOLEAN, other : {"absent", "off", "on"}]
Live(c) == c.sync \/ c.poll
Off(c)  == [c EXCEPT !.sync = FALSE, !.poll = FALSE]
NoConfig == [sync |-> FALSE, poll |-> FALSE, other |-> "absent"]

VARIABLES
  row,         \* object_mappings, field_mappings and tenants.settings.sync
  mem,         \* their copies: registry, rules, natural keys, syncConfig
  req,         \* per handler: which route, where it is, the config it computed
  requests, restarts,
  unreviewed,  \* history: an edit was answered and no settings request came since
  overlap,     \* history: a config was computed while another was being written
  torn         \* history: a re-pairing was cut short, or an edit overlapped it

historyVars  == <<unreviewed, overlap, torn>>
settingsVars == <<row, mem, req, requests, restarts, historyVars>>

Stored == [pairing : Pairing, rules : Rules, key : Rules, other : BOOLEAN,
           config : Config]

NoRequest == [route |-> "none", at |-> "none", config |-> NoConfig,
              rules |-> NoRules]

Init ==
  /\ row = [pairing |-> 0, rules |-> 0, key |-> 0, other |-> FALSE,
            config |-> [NoConfig EXCEPT !.sync = TRUE]]
  /\ mem = row
  /\ req = [h \in Handler |-> NoRequest]
  /\ requests = 0 /\ restarts = 0
  /\ unreviewed = FALSE
  /\ overlap = FALSE
  /\ torn = FALSE

-----------------------------------------------------------------------------
At(h, l) == req[h].at = l

Arrives(h) == /\ req[h] = NoRequest
              /\ requests < MaxRequests
              /\ requests' = requests + 1

Ends(h) == req' = [req EXCEPT ![h] = NoRequest]

\* Between computing a config and replacing the copy: PostgresSyncConfigStore
\* awaits the database.
Writing(h) == req[h].at \in {"write", "replace"}
SomeoneWrites == \E h \in Handler : Writing(h)

\* syncConfig.update(c), called by handler h
Compute(h, r, c) ==
  req' = [req EXCEPT ![h] = [NoRequest EXCEPT !.route = r, !.at = "write",
                                             !.config = c]]

Begin(h, r, rules) ==
  req' = [req EXCEPT ![h] = [NoRequest EXCEPT !.route = r, !.at = r,
                                             !.rules = rules]]

Editing(routes) == \E h \in Handler : req[h].route \in routes

-----------------------------------------------------------------------------
(* The routes, each up to its first await *)

\* PUT /api/mappings: configureFieldRules first, the transaction after it.
EditRules(h) ==
  /\ Arrives(h)
  /\ mem' = [mem EXCEPT !.rules = mem.pairing]
  /\ Begin(h, "rules", mem.pairing)
  /\ torn' = (torn \/ Editing({"pair"}))
  /\ UNCHANGED <<row, restarts, unreviewed, overlap>>

\* PUT /api/object-mappings/:type: fields mapped in both CRMs and stable
EditKey(h) ==
  /\ Arrives(h)
  /\ mem.rules # NoRules
  /\ mem' = [mem EXCEPT !.key = mem.rules]
  /\ Begin(h, "key", mem.rules)
  /\ torn' = (torn \/ Editing({"pair"}))
  /\ UNCHANGED <<row, restarts, unreviewed, overlap>>

\* PUT /api/object-mappings/:type/native-objects
RePair(h) ==
  /\ Arrives(h)
  /\ Begin(h, "pair", NoRules)
  /\ torn' = (torn \/ Editing({"rules", "key", "pair"}))
  /\ UNCHANGED <<row, mem, restarts, unreviewed, overlap>>

\* PUT /api/value-mappings/:type/:field
EditValues(h) ==
  /\ Arrives(h)
  /\ Begin(h, "values", NoRules)
  /\ UNCHANGED <<row, mem, restarts, historyVars>>

\* PATCH /api/sync/settings: objects or polling may be absent from the body,
\* and are then those of the copy.
PatchSettings(h) ==
  /\ Arrives(h)
  /\ \E c \in Config : /\ c.other = mem.config.other
                       /\ Compute(h, "settings", c)
  /\ overlap' = (overlap \/ SomeoneWrites)
  /\ UNCHANGED <<row, mem, restarts, unreviewed, torn>>

\* POST /api/object-mappings of another object: its row is inserted, then the
\* copy with one more entry is computed.
CreateOther(h) ==
  /\ Arrives(h)
  /\ ~row.other
  /\ row' = [row EXCEPT !.other = TRUE]
  /\ mem' = [mem EXCEPT !.other = TRUE]
  /\ Compute(h, "create", [mem.config EXCEPT !.other = "off"])
  /\ overlap' = (overlap \/ SomeoneWrites)
  /\ UNCHANGED <<restarts, unreviewed, torn>>

-----------------------------------------------------------------------------
(* The awaited calls *)

\* Mutant: polling alone does not count as syncing.
PauseWebhooksOnly(h) ==
  /\ overlap' = (overlap \/ SomeoneWrites)
  /\ IF mem.config.sync
       THEN Compute(h, req[h].route, Off(mem.config)) /\ UNCHANGED unreviewed
       ELSE Ends(h) /\ unreviewed' = TRUE

\* pauseSyncIfLive(): not live, nothing to write; the edit is answered.
PauseOrAnswer(h) ==
  /\ overlap' = (overlap \/ SomeoneWrites)
  /\ IF Live(mem.config)
       THEN Compute(h, req[h].route, Off(mem.config)) /\ UNCHANGED unreviewed
       ELSE Ends(h) /\ unreviewed' = TRUE

Advance(h, l) == req' = [req EXCEPT ![h].at = l]

\* The transaction of mappingStore.set
StoreRules(h) ==
  /\ At(h, "rules")
  /\ row' = [row EXCEPT !.rules = req[h].rules]
  /\ Advance(h, "audit")
  /\ UNCHANGED <<mem, requests, restarts, historyVars>>

\* The UPDATE of setNaturalKeyFields
StoreKey(h) ==
  /\ At(h, "key")
  /\ row' = [row EXCEPT !.key = req[h].rules]
  /\ Advance(h, "pause")
  /\ UNCHANGED <<mem, requests, restarts, historyVars>>

\* Mutant: the row keeps the natural key of the pairing before.
StorePairingAlone(h) ==
  /\ At(h, "pair")
  /\ row.pairing < MaxPairing
  /\ row' = [row EXCEPT !.pairing = @ + 1]
  /\ Advance(h, "paired")
  /\ UNCHANGED <<mem, requests, restarts, historyVars>>

\* setNativeObjects(): one UPDATE for the pairing and the natural key
StorePairing(h) ==
  /\ At(h, "pair")
  /\ row.pairing < MaxPairing
  /\ row' = [row EXCEPT !.pairing = @ + 1, !.key = NoRules]
  /\ Advance(h, "paired")
  /\ UNCHANGED <<mem, requests, restarts, historyVars>>

\* Its reply: the registry follows, and both calls of mappingStore.set empty
\* the rules in memory before their transactions begin.
AdoptPairing(h) ==
  /\ At(h, "paired")
  /\ mem' = [mem EXCEPT !.pairing = row.pairing, !.key = NoRules, !.rules = NoRules]
  /\ Advance(h, "rules")
  /\ UNCHANGED <<row, requests, restarts, historyVars>>

\* replace(): the translations and their reload
StoreValues(h) ==
  /\ At(h, "values")
  /\ Advance(h, "pause")
  /\ UNCHANGED <<row, mem, requests, restarts, historyVars>>

\* The mapping route audits before it pauses, the others after.
Audit(h) ==
  /\ At(h, "audit")
  /\ Advance(h, "pause")
  /\ UNCHANGED <<row, mem, requests, restarts, historyVars>>

Pause(h) ==
  /\ At(h, "pause")
  /\ PauseOrAnswer(h)
  /\ UNCHANGED <<row, mem, requests, restarts, torn>>

\* update(): the row first ...
WriteConfig(h) ==
  /\ At(h, "write")
  /\ row' = [row EXCEPT !.config = req[h].config]
  /\ Advance(h, "replace")
  /\ unreviewed' = (unreviewed /\ req[h].route # "settings")
  /\ UNCHANGED <<mem, requests, restarts, overlap, torn>>

\* ... then the copy; the request is answered.
ReplaceConfig(h) ==
  /\ At(h, "replace")
  /\ mem' = [mem EXCEPT !.config = req[h].config]
  /\ unreviewed' = (unreviewed \/ req[h].route \notin {"settings", "create"})
  /\ Ends(h)
  /\ UNCHANGED <<row, requests, restarts, overlap, torn>>

\* A call to the database throws before it took effect: the request is
\* answered with an error, and what it has done stays.
Fails(h) ==
  /\ req[h].at \notin {"none", "paired", "pause", "replace"}
  /\ Ends(h)
  /\ torn' = (torn \/ (req[h].at = "rules" /\ req[h].route = "pair"))
  /\ UNCHANGED <<row, mem, requests, restarts, unreviewed, overlap>>

\* mergeConfig(): a registered object that the row has no entry for gets the
\* default, which is enabled.
Merged(r) ==
  [r.config EXCEPT !.other = IF r.other /\ @ = "absent" THEN "on" ELSE @]

\* The stores' init(): every copy is read from its row.
Restart ==
  /\ restarts < MaxRestarts
  /\ restarts' = restarts + 1
  /\ mem' = [row EXCEPT !.config = Merged(row)]
  /\ req' = [h \in Handler |-> NoRequest]
  /\ torn' = (torn \/ Editing({"pair"}))
  /\ UNCHANGED <<row, requests, unreviewed, overlap>>

-----------------------------------------------------------------------------
Request(h) == \/ EditRules(h) \/ EditKey(h) \/ RePair(h) \/ EditValues(h)
              \/ PatchSettings(h) \/ CreateOther(h)

Proceed(h) == \/ StoreRules(h) \/ StoreKey(h) \/ StorePairing(h)
              \/ AdoptPairing(h) \/ StoreValues(h) \/ Audit(h) \/ Pause(h)
              \/ WriteConfig(h) \/ ReplaceConfig(h) \/ Fails(h)

Next == Restart \/ \E h \in Handler : Request(h) \/ Proceed(h)

Spec == Init /\ [][Next]_settingsVars

-----------------------------------------------------------------------------
TypeOK ==
  /\ row \in Stored /\ mem \in Stored
  /\ req \in [Handler ->
       [route : {"none", "rules", "key", "pair", "values", "settings", "create"},
        at : {"none", "rules", "key", "pair", "paired", "values", "audit",
              "pause", "write", "replace"},
        config : Config, rules : Rules]]
  /\ requests \in 0 .. MaxRequests /\ restarts \in 0 .. MaxRestarts
  /\ unreviewed \in BOOLEAN /\ overlap \in BOOLEAN /\ torn \in BOOLEAN

\* "If that object is currently syncing -- real-time (webhook) or scheduled
\* polling -- pause both so nothing syncs against the edited configuration until
\* an operator reviews it" (server.ts:66-71): after an edit was answered, sync
\* stays off until a settings request, whatever fails and whenever the process
\* restarts, as long as no two configs are written at the same time.
PauseHolds == unreviewed /\ ~overlap => ~Live(mem.config)

\* The same with no exemption for requests that overlap.
QuietUntilReviewed == unreviewed => ~Live(mem.config)

\* The field rules and the natural key in use name fields of the objects that
\* are paired: re-pairing clears what describes the old ones, in memory and for
\* the next start, unless it is cut short or another edit overlaps it.
RulesFitPairing ==
  ~torn => /\ mem.rules \in {mem.pairing, NoRules}
           /\ mem.key \in {mem.pairing, NoRules}

\* The same with no exemption: "they're cleared rather than carried forward
\* stale" (server.ts:1099-1104).
NeverStaleRules ==
  /\ mem.rules \in {mem.pairing, NoRules}
  /\ mem.key \in {mem.pairing, NoRules}

\* Does not hold either: "Registering an object (used by Migration too) no longer
\* implies Sync enrollment" (server.ts:1036), yet an object whose entry was not
\* saved, or was overwritten, is enabled by the defaults of the next start.
NewcomerIsQuiet == mem.config.other # "on"
=============================================================================
