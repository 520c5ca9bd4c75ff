--------------------------- MODULE SettingsForms ---------------------------
(***************************************************************************)
(* The settings in the browser: what the dialogs of ui/components send to  *)
(* have changed, what the provider menu makes of a session's preference,   *)
(* and what the status bar says a turn will call (ui/provider-override.ts, *)
(* ui/k-notation.ts).                                                      *)
(*                                                                         *)
(* `view` is the settings as the browser got them: credentials are not in  *)
(* it.  A draft is what a dialog holds while it is open.                   *)
(***************************************************************************)
EXTENDS ToolPolicy

CONSTANT Unreadable   \* a window that was typed and is no number

ASSUME FormsAssumption == Unreadable \notin Windows \cup {None}

Optional(field, value) == IF value = None THEN NoMap ELSE Only(field, value)

(***************************************************************************)
(* The provider dialog.  The key field starts empty and an empty field     *)
(* keeps the stored key; clearing it is an action of its own.  The window  *)
(* is the override of the model in the field beside it: an empty one takes *)
(* the override away, and one that is no number changes nothing.           *)
(***************************************************************************)
DraftFrom(profile) ==
  [model |-> profile.model, override |-> Sent(profile.overrides, profile.model, None),
   key |-> None, clearKey |-> FALSE]

SetModel(profile, draft, model) ==
  [draft EXCEPT !.model = model, !.override = Sent(profile.overrides, model, None)]

ClearKey(draft) == [draft EXCEPT !.clearKey = TRUE, !.key = None]

OverridesFor(profile, draft) ==
  IF draft.override = Unreadable THEN profile.overrides
  ELSE Spread(profile.overrides, Only(draft.model, draft.override))

(* Mutant: the key field is sent as it stands.                             *)
ProviderWriteAll(profile, draft) ==
  [id |-> profile.id, model |-> draft.model, overrides |-> OverridesFor(profile, draft),
   key |-> draft.key]

ProviderWrite(profile, draft) ==
  Spread([id |-> profile.id, model |-> draft.model, overrides |-> OverridesFor(profile, draft)],
         IF draft.clearKey THEN [key |-> None] ELSE Optional("key", draft.key))

(* The first provider that is saved becomes the default.                   *)
SubmitProvider(view, write) ==
  Spread([providers |-> <<write>>], IF view.default = None THEN [default |-> write.id] ELSE NoMap)

ToggleProvider(profile) ==
  [providers |-> <<[id |-> profile.id, model |-> profile.model, active |-> ~profile.active]>>]

(***************************************************************************)
(* The dialogs of agents, search providers, remote servers and prompts.    *)
(***************************************************************************)
AgentWrite(agent, label, soul, active) ==
  Spread([id |-> agent.id, soul |-> soul, active |-> active], Optional("label", label))

SubmitAgent(agent, label, soul) ==
  [agents |-> <<AgentWrite(agent, label, soul, agent.active)>>]
ToggleAgent(agent) ==
  [agents |-> <<AgentWrite(agent, agent.label, agent.soul, ~agent.active)>>]

AddSearch(view, id, kind, url, key) ==
  LET write == Spread(Spread([id |-> id, kind |-> kind], Optional("key", key)),
                      IF kind = "searxng" THEN [url |-> url] ELSE NoMap)
  IN  Spread([search |-> <<write>>],
             IF view.searchDefault = None THEN [searchDefault |-> id] ELSE NoMap)

AddMcp(id, key) ==
  [mcp |-> <<Spread([id |-> id, permissions |-> DefaultPermissions], Optional("key", key))>>]
ToggleMcp(server) == [mcp |-> <<[id |-> server.id, enabled |-> ~server.enabled]>>]

(* Both fields are saved, whichever was edited; a mode without a text is   *)
(* shown as an empty one.                                                  *)
ShownPrompt(view, mode) == Sent(view.perMode, mode, None)
SavePrompts(mode, global, text) == [global |-> global, perMode |-> Only(mode, text)]

(***************************************************************************)
(* The provider menu.  What is shown is the session's preference; another  *)
(* provider drops the pinned model, and an empty preference is none.       *)
(***************************************************************************)
Pinned(value, field, choice) == Spread(Without(value, field), Optional(field, choice))

ChooseProvider(value, id) == Pinned(Without(value, "model"), "provider", id)
ChooseModel(value, model) == Pinned(value, "model", model)

MenuChoices(value) ==
  {NoMap} \cup {ChooseProvider(value, id) : id \in ProviderIds \cup {None}}
          \cup {ChooseModel(value, model) : model \in Models \cup {None}}

(***************************************************************************)
(* The status bar.  The server tells of the default; an override that      *)
(* names another profile is projected from the settings, and one that      *)
(* names a profile that is gone from the default.                          *)
(***************************************************************************)
ResolveContextWindow(profile, model) ==
  Sent(profile.overrides, model, Sent(profile.learned, model, None))

(* Mutant: what the provider reports wins over what the person set.        *)
LearnedFirst(profile, model) ==
  Sent(profile.learned, model, Sent(profile.overrides, model, None))

ResolveModelContextWindow(profile, model) ==
  IF model \in DOMAIN profile.overrides THEN profile.overrides[model]
  ELSE Sent(profile.learned, model, None)

Snapshot(profile) ==
  [id |-> profile.id, model |-> profile.model,
   window |-> ResolveContextWindow(profile, profile.model)]

StatusProvider(s) ==
  IF Find(s.providers, s.default) = None THEN None ELSE Snapshot(Find(s.providers, s.default))

ResolveActiveProviderSnapshot(base, view, session, turn) ==
  LET over    == Spread(session, turn)
      profile == Find(view.providers, Sent(over, "provider", None))
  IN  IF profile = None
      THEN IF base = None THEN None ELSE [base EXCEPT !.model = Sent(over, "model", base.model)]
      ELSE LET model == Sent(over, "model", profile.model)
           IN  [id |-> profile.id, model |-> model,
                window |-> ResolveModelContextWindow(profile, model)]
=============================================================================
