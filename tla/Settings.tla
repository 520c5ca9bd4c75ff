------------------------------ MODULE Settings ------------------------------
(***************************************************************************)
(* The settings of a harness: how core/harness.ts reads, seeds and writes  *)
(* the one row of the settings store (in memory, sqlite or Postgres).      *)
(*                                                                         *)
(* A store call is atomic, an operation is not: it gets the row, may write *)
(* a seed, and may put a whole row back later, without a lock.  Listing    *)
(* models waits for the provider in between.  Each action is the stretch   *)
(* of an operation between two awaits.                                     *)
(***************************************************************************)
EXTENDS SettingsForms

CONSTANTS Ops,           \* operations that may be under way at once
          Patches,       \* the updates a client may send
          Listings,      \* what a provider may answer: model -> card
          OldRows,       \* rows older versions left, and None for no row
          SeedProviders, SeedDefault,   \* config.providers, config.activeProviderId
          SeedAskUser, SeedRounds,      \* config.policies
          WebSearch,     \* features.webSearch
          Overrides,     \* provider overrides of a session or a request; NoMap is none
          MaxOps         \* bound: operations started in a behaviour

(* createHarness refuses seeds with an id twice and a default that is not  *)
(* among them; a seed may be switched off, and be the default all the      *)
(* same.  A row that an older version left is sound once it is filled in.  *)
ASSUME SeedAssumption ==
  /\ SeedDefault \in Ids(SeedProviders) \cup {None}
  /\ SeedProviders \in Seq(Provider) /\ Keyed(SeedProviders)
  /\ SeedAskUser \in BOOLEAN /\ SeedRounds \in Nat \ {0}
  /\ HostPrompts.global \in PromptTexts \cup {None}
  /\ HostPrompts.perMode \in PartialMaps(ModeIds, PromptTexts \cup {None})
  /\ WebSearch \in BOOLEAN /\ (WebSearch => "duckduckgo" \in SearchIds)
  /\ \A raw \in OldRows \ {None} : Sound(Normalize(raw))

(* What the schemas of the routes and of the model listing let through.    *)
ASSUME InputAssumption ==
  /\ \A u \in Patches : IsPatch(u)
  /\ \A cards \in Listings : \A m \in DOMAIN cards :
       /\ m \in Models
       /\ \A p \in DOMAIN cards[m] : cards[m][p] \in Windows \cup {0}

VARIABLES row,      \* the row of the store, None before the first put
          session,  \* what a session's record says of provider and agent
          turn,     \* what the last turn was pinned to, None before the first
          op,       \* what each operation is doing
          started   \* how many operations have started

settingsVars == <<row, session, turn, op, started>>

Idle == [at |-> "idle"]
SettingsInit ==
  /\ row \in OldRows /\ session = NoMap /\ turn = None
  /\ op = [o \in Ops |-> Idle] /\ started = 0

(* store.get: a row that is not there reads as the empty document. *)
Stored == Normalize(IF row = None THEN NoMap ELSE row)

DuckDuckGo == [id |-> "duckduckgo", kind |-> "duckduckgo", url |-> None, key |-> None]
WithSearch(s) ==
  IF WebSearch THEN [s EXCEPT !.search = <<DuckDuckGo>>, !.searchDefault = "duckduckgo"] ELSE s

Seeded ==
  WithSearch([Empty EXCEPT
    !.providers = SeedProviders,
    !.default   = IF SeedDefault # None THEN SeedDefault ELSE FirstId(SeedProviders),
    !.global    = HostPrompts.global,
    !.perMode   = HostPrompts.perMode,
    !.askUser   = SeedAskUser,
    !.maxRounds = SeedRounds])
SeedIsWorthSaving ==
  \E f \in {"providers", "global", "perMode", "search"} : Seeded[f] # Empty[f]

(***************************************************************************)
(* loadStored.  A pristine row reads as the seed whatever else it holds.   *)
(* `at` is where the operation is: about to write the seed, or done with   *)
(* loading; `base` is the document it goes on with.                        *)
(***************************************************************************)
Loaded(kind, arg) ==
  LET s == Stored
      needsSearch == WebSearch /\ s.search = << >>
  IN  IF ~IsPristine(s)
      THEN [at |-> IF needsSearch THEN "seeding" ELSE "loaded", kind |-> kind, arg |-> arg,
            base |-> IF needsSearch THEN WithSearch(s) ELSE s]
      ELSE [at |-> IF SeedIsWorthSaving THEN "seeding" ELSE "loaded", kind |-> kind, arg |-> arg,
            base |-> Seeded]

Load(o, kind, arg) ==
  /\ op[o] = Idle /\ started < MaxOps
  /\ started' = started + 1
  /\ op' = [op EXCEPT ![o] = Loaded(kind, arg)]
  /\ UNCHANGED <<row, session, turn>>

(* A read is getSettings, status, testConnection, toolApprovalRule ...     *)
StartRead(o) == Load(o, "read", None)
StartPatch(o, u) == ~ApprovalsRejected(u) /\ Load(o, "patch", u)
StartList(o) == Load(o, "list", None)
StartSetProvider(o, over) == Load(o, "setProvider", over)
StartSetAgent(o, id) == Load(o, "setAgent", id)

(* executeTurn reads the session's record, pinTurn reads it again for the  *)
(* agent and loads the settings; turns of one session do not overlap       *)
(* (TurnAdmission).                                                        *)
StartTurn(o, mode, over) ==
  /\ op[o] = Idle /\ started < MaxOps
  /\ \A x \in Ops : op[x] # Idle => op[x].kind \notin {"turn", "pin", "select"}
  /\ started' = started + 1
  /\ op' = [op EXCEPT ![o] = [at |-> "starting", kind |-> "turn", base |-> Empty, arg |->
              [mode |-> mode, over |-> over, chosen |-> Sent(session, "provider", NoMap)]]]
  /\ UNCHANGED <<row, session, turn>>
LoadForPin(o) ==
  /\ op[o].at = "starting"
  /\ op' = [op EXCEPT ![o] = Loaded("pin", Spread(op[o].arg, [agent |-> Sent(session, "agent", None)]))]
  /\ UNCHANGED <<row, session, turn, started>>

PutSeed(o) ==
  /\ op[o].at = "seeding"
  /\ row' = op[o].base
  /\ op' = [op EXCEPT ![o].at = "loaded"]
  /\ UNCHANGED <<session, turn, started>>

Done(o) == op' = [op EXCEPT ![o] = Idle] /\ UNCHANGED started
Leaves == UNCHANGED <<session, turn>>

Loads(o, kind) == op[o].at = "loaded" /\ op[o].kind = kind

Read(o) == Loads(o, "read") /\ Done(o) /\ UNCHANGED row /\ Leaves

(* updateSettings: apply to what was loaded, put the whole document.       *)
Patch(o) ==
  /\ Loads(o, "patch") /\ ~PatchThrows(op[o].base, op[o].arg)
  /\ row' = ApplySettingsUpdate(op[o].base, op[o].arg)
  /\ Done(o) /\ Leaves
PatchFails(o) ==
  /\ Loads(o, "patch") /\ PatchThrows(op[o].base, op[o].arg)
  /\ Done(o) /\ UNCHANGED row /\ Leaves

(* listModels of a profile, or of the default: ask the provider, and save  *)
(* what it taught into the document that was loaded before asking.         *)
ListAsks(o, p) ==
  /\ Loads(o, "list") /\ p \in Ids(op[o].base.providers)
  /\ op' = [op EXCEPT ![o] = [at |-> "asking", kind |-> "list", arg |-> p, base |-> @.base]]
  /\ UNCHANGED <<row, session, turn, started>>
ListFails(o) ==
  /\ \/ Loads(o, "list")
     \/ op[o].at = "asking"
  /\ Done(o) /\ UNCHANGED row /\ Leaves
Listed(o, cards) ==
  LET s == op[o].base
      windows == Learn(Find(s.providers, op[o].arg).learned, cards)
  IN  /\ op[o].at = "asking"
      /\ IF windows = Find(s.providers, op[o].arg).learned THEN UNCHANGED row
         ELSE row' = [s EXCEPT !.providers = [i \in DOMAIN s.providers |->
                        IF s.providers[i].id = op[o].arg
                        THEN [s.providers[i] EXCEPT !.learned = windows] ELSE s.providers[i]]]
      /\ Done(o) /\ Leaves

(* The set-provider and set-agent routes check an id against the document  *)
(* and then write the record under its lock.                               *)
Known(o) ==
  IF op[o].kind = "setAgent" THEN op[o].arg \in Ids(op[o].base.agents) \cup {None}
  ELSE Sent(op[o].arg, "provider", None) \in Ids(op[o].base.providers) \cup {None}
SetProvider(o) ==
  /\ Loads(o, "setProvider") /\ Known(o)
  /\ session' = SetSessionProvider(session, op[o].arg)
  /\ Done(o) /\ UNCHANGED <<row, turn>>
SetAgent(o) ==
  /\ Loads(o, "setAgent") /\ Known(o)
  /\ session' = SetSessionAgent(session, op[o].arg)
  /\ Done(o) /\ UNCHANGED <<row, turn>>
ChoiceRefused(o) ==
  /\ Loads(o, "setProvider") \/ Loads(o, "setAgent")
  /\ ~Known(o)
  /\ Done(o) /\ UNCHANGED row /\ Leaves

(* The turn is pinned; then the provider is selected from a document of    *)
(* its own.                                                                *)
PinTurn(o) ==
  LET a == op[o].arg
  IN  /\ Loads(o, "pin")
      /\ turn' = [mode |-> a.mode, tools |-> ToolNamesFor(a.mode),
                  prompt |-> ComposePrompt(op[o].base, a.mode, a.agent), selection |-> None]
      /\ op' = [op EXCEPT ![o] = Loaded("select", op[o].arg)]
      /\ UNCHANGED <<row, session, started>>
SelectForTurn(o) ==
  /\ Loads(o, "select")
  /\ turn' = [turn EXCEPT !.selection = SelectProvider(op[o].base, op[o].arg.chosen, op[o].arg.over)]
  /\ Done(o) /\ UNCHANGED <<row, session>>

(* The process stops: what was under way is lost, the row stays.           *)
Restart == (\E o \in Ops : op[o] # Idle) /\ op' = [o \in Ops |-> Idle] /\ UNCHANGED <<row, session, turn, started>>

SettingsNext ==
  \/ \E o \in Ops :
       \/ StartRead(o) \/ StartList(o) \/ \E u \in Patches : StartPatch(o, u)
       \/ PutSeed(o) \/ Read(o) \/ Patch(o) \/ PatchFails(o)
       \/ \E p \in ProviderIds : ListAsks(o, p)
       \/ ListFails(o) \/ \E cards \in Listings : Listed(o, cards)
       \/ \E over \in MenuChoices(Sent(session, "provider", NoMap)) : StartSetProvider(o, over)
       \/ \E over \in Overrides, m \in ModeIds : StartTurn(o, m, over)
       \/ \E id \in AgentIds \cup {None} : StartSetAgent(o, id)
       \/ SetProvider(o) \/ SetAgent(o) \/ ChoiceRefused(o) \/ LoadForPin(o) \/ PinTurn(o) \/ SelectForTurn(o)
  \/ Restart

SettingsSpec == SettingsInit /\ [][SettingsNext]_settingsVars

-----------------------------------------------------------------------------
(***************************************************************************)
(* Properties.                                                             *)
(***************************************************************************)
(* Documents that a reader may get: the stored one, and those under way.   *)
Documents == {Stored} \cup {op[o].base : o \in {x \in Ops : op[x] # Idle}}

(* The profiles and the default are those of the host, or of the row that  *)
(* was there when it started: nobody but a listing has touched them.       *)
AsGiven(s) ==
  \E given \in {Seeded} \cup {Normalize(raw) : raw \in OldRows \ {None}} :
    /\ s.default = given.default /\ DOMAIN s.providers = DOMAIN given.providers
    /\ \A i \in DOMAIN s.providers :
         [s.providers[i] EXCEPT !.learned = given.providers[i].learned] = given.providers[i]

(* The default provider is one of the stored profiles, the search default  *)
(* is stored too, and every list has an id once - whatever removals,       *)
(* deactivations, explicit nulls, seeds and stale writes of whole          *)
(* documents came before.  The default is also switched on ("must be one   *)
(* of the active profiles"), but for one that the host seeded switched     *)
(* off: it is taken as it is and lasts until the profiles are written      *)
(* (applySettingsUpdate's branches, loadStored).                           *)
DefaultsExist ==
  \A s \in Documents : Sound(s) /\ (DefaultIsOn(s) \/ AsGiven(s))

(* What an entry keeps: all it has if no write names it, else the fields a *)
(* write may leave out and these do.  An agent's label is not among them.  *)
MayBeLeftOut == {"key", "learned", "overrides", "active", "url", "enabled", "permissions"}
Keeps(entry, wrote) ==
  IF wrote = {} THEN DOMAIN entry
  ELSE {f \in DOMAIN entry \cap MayBeLeftOut : \A w \in wrote : f \notin DOMAIN w}

(* Nothing appears or goes that was not named, and what is left keeps what *)
(* was not sent; a profile that is made default is switched on.            *)
ListKept(old, new, removed, writes, chosen) ==
  /\ Ids(new) = (Ids(old) \ removed) \cup {w.id : w \in Range(writes)}
  /\ \A id \in Ids(old) \ removed :
       LET before == Find(old, id)
       IN  \A f \in Keeps(before, {w \in Range(writes) : w.id = id}) :
             Find(new, id)[f] = IF f = "active" /\ id = chosen THEN TRUE ELSE before[f]

MapKept(old, new, sent) == \A x \in DOMAIN old \ DOMAIN sent : x \in DOMAIN new /\ new[x] = old[x]

(* A default that is not named moves only if its entry is gone, if it is   *)
(* switched off, or if there was none.                                     *)
DefaultsKept(s, t, u) ==
  /\ t.default = IF "default" \in DOMAIN u THEN u.default
                 ELSE IF s.default \in Ids(t.providers) /\ Find(t.providers, s.default).active
                      THEN s.default ELSE FirstActive(t.providers)
  /\ t.searchDefault = IF "searchDefault" \in DOMAIN u THEN u.searchDefault
                       ELSE IF s.searchDefault \in Ids(t.search)
                            THEN s.searchDefault ELSE FirstId(t.search)

KeepsTheRest(s, t, u) ==
  /\ ListKept(s.providers, t.providers, Sent(u, "removeProviders", {}), Sent(u, "providers", << >>),
              Sent(u, "default", None))
  /\ ListKept(s.agents, t.agents, Sent(u, "removeAgents", {}), Sent(u, "agents", << >>), None)
  /\ ListKept(s.search, t.search, Sent(u, "removeSearch", {}), Sent(u, "search", << >>), None)
  /\ ListKept(s.mcp, t.mcp, Sent(u, "removeMcp", {}), Sent(u, "mcp", << >>), None)
  /\ DefaultsKept(s, t, u)
  /\ \A f \in {"global", "askUser", "maxRounds"} \ DOMAIN u : t[f] = s[f]
  /\ MapKept(s.approvals, t.approvals, Sent(u, "approvals", NoMap))
  /\ MapKept(s.perMode, t.perMode, Sent(u, "perMode", NoMap))
  /\ MapKept(s.compaction, t.compaction, Sent(u, "compaction", NoMap))

Patched(o) == Loads(o, "patch") /\ op'[o] = Idle /\ row' # row

(* A patch that is put, late or in time, is the document it loaded with    *)
(* what it names changed, and the default moved where it has to: what is   *)
(* not sent stays, credentials, windows and switches of entries that are   *)
(* written included, and no tab wipes what another one owns                *)
(* (applySettingsUpdate over upsertNamed).  What others stored since the   *)
(* load is lost, and nothing here forbids that.                            *)
PatchKeepsTheRest ==
  [][\A o \in Ops : Patched(o) => KeepsTheRest(op[o].base, row', op[o].arg)]_settingsVars

(* What the browser shows is what applies, and saving it changes nothing:  *)
(* - the rule of a tool on the settings page and in the catalog is the one *)
(*   a call meets, unless its arguments decide (effectiveToolApprovals     *)
(*   against toolApprovalRule);                                            *)
RulesShownAreMet(s) ==
  \A t \in DOMAIN Tools \ {"http_request", "mcp_call"}, args \in CallArgs :
    LET rule == ToolApprovalRule(s, t, args)
    IN  /\ PublicSettings(s, EffectiveApprovals(s)).approvals[t] = rule
        /\ \A mode \in ModeIds : ToolCatalog(s, mode)[t].approval = rule

(* - the provider, model and window in the status bar are those of the     *)
(*   turn ("must not be able to disagree about which number a turn will    *)
(*   actually use"), but for the window of a model chosen without a        *)
(*   provider, which is the default's;                                     *)
BarShowsWhatIsCalled(s) ==
  \A chosen, asked \in Overrides :
    LET over == Spread(chosen, asked)
        pick == SelectProvider(s, chosen, asked)
        bar  == ResolveActiveProviderSnapshot(StatusProvider(s),
                  PublicSettings(s, EffectiveApprovals(s)), chosen, asked)
    IN  pick # None =>
          /\ bar.id = pick.profile.id /\ bar.model = pick.model
          /\ "provider" \in DOMAIN over \/ "model" \notin DOMAIN over =>
               bar.window = ResolveContextWindow(pick.profile, pick.model)

(* - a dialog that is saved as it was opened does what sending nothing     *)
(*   does, one field that was edited is all that changes, and a switch     *)
(*   turns what it belongs to ("saving it empty leaves the stored secret   *)
(*   alone").  Prompts of the host for a mode are in the document.         *)
FormsSaveAsShown(s) ==
  LET view     == PublicSettings(s, EffectiveApprovals(s))
      after(u) == ApplySettingsUpdate(s, u)
      same     == after(NoMap)
  IN  /\ \A i \in DOMAIN s.providers :
           LET p     == view.providers[i]
               draft == DraftFrom(p)
               saved(d) == after(SubmitProvider(view, ProviderWrite(p, d)))
               base  == after(IF s.default = None THEN [default |-> p.id] ELSE NoMap)
           IN  /\ saved(draft) = base
               /\ saved(ClearKey(draft)) = [base EXCEPT !.providers[i].key = None]
               /\ saved([draft EXCEPT !.override = Unreadable]) = base
               /\ \A m \in Models : saved(SetModel(p, draft, m)) = [base EXCEPT !.providers[i].model = m]
               /\ \A w \in Windows :
                    ResolveContextWindow(saved([draft EXCEPT !.override = w]).providers[i], draft.model) = w
               /\ after(ToggleProvider(p)).providers = [same.providers EXCEPT ![i].active = ~@]
      /\ \A i \in DOMAIN s.agents :
           LET a == view.agents[i]
           IN  /\ after(SubmitAgent(a, a.label, a.soul)) = same
               /\ after(ToggleAgent(a)) = [same EXCEPT !.agents[i].active = ~@]
      /\ \A i \in DOMAIN s.mcp : after(ToggleMcp(view.mcp[i])) = [same EXCEPT !.mcp[i].enabled = ~@]
      /\ DOMAIN HostPrompts.perMode \subseteq DOMAIN s.perMode =>
           \A shown, mode \in ModeIds :
             ComposePrompt(after(SavePrompts(shown, view.global, ShownPrompt(view, shown))), mode, None)
               = ComposePrompt(s, mode, None)

(* Every stored document is also there when nothing is under way.          *)
ShownIsApplied ==
  (\A o \in Ops : op[o] = Idle) =>
    RulesShownAreMet(Stored) /\ BarShowsWhatIsCalled(Stored) /\ FormsSaveAsShown(Stored)

(* The tools of a turn in a reading mode change nothing unless they ask    *)
(* for that mode by name; its prompt has no empty section; and a provider  *)
(* that the request or the session named is the one that is called, or no  *)
(* turn runs - never silently the default (selectTools, composePrompt,     *)
(* resolveProviderSelection).                                              *)
TurnIsAsChosen ==
  /\ turn # None => /\ turn.mode # "agent" =>
                        \A t \in turn.tools : Tools[t].mutates => turn.mode \in Tools[t].modes
                    /\ \A i \in DOMAIN turn.prompt : turn.prompt[i][2] # None
  /\ \A o \in Ops : Loads(o, "select") =>
       \A over \in {op[o].arg.over, op[o].arg.chosen} :
         "provider" \in DOMAIN over /\ (over = op[o].arg.chosen => "provider" \notin DOMAIN op[o].arg.over)
           => LET pick == SelectProvider(op[o].base, op[o].arg.chosen, op[o].arg.over)
              IN  pick # None => pick.profile.id = over.provider
=============================================================================
