------------------------------- MODULE Grants -------------------------------
(***************************************************************************)
(* What a decision leaves behind and what it covers later: core/grants.ts, *)
(* the in-memory store of core/stores.ts and its durable twins, the sqlite *)
(* and postgres grant stores, which do the same thing in SQL.              *)
(*                                                                         *)
(* A store is a bag of grants.  A call is [tool, args]; its digest is a    *)
(* hash of both that does not depend on the order of the properties, so    *)
(* here the call is its own digest.                                        *)
(***************************************************************************)
EXTENDS Naturals, Bags

CONSTANTS Ids,           \* session ids
          Workspaces,    \* workspace ids
          Calls,         \* gated calls: [tool, args]
          None           \* an absent field

Tools == {c.tool : c \in Calls}
Decisions == {"allow_once", "allow_session", "allow_workspace", "allow_always", "deny"}

(* A query names a session and the workspace it is in, or None.            *)
Queries == [session : Ids, workspace : Workspaces \cup {None}]

NoGrants == EmptyBag

(***************************************************************************)
(* The grant a decision records.  Outside every workspace, allowing a      *)
(* workspace allows always.                                                *)
(***************************************************************************)
Grant(scope, id, tool, digest) ==
  [scope |-> scope, scopeId |-> id, tool |-> tool, digest |-> digest]

GrantForDecision(decision, q, call) ==
  CASE decision = "allow_once"    -> Grant("session", q.session, call.tool, call)
    [] decision = "allow_session" -> Grant("session", q.session, call.tool, None)
    [] OTHER -> IF decision = "allow_workspace" /\ q.workspace # None
                THEN Grant("workspace", q.workspace, call.tool, None)
                ELSE Grant("global", None, call.tool, None)

(***************************************************************************)
(* The stores.  A standing grant is kept once, a receipt as often as it is *)
(* given.                                                                  *)
(***************************************************************************)
AddGrant(store, g) ==
  IF g.digest = None /\ BagIn(g, store) THEN store ELSE store (+) SetToBag({g})

(* The predicate of the stores, shared by lookup and consumption: nothing  *)
(* equals an absent workspace.                                             *)
ScopePredicate(g, q) ==
  \/ g.scope = "session" /\ g.scopeId = q.session
  \/ g.scope = "workspace" /\ g.scopeId # None /\ g.scopeId = q.workspace
  \/ g.scope = "global" /\ g.scopeId = None

ListGrants(store, q, tool) ==
  {g \in BagToSet(store) : g.tool = tool /\ ScopePredicate(g, q)}

(* One receipt for exactly these arguments is found and removed in one     *)
(* statement; the caller learns whether there was one.                     *)
Receipts(store, q, call) ==
  {g \in BagToSet(store) : g.tool = call.tool /\ g.digest = call /\ ScopePredicate(g, q)}

(* Receipts are equal but for their dates, so which one goes is no matter. *)
ConsumeOnce(store, q, call) ==
  LET found == Receipts(store, q, call)
  IN  [found |-> found # {},
       left  |-> IF found = {} THEN store
                 ELSE store (-) SetToBag({CHOOSE g \in found : TRUE})]

ClearSession(store, id) ==
  LET kept == {g \in BagToSet(store) : ~(g.scope = "session" /\ g.scopeId = id)}
  IN  [g \in kept |-> store[g]]

(***************************************************************************)
(* Resolution: after the receipts, standing grants only.  The scope is     *)
(* compared again, whatever the store returned.                            *)
(***************************************************************************)
MatchesScope(g, q) ==
  CASE g.scope = "session"   -> g.scopeId = q.session
    [] g.scope = "workspace" -> q.workspace # None /\ g.scopeId = q.workspace
    [] g.scope = "global"    -> g.scopeId = None

(* Mutant: any grant for the tool stands, receipts included.               *)
AnyGrant(store, q, tool) == ListGrants(store, q, tool) # {}

HasStanding(store, q, tool) ==
  \E g \in ListGrants(store, q, tool) : g.digest = None /\ MatchesScope(g, q)
=============================================================================
