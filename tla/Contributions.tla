---------------------------- MODULE Contributions -----------------------------
(***************************************************************************)
(* What the apps contribute to the page (plugin-sync.ts) and the           *)
(* registries that hold it: views and commands, the contribution registry, *)
(* the panels, the status bar and the keys, which are replaced at the end  *)
(* of a sync, and the fillings of the settings' slot (slot-registry.ts).   *)
(*                                                                         *)
(* An id stands for the view, the command and the panel of that name.  The *)
(* manifests are cached, so what an app gives does not change.  Which apps *)
(* are enabled comes from the server (PluginSync has the requests for it). *)
(* The settings' slot is declared by the first render of the page, before  *)
(* any sync, so no filling becomes an orphan.                              *)
(*                                                                         *)
(* Which contributions are shown, and where: their conditions, and the     *)
(* merge of a context menu.                                                *)
(*                                                                         *)
(* The conditions have two evaluators: evaluate-when.ts splits a text      *)
(* again and again and builds no tree; the one of the archived extensions  *)
(* (extension-points.ts) parses.  An expression is the sequence of its     *)
(* tokens; a name, or a comparison, is an atom that the context makes true *)
(* or false.  The reference is the tree the   *)
(* text was made of, with the contexts that make it true.                  *)
(*                                                                         *)
(* A menu (context-menu-registry.ts) is merged out of the items of the     *)
(* component, the menus of the manifests, the most specific target first,  *)
(* and the actions.  An offer is [id, source, shown, rank]: its source is  *)
(* 0 for the component, 1 and 2 for the targets of the chain and 3 for the *)
(* actions; it is not shown if its condition does not hold or its target   *)
(* is not in the chain; rank stands for the comparison by group, order and *)
(* title.  workbench-command-dispatch.ts says where a command goes.        *)
(***************************************************************************)
EXTENDS Integers, Sequences, FiniteSets, SequencesExt

CONSTANTS
  Apps,        \* the apps that may be installed
  Ids,         \* ids of contributions
  HostId,      \* the id of a view the page registers itself, "logs"
  PrefixOf,    \* the app, or NoApp, whose id and a dot an id begins with
  NoApp, Host,
  MaxSwitches,  \* bound: apps switched, installed or deleted
 Atoms, ItemIds, MaxOffers

VARIABLES
  gives,       \* the ids in the manifest of an app
  configured,  \* the apps with settings of their own
  listed,      \* the apps in the order of the list
  on,          \* the enabled ones
  entry,       \* the owner of a view or command
  known,       \* the owner of a view in the contribution registry
  registered,  \* the apps with registered views and commands
  panels,      \* the owner of a panel
  bulk,        \* the apps whose status items and keys are shown, in order
  fills,       \* the apps whose settings fill the settings' slot
  todo,        \* the apps a running sync has not come to, or <<>>
  fetching,    \* the app whose manifest it awaits, or NoApp
  collected,   \* the apps whose contributions it has collected
  running,
  switches,
  upToDate,     \* the last sync ended, found everything, and nothing changed since it began
  tree,       \* a condition
  context,    \* the atoms that are true
  offers,     \* every offer, in the order it was registered
  localOnly   \* the request asks for the component's own items

(* What plugins register *)
contribVars == <<gives, configured, listed, on, entry, known, registered, panels, bulk,
                 fills, todo, fetching, collected, running, switches, upToDate>>

given == <<gives, configured>>
registries == <<entry, known, registered, fills>>
shown == <<panels, bulk>>

Listings == {<<a, b>> : a, b \in Apps} \cup {<<a>> : a \in Apps} \cup {<<>>}

\* The registries of a page that has just loaded.
NothingRegistered ==
  /\ entry = [i \in Ids |-> IF i = HostId THEN Host ELSE NoApp]
  /\ known = [i \in Ids |-> NoApp] /\ registered = {}
  /\ panels = [i \in Ids |-> NoApp] /\ bulk = <<>>
  /\ fills = {}
  /\ todo = <<>> /\ fetching = NoApp /\ collected = <<>> /\ running = FALSE
  /\ switches = 0 /\ upToDate = FALSE

ContribInit ==
  /\ gives \in [Apps -> SUBSET Ids] /\ configured \in SUBSET Apps
  /\ listed \in {l \in Listings : IsInjective(l)} /\ on \in SUBSET Apps
  /\ NothingRegistered

-----------------------------------------------------------------------------
\* unregisterApp, of each app of a set: by the ids it registered, whoever owns
\* them now, and in the contribution registry by the prefix.
Forget(gone) ==
  LET ids == UNION {gives[a] : a \in gone \cap registered} IN
  /\ entry' = [i \in Ids |-> IF i \in ids THEN NoApp ELSE entry[i]]
  /\ known' = [i \in Ids |-> IF PrefixOf[i] \in gone THEN NoApp ELSE known[i]]
  /\ registered' = registered \ gone
  /\ fills' = fills \ gone

\* registerAppContributions.
Register(a) ==
  /\ entry' = [i \in Ids |-> IF i \in gives[a] THEN a ELSE entry[i]]
  /\ known' = [i \in Ids |-> IF i \in gives[a] THEN a ELSE known[i]]
  /\ registered' = registered \cup {a}
  /\ fills' = IF a \in configured THEN fills \cup {a} ELSE fills

\* Mutant: the apps that were deleted are not looked for.
NoneDeleted == {}

Deleted == registered \ Range(listed)

\* syncAllPlugins once the list and the states have come.
BeginSync ==
  /\ ~running /\ listed # <<>>
  /\ running' = TRUE /\ todo' = listed /\ collected' = <<>>
  /\ Forget(Deleted)
  /\ upToDate' = TRUE
  /\ UNCHANGED <<given, listed, on, shown, fetching, switches>>

\* Of an empty list: it returns at once, whatever is registered.
SyncOfNone ==
  /\ ~running /\ listed = <<>> /\ upToDate' = FALSE
  /\ UNCHANGED <<given, listed, on, registries, shown, todo, fetching, collected, running,
                 switches>>

\* The loop comes to an app that is not enabled, or to one that is and asks
\* for its manifest.
NextApp ==
  /\ todo # <<>> /\ fetching = NoApp
  /\ IF Head(todo) \in on
     THEN fetching' = Head(todo) /\ UNCHANGED registries
     ELSE fetching' = NoApp /\ Forget({Head(todo)})
  /\ todo' = Tail(todo)
  /\ UNCHANGED <<given, listed, on, shown, collected, running, switches, upToDate>>

ManifestComes ==
  /\ fetching # NoApp /\ Register(fetching)
  /\ fetching' = NoApp /\ collected' = Append(collected, fetching)
  /\ UNCHANGED <<given, listed, on, shown, todo, running, switches, upToDate>>

\* getManifest answers null: the app is passed over.
ManifestFails ==
  /\ fetching # NoApp /\ fetching \notin registered
  /\ fetching' = NoApp /\ upToDate' = FALSE
  /\ UNCHANGED <<given, listed, on, registries, shown, todo, collected, running, switches>>

\* syncPluginPanels: the first app has the id; a panel that is there already is
\* never overwritten.
PanelOwners(apps) ==
  [i \in Ids |->
     LET givers == {n \in DOMAIN apps : i \in gives[apps[n]]} IN
     IF givers = {} THEN NoApp ELSE apps[Min(givers)]]

\* What was collected replaces what was shown.
EndSync ==
  /\ running /\ todo = <<>> /\ fetching = NoApp
  /\ running' = FALSE /\ panels' = PanelOwners(collected) /\ bulk' = collected
  /\ UNCHANGED <<given, listed, on, registries, todo, fetching, collected, switches,
                 upToDate>>

Switch ==
  /\ switches < MaxSwitches /\ switches' = switches + 1 /\ upToDate' = FALSE
  /\ \/ \E a \in Apps : on' = (on \ {a}) \cup ({a} \ on) /\ UNCHANGED listed
     \/ \E a \in Apps \ Range(listed) : listed' = Append(listed, a) /\ UNCHANGED on
     \/ \E n \in DOMAIN listed : listed' = RemoveAt(listed, n) /\ UNCHANGED on
  /\ UNCHANGED <<given, registries, shown, todo, fetching, collected, running>>

ContribNext ==
  \/ BeginSync \/ SyncOfNone \/ NextApp \/ ManifestComes \/ ManifestFails \/ EndSync
  \/ Switch

-----------------------------------------------------------------------------
Active == Range(listed) \cap on
Claimants(i) == {a \in Apps : i \in gives[a]} \cup (IF i = HostId THEN {Host} ELSE {})
OwnerOf(i) ==
  LET c == Claimants(i) \cap (Active \cup {Host}) IN IF c = {} THEN NoApp ELSE CHOOSE a \in c : TRUE
Clashes(i) == \E a, b \in Claimants(i) : a # b

\* After a sync that found everything, the registries hold what the enabled
\* apps contribute and nothing of any other: each id that one app claims is its
\* own, each panel is one of an enabled app that gives it, the status items and
\* keys follow the order of the list, and their settings are in the slot
\* (plugin-sync.ts:35).  An id that two claim may be taken away from its owner,
\* and one without the prefix of its app stays in the contribution registry
\* (contribution-registry.ts:64).
RegistriesHoldTheActive ==
  ~running /\ upToDate =>
    /\ \A i \in Ids : ~Clashes(i) =>
         /\ entry[i] = OwnerOf(i)
         /\ PrefixOf[i] \in Claimants(i) => known[i] = OwnerOf(i)
    /\ Range(bulk) = Active
    /\ \A m, n \in DOMAIN bulk : m < n =>
         \E p, q \in DOMAIN listed : p < q /\ listed[p] = bulk[m] /\ listed[q] = bulk[n]
    /\ \A i \in Ids : LET givers == Claimants(i) \cap Active IN
         IF givers = {} THEN panels[i] = NoApp ELSE panels[i] \in givers
    /\ fills = configured \cap Active

\* "Unregister ALL contributions for a disabled app" (plugin-sync.ts:93).
UnregistersAll ==
  ~running /\ upToDate => \A i \in Ids : known[i] \in Active \cup {NoApp}

-----------------------------------------------------------------------------
(* What is shown of it: menus, commands and status items *)
whenVars == <<tree, context>>
menuVars == <<offers, localOnly>>

-----------------------------------------------------------------------------
(* Conditions *)

Depth(e, i) ==
  Cardinality({j \in 1..i : e[j] = "("}) - Cardinality({j \in 1..i : e[j] = ")"})

\* Mutant: operators in parentheses split as well.
CutsAnywhere(e, op) == {i \in DOMAIN e : e[i] = op}

Cuts(e, op) == {i \in DOMAIN e : e[i] = op /\ Depth(e, i) = 0}

\* splitTopLevel: the texts between the operators outside parentheses.
SplitTopLevel(e, op) ==
  LET ends == Cuts(e, op) \cup {0, Len(e) + 1} IN
  {SubSeq(e, p[1] + 1, p[2] - 1) :
     p \in {q \in ends \X ends : q[1] < q[2] /\ ~\E k \in ends : q[1] < k /\ k < q[2]}}

IsParenWrapped(e) ==
  /\ Len(e) >= 2 /\ e[1] = "(" /\ e[Len(e)] = ")"
  /\ \A i \in 1..Len(e) - 1 : Depth(e, i) # 0

Tokens == Atoms \cup {"(", ")", "!", "&&", "||"}

\* evaluateOr down to evaluatePrimary.  What is neither in parentheses nor one
\* atom is a name nobody has set.
Evaluate[e \in Seq(Tokens)] ==
  LET Primary(p) ==
        IF IsParenWrapped(p) THEN Evaluate[SubSeq(p, 2, Len(p) - 1)]
        ELSE Len(p) = 1 /\ p[1] \in context
      Factor(p) == IF p # <<>> /\ p[1] = "!" THEN ~Primary(Tail(p)) ELSE Primary(p)
  IN \E part \in SplitTopLevel(e, "||") : \A p \in SplitTopLevel(part, "&&") : Factor(p)

EvaluateWhen(e) == e = <<>> \/ Evaluate[e]

-----------------------------------------------------------------------------
\* A condition: its text, with the parentheses it needs and no others, its
\* outermost operator, the contexts that make it true, and whether two "!" are
\* in a row.
Operand(t, looser) == IF t.op \in looser THEN <<"(">> \o t.text \o <<")">> ELSE t.text

Leaf(a) == [text |-> <<a>>, op |-> "atom", doubled |-> FALSE,
            means |-> {c \in SUBSET Atoms : a \in c}]
Not(t) == [text |-> <<"!">> \o Operand(t, {"and", "or"}), op |-> "not",
           doubled |-> t.doubled \/ t.op = "not", means |-> SUBSET Atoms \ t.means]
And(l, r) == [text |-> Operand(l, {"or"}) \o <<"&&">> \o Operand(r, {"or"}), op |-> "and",
              doubled |-> l.doubled \/ r.doubled, means |-> l.means \cap r.means]
Or(l, r) == [text |-> l.text \o <<"||">> \o r.text, op |-> "or",
             doubled |-> l.doubled \/ r.doubled, means |-> l.means \cup r.means]

Compound(ls, rs) ==
  {Not(t) : t \in ls} \cup {And(l, r) : l \in ls, r \in rs} \cup {Or(l, r) : l \in ls, r \in rs}

Trees0 == {Leaf(a) : a \in Atoms}
Trees1 == Trees0 \cup Compound(Trees0, Trees0)
Trees2 == Trees1 \cup Compound(Trees1, Trees1)
Trees3 == Trees2 \cup Compound(Trees2, Trees0)

-----------------------------------------------------------------------------
\* The archived parser: what it has read means, and where it goes on; an error
\* is thrown through everything.
Thrown == [holds |-> TRUE, at |-> 0]
Peek(e, i) == CASE i = 0 -> "thrown" [] i > Len(e) -> "eof" [] OTHER -> e[i]

\* Mutant: the operators are taken for each other.
OperatorSwapped(rule) == IF rule = "or" THEN "&&" ELSE "||"

Operator(rule) == IF rule = "or" THEN "||" ELSE "&&"

\* parseOr and parseAnd, parseNot, and the value of what they build.  What the
\* two loops join from the left is joined from the right here.
Parsed(e) ==
  LET P[rule \in {"or", "and", "not"}, i \in Nat] ==
        LET first == P[IF rule = "or" THEN "and" ELSE "not", i]
            others == P[rule, first.at + 1]
            negated == P["not", i + 1]
            inner == P["or", i + 1]
        IN CASE rule # "not" /\ Peek(e, first.at) # Operator(rule) -> first
             [] rule # "not" /\ Peek(e, first.at) = Operator(rule) ->
                  [holds |-> IF rule = "or" THEN first.holds \/ others.holds
                             ELSE first.holds /\ others.holds,
                   at |-> others.at]
             [] rule = "not" /\ Peek(e, i) = "!" -> [negated EXCEPT !.holds = ~@]
             [] rule = "not" /\ Peek(e, i) = "(" /\ Peek(e, inner.at) = ")" ->
                  [inner EXCEPT !.at = @ + 1]
             [] rule = "not" /\ Peek(e, i) \in Atoms -> [holds |-> e[i] \in context, at |-> i + 1]
             [] OTHER -> Thrown
  IN P["or", 1]

\* What cannot be parsed is shown.
EvaluateParsed(e) == e = <<>> \/ Peek(e, Parsed(e).at) # "eof" \/ Parsed(e).holds

-----------------------------------------------------------------------------
WhenInit == tree \in Trees3 /\ context \in SUBSET Atoms

\* The focus, or a flag, changes and every condition is evaluated again.
WhenNext == context' \in SUBSET Atoms \ {context} /\ UNCHANGED tree

\* A condition holds exactly when it means so: || binds loosest, then &&, then
\* !, and parentheses group, to any depth (evaluate-when.ts:23).  Two "!" in a
\* row are the one exception: "!!a" is true whatever a is.
ConditionsMeanWhatTheySay ==
  ~tree.doubled => (EvaluateWhen(tree.text) <=> context \in tree.means)

\* The archived evaluator has no exception, and what it cannot parse, a text
\* without its last parenthesis, never hides anything (extension-points.ts:192).
ParsedAsMeant ==
  /\ EvaluateParsed(tree.text) <=> context \in tree.means
  /\ tree.text[Len(tree.text)] = ")" =>
       EvaluateParsed(SubSeq(tree.text, 1, Len(tree.text) - 1))

-----------------------------------------------------------------------------
(* Menus *)

Offers == [id : ItemIds, source : 0..3, shown : BOOLEAN, rank : 1..2]

From(s) == SelectSeq(offers, LAMBDA o : o.source = s /\ o.shown)

Has(menu, id) == \E i \in DOMAIN menu : menu[i].id = id

\* Mutant: an id is marked as seen by an item that is not shown.
AddAny(menu, o) ==
  IF Has(menu, o.id) \/ \E i \in DOMAIN offers : offers[i].id = o.id /\ offers[i].source < o.source
  THEN menu ELSE Append(menu, o)

Add(menu, o) == IF Has(menu, o.id) THEN menu ELSE Append(menu, o)

\* buildMenuItems: local items, then the manifests' along the chain, then the
\* actions'; the earlier source of an id wins.
Specs ==
  FoldLeft(Add, <<>>, IF localOnly THEN From(0) ELSE From(0) \o From(1) \o From(2) \o From(3))

\* resolveItems: Array.sort keeps the order of equals.
MenuItems ==
  SelectSeq(Specs, LAMBDA o : o.rank = 1) \o SelectSeq(Specs, LAMBDA o : o.rank = 2)

\* Who runs a command: the action, else the registered command, else the run.
HandlerOf(command, actions, commands) ==
  IF command \in actions THEN "action" ELSE IF command \in commands THEN "command" ELSE "run"

-----------------------------------------------------------------------------
MenuInit ==
  /\ offers \in UNION {[1..n -> Offers] : n \in 0..MaxOffers}
  /\ localOnly \in BOOLEAN

MenuNext == localOnly' = ~localOnly /\ UNCHANGED offers

\* A menu shows every id that some source it asks for shows, once, as the
\* first such source has it, by rank, and equals by source
\* (context-menu-registry.ts:147).
MenusMerge ==
  LET asked == IF localOnly THEN {0} ELSE 0..3
      seen == {i \in DOMAIN offers : offers[i].shown /\ offers[i].source \in asked}
      before(i, j) == \/ offers[i].source < offers[j].source
                      \/ offers[i].source = offers[j].source /\ i < j
      first == {i \in seen : ~\E j \in seen : offers[j].id = offers[i].id /\ before(j, i)}
      lower(i, j) == \/ offers[i].rank < offers[j].rank
                     \/ offers[i].rank = offers[j].rank /\ before(i, j)
      items == MenuItems
  IN /\ Len(items) = Cardinality(first)
     /\ \A i \in first : items[1 + Cardinality({j \in first : lower(j, i)})] = offers[i]
===============================================================================
