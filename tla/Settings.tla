------------------------------ MODULE Settings ------------------------------
(***************************************************************************)
(* Settings and permissions. The library (dcp-config) and the plugin       *)
(* (config.ts, host-permissions.ts, hooks.ts, V1 of index.ts) read         *)
(* overlapping sets of files and merge them in layers over their defaults; *)
(* the plugin decides for each request whether the model may compress and  *)
(* is told so.                                                             *)
(*                                                                         *)
(* A layer is a function from the keys it sets to values; ten keys stand   *)
(* for the schema, one or two of each sort: a switch, a choice, lists, two *)
(* limits that constrain each other and a map of them, a number with a     *)
(* range, a key with an alias, one the engines spell differently. Watching *)
(* files, JSON schemas and the texts of warnings are left out. The two     *)
(* engines do not share memory; one state holds both, to compare them.     *)
(***************************************************************************)
EXTENDS Integers, Sequences, FiniteSets, SequencesExt

CONSTANTS
  Sessions, SubAgents,   \* the sessions, those that belong to a sub-agent
  Agents,                \* the agents of the host
  Whole,                 \* the layers a settings file may hold
  HostRules,             \* the permissions the host may configure, rule by rule
  MaxFiles,              \* bound: settings files in the file system
  Followed,              \* bound: what the host's file, the only one, holds where the
                         \* plugin's handlers are followed; they depend on two keys of it
  MaxArrivals,           \* bound: handlers of all sessions
  None, Null, Bad,       \* no value, JSON null, a value of a wrong type
  Odd                    \* a pattern that does not compile, a tool's name that is no text

\* Where settings are read from: the library's global directory; the host's, a file by the
\* plugin's names or by the library's own, config.jsonc; the host's directory below the
\* platform's one for settings, where that is another; the directories DCP_CONFIG_DIR and
\* OPENCODE_CONFIG_DIR name, the latter with both names; the working directory's
\* .dynamic_context_pruning and .opencode, the .opencode of its parent.
Paths == {"library", "host", "hostalt", "app", "dcpdir", "hostdir", "hostdiralt",
          "own", "inner", "outer"}

\* The files both engines know by name and place.
SharedPaths == {"host", "hostdir", "inner", "outer"}

Actions == {"ask", "allow", "deny"}

\* The handlers of the plugin that take the shared state: the transform and the system
\* prompt of a request, a slash command, a compress call.
Handlers == Sessions \X {"request", "command", "call"}

ASSUME SettingsAssumption ==
  /\ SubAgents \subseteq Sessions
  /\ MaxFiles \in Nat /\ MaxArrivals \in Nat /\ Followed \subseteq Whole
  /\ \A r \in HostRules : r \in Seq([key : {"*", "compress", "bash"},
                                     pattern : {"*", "x"}, action : Actions])

\* The maps of limits the layers make when they are laid over each other.
Maps ==
  LET given == {k.models : k \in {l \in Whole : "models" \in DOMAIN l}} \ {Null, Bad}
      limits == UNION {{f[m] : m \in DOMAIN f} : f \in given}
  IN UNION {[names -> limits] : names \in SUBSET UNION {DOMAIN f : f \in given}}

\* The stand-ins for no value, null and a wrong type are no values themselves.
ASSUME ValuesAssumption ==
  /\ None \notin Paths \cup Sessions \cup Actions
  /\ \A k \in Whole : None \notin {[form |-> f, keys |-> k] : f \in {"whole", "torn"}}
  /\ \A f \in {"whole", "empty", "unreadable"} : None # [form |-> f, keys |-> <<>>]
  /\ Odd \notin {"task", "skill"} /\ {Null, Bad} \cap Maps = {}
  /\ {Null, Bad} \cap {TRUE, FALSE, "allow", "detailed", {}, {"task", "skill"}, 15,
                      [unit |-> "tokens", n |-> 100], [unit |-> "tokens", n |-> 50]} = {}

VARIABLES
  files,     \* what each settings file holds
  layout,    \* the working directory: an .opencode without a file, a marker; the directories
             \* for settings: the platform's is the host's, another, or another that
             \* XDG_CONFIG_HOME overrules
  rust,      \* the library: whether it is up, its settings
  plugin,    \* the plugin: whether it is up, its settings, the host's rules it kept
  state,     \* the plugin's one SessionState: session, sub-agent or not, permission
  handler,   \* how far each handler has come
  disturbed, \* history: since the state was set up two handlers were under way at once, or
             \* the host did not say whose child the session is
  host,      \* the rules of the host, as its user wrote them
  arrivals   \* handlers begun

settings == <<files, layout>>
requests == <<state, handler, disturbed, arrivals>>
vars == <<settings, rust, plugin, requests, host>>

\* A settings file: whole; torn at a syntax error, after the keys it still shows;
\* empty; there but not readable.
File == [form : {"whole", "torn"}, keys : Whole] \cup
        [form : {"empty", "unreadable"}, keys : {<<>>}]

Has(p) == files[p] # None

\* The place if it holds a file, else another.
Or(p, other) == IF Has(p) THEN p ELSE other
At(p) == Or(p, None)

----------------------------------------------------------------------------
\* The library: discovery, merge, validation.

\* An .opencode directory in the working directory.
InnerDir == Has("inner") \/ layout.bare

\* Its own directory first, then the host's below the same one, by three names.
DiscoverGlobal ==
  Or("library", IF layout.dirs = "two" THEN At("app") ELSE Or("host", At("hostalt")))

DiscoverCustom == Or("dcpdir", Or("hostdir", At("hostdiralt")))

\* The search for a project's file goes up to the parent unless a marker stands in a
\* working directory without a directory for settings.
DiscoverProject ==
  Or("own", Or("inner", IF layout.marker /\ ~InnerDir THEN None ELSE At("outer")))

\* Overlays come last and win; the first is below the platform's directory whatever
\* XDG_CONFIG_HOME says, the search for the second stops at any marker.
DiscoverOverlays ==
  << At(IF layout.dirs = "one" THEN "host" ELSE "app"),
     Or("inner", IF layout.marker THEN None ELSE At("outer")) >>

\* The places in the order of their layers.
AllLayers == << DiscoverGlobal, DiscoverCustom, DiscoverProject >> \o DiscoverOverlays

RepeatedNever(i) == FALSE   \* variant: a file is applied wherever it is listed

\* A file listed twice is a layer where it comes first.
Repeated(i) == \E j \in 1..(i - 1) : AllLayers[j] = AllLayers[i]

\* A limit: tokens in thousands, or a percentage of the model's.
Limit == [unit : {"tokens", "percent"}, n : Nat]
Tokens(n)  == [unit |-> "tokens", n |-> n]
Percent(n) == [unit |-> "percent", n |-> n]

\* Without a model's limit a percentage counts as 100,000 tokens.
Resolve(l) == IF l.unit = "tokens" THEN l.n ELSE 100

RustDefaults ==
  [enabled |-> TRUE, permission |-> "allow", tools |-> {"task", "skill"}, patterns |-> {},
   max |-> Tokens(100), min |-> Tokens(50), models |-> <<>>, threshold |-> 15,
   level |-> "detailed", allowSubagents |-> FALSE]

\* pruneNotification is notification.level, unless the layer sets that too. A key the
\* schema does not have, allowSubAgents among them, says nothing.
Normalize(l) ==
  [k \in (DOMAIN l \cap DOMAIN RustDefaults) \cup
         (IF "pruneNotification" \in DOMAIN l THEN {"level"} ELSE {}) |->
     IF k \in DOMAIN l THEN l[k] ELSE l.pruneNotification]

\* One object laid over another, key by key.
Overlaid(old, new) ==
  [m \in DOMAIN old \cup DOMAIN new |-> IF m \in DOMAIN new THEN new[m] ELSE old[m]]

\* deep_merge: a key of the layer replaces the value, a list as a whole, but an object
\* is merged into an object.
DeepMerge(acc, l) ==
  [k \in DOMAIN acc |->
     IF k \notin DOMAIN l THEN acc[k]
     ELSE IF k = "models" /\ {acc[k], l[k]} \cap {Null, Bad} = {} THEN Overlaid(acc[k], l[k])
     ELSE l[k]]

Limits(c) == {c.max, c.min} \cup {c.models[m] : m \in DOMAIN c.models}

IsPercentage(l) == l.unit = "percent" => l.n \in 1..100

\* What serde takes: values of the right types, percentages in range.
Deserializes(c) ==
  /\ \A k \in DOMAIN c : c[k] \notin {Null, Bad}
  /\ \A l \in Limits(c) : l \notin {Null, Bad} /\ IsPercentage(l)
  /\ Odd \notin c.tools

\* Ranges, patterns that compile, limits in order. The threshold stands for all numbers
\* with a range; its own, iterationNudgeThreshold's, is the narrowest.
Validate(c) ==
  /\ \A l \in Limits(c) : l.unit = "tokens" => l.n >= 1
  /\ c.threshold \in 2..100
  /\ Odd \notin c.patterns
  /\ Resolve(c.min) < Resolve(c.max)

ReadLayer(p) == files[p].form \in {"whole", "empty"}

\* The five places, one after the other.
Layered(acc, i) ==
  IF AllLayers[i] = None \/ Repeated(i) THEN acc
  ELSE DeepMerge(acc, Normalize(files[AllLayers[i]].keys))

LoadWithPaths ==
  Layered(Layered(Layered(Layered(Layered(RustDefaults, 1), 2), 3), 4), 5)

\* One layer that cannot be read, or one value out of place, fails the whole load.
Loads ==
  /\ \A i \in 1..5 : AllLayers[i] # None => ReadLayer(AllLayers[i])
  /\ Deserializes(LoadWithPaths)
  /\ Validate(LoadWithPaths)

StartRust ==
  /\ rust.up = "off" /\ plugin.up # "ready"
  /\ rust' = IF Loads THEN [up |-> "up", config |-> LoadWithPaths]
                      ELSE [rust EXCEPT !.up = "refused"]
  /\ UNCHANGED <<settings, plugin, requests, host>>

\* Where the handlers of the plugin and the updates of the library are followed, each in a
\* process of its own: only the host's file is read and holds what is followed.
Follows ==
  /\ \A p \in Paths \ {"host"} : ~Has(p)
  /\ Has("host") => files["host"].form = "whole" /\ files["host"].keys \in Followed \cup {<<>>}
  /\ layout = [bare |-> FALSE, marker |-> FALSE, dirs |-> "one"]

\* The library's host replaces the settings, once, by others of the right types; those
\* that do not validate leave the old ones.
UpdateConfig ==
  /\ rust.up = "up" /\ Follows /\ plugin.up = "off"
  /\ \E l \in Whole :
       LET c == DeepMerge(rust.config, Normalize(l))
       IN /\ Deserializes(c) /\ Validate(c)
          /\ rust' = [up |-> "updated", config |-> c]
  /\ UNCHANGED <<settings, plugin, requests, host>>

----------------------------------------------------------------------------
\* The plugin: discovery, merge. It warns of wrong values and takes them.

\* The nearest .opencode directory, with a file in it or not.
FindProject == Or("inner", IF layout.bare THEN None ELSE At("outer"))

GetConfigPaths == << At("host"), At("hostdir"), FindProject >>

Read == {GetConfigPaths[i] : i \in 1..3} \ {None}

DefaultConfig ==
  [enabled |-> TRUE, permission |-> "allow",
   tools |-> {"task", "skill", "todowrite", "todoread"}, patterns |-> {},
   max |-> Tokens(100), min |-> Tokens(50), models |-> <<>>, threshold |-> 15,
   level |-> "detailed", allowSubAgents |-> FALSE]

\* What `layer value ?? base` gives.
Over(l, k, base) == IF k \in DOMAIN l /\ l[k] # Null THEN l[k] ELSE base

\* The parser forgives: of a torn file it returns what precedes the error.
LoadConfigFile(p) == IF files[p].form = "unreadable" THEN <<>> ELSE files[p].keys

\* Lists of protected things only grow from layer to layer; a map of limits is replaced.
MergeLayer(c, l) ==
  [enabled        |-> Over(l, "enabled", c.enabled),
   permission     |-> Over(l, "permission", c.permission),
   tools          |-> c.tools \cup Over(l, "tools", {}),
   patterns       |-> c.patterns \cup Over(l, "patterns", {}),
   max            |-> Over(l, "max", c.max),
   min            |-> Over(l, "min", c.min),
   models         |-> Over(l, "models", c.models),
   threshold      |-> Over(l, "threshold", c.threshold),
   level          |-> Over(l, "pruneNotification", c.level),
   allowSubAgents |-> Over(l, "allowSubAgents", c.allowSubAgents)]

\* What a warning shows: keys the plugin does not document, values of a wrong type, a
\* number below one. A list of tools is not looked into.
InvalidKeys(l) ==
  DOMAIN l \ ((DOMAIN DefaultConfig \ {"level"}) \cup {"pruneNotification"})

TypeErrors(l)  ==
  {k \in DOMAIN l \ InvalidKeys(l) :
     \/ l[k] \in {Null, Bad}
     \/ k = "models" /\ \E m \in DOMAIN l[k] : l[k][m] \in {Null, Bad}
     \/ k = "threshold" /\ l[k] < 1}

\* An empty file is worth a warning, one that cannot be read or parsed to its end is not.
Warned(p) ==
  \/ files[p].form = "empty"
  \/ InvalidKeys(LoadConfigFile(p)) \cup TypeErrors(LoadConfigFile(p)) # {}

\* The three places, one after the other.
Merged(c, i) ==
  IF GetConfigPaths[i] = None THEN c ELSE MergeLayer(c, LoadConfigFile(GetConfigPaths[i]))

GetConfig == Merged(Merged(Merged(DefaultConfig, 1), 2), 3)

\* A list that is no list cannot be spread: getConfig throws and the plugin is not there.
Throws ==
  \E p \in Read, k \in {"tools", "patterns"} : Over(LoadConfigFile(p), k, {}) = Bad

Truthy(v) == v # FALSE

\* The tool is registered before the host's rules are known.
StartPlugin ==
  /\ plugin.up = "off"
  /\ LET warned == \E p \in Read : Warned(p)
     IN plugin' = IF Throws THEN [plugin EXCEPT !.up = "failed", !.warned = warned]
                  ELSE [plugin EXCEPT
                          !.up = IF Truthy(GetConfig.enabled) THEN "started" ELSE "disabled",
                          !.config = GetConfig, !.tool = GetConfig.permission # "deny",
                          !.warned = warned]
  /\ files' = IF Has("host") THEN files
              ELSE [files EXCEPT !["host"] = [form |-> "whole", keys |-> <<>>]]
  /\ UNCHANGED <<layout, rust, requests, host>>

----------------------------------------------------------------------------
\* Permissions of the host. A key is a wildcard for the permission's name.

AboutCompress(r) == r.key \in {"*", "compress"}

\* The last rule that speaks about compress decides, and denies only as a whole.
DisabledByHost(rules) ==
  LET i == SelectLastInSeq(rules, AboutCompress)
  IN i # 0 /\ rules[i].pattern = "*" /\ rules[i].action = "deny"

ResolvePermission(base, global, agent) ==
  IF base = "deny" \/ DisabledByHost(global \o agent) THEN "deny" ELSE base

\* The host hands its configuration to the plugin, which makes a denial its own and
\* adds a rule for compress where there is none.
ConfigHook ==
  /\ plugin.up = "started" /\ Follows /\ rust.up = "off"
  /\ \E g \in HostRules, a \in [Agents -> HostRules] :
       LET base == IF DisabledByHost(g) THEN "deny" ELSE plugin.config.permission
           explicit == \E i \in DOMAIN g : g[i].key = "compress"
           added == [key |-> "compress", pattern |-> "*", action |-> base]
           global == IF explicit \/ base \notin Actions THEN g ELSE Append(g, added)
       IN /\ host' = [global |-> g, agent |-> a]
          /\ plugin' = [plugin EXCEPT !.up = "ready", !.config.permission = base,
                                      !.rules = [global |-> global, agent |-> a]]
  /\ UNCHANGED <<settings, rust, requests>>

----------------------------------------------------------------------------
\* The plugin's handlers. All sessions share one SessionState.

UnderWay(h) == handler[h].stage \in {"begun", "loaded", "synced"}

\* Another handler is under way.
Others(h) == \E k \in Handlers \ {h} : UnderWay(k)

NoHandler == [stage |-> "idle", agent |-> None, internal |-> FALSE, prompted |-> FALSE,
              disturbed |-> FALSE]

\* ensureSessionInitialized resets the state and waits for the parent's id; the known
\* session only waits. A compress call that finds its session changes nothing here.
Arrive(h) ==
  /\ plugin.up = "ready" /\ arrivals < MaxArrivals
  /\ ~UnderWay(h)
  /\ LET known == state.session = h[1]
     IN /\ h[2] = "call" => ~known
        /\ \E a \in Agents :
             handler' = [handler EXCEPT ![h] =
               [NoHandler EXCEPT !.stage = IF known THEN "loaded" ELSE "begun", !.agent = a]]
        /\ state' = IF known THEN state
                    ELSE [session |-> h[1], sub |-> FALSE, permission |-> None]
        /\ disturbed' = ((known /\ disturbed) \/ Others(h))
  /\ arrivals' = arrivals + 1
  /\ UNCHANGED <<settings, rust, plugin, host>>

\* isSubAgentSession answers, FALSE where the host does not; what it says is written to
\* whatever session the state now belongs to. A compress call has all it came for.
SubAgentKnown(h) ==
  /\ handler[h].stage = "begun"
  /\ handler' = [handler EXCEPT ![h] =
       IF h[2] = "call" THEN NoHandler ELSE [@ EXCEPT !.stage = "loaded"]]
  /\ \E answered \in BOOLEAN :
       /\ state' = [state EXCEPT !.sub = answered /\ h[1] \in SubAgents]
       /\ disturbed' = (disturbed \/ Others(h) \/ ~answered)
  /\ UNCHANGED <<settings, rust, plugin, host, arrivals>>

\* The rest of the waits are over: syncCompressPermissionState. A command goes by what
\* it says at once.
SyncPermission(h) ==
  /\ handler[h].stage = "loaded"
  /\ handler' = [handler EXCEPT ![h] =
       IF h[2] = "command" THEN NoHandler ELSE [@ EXCEPT !.stage = "synced"]]
  /\ state' = [state EXCEPT !.permission =
                 ResolvePermission(plugin.config.permission, plugin.rules.global,
                                   plugin.rules.agent[handler[h].agent])]
  /\ disturbed' = (disturbed \/ Others(h))
  /\ UNCHANGED <<settings, rust, plugin, host, arrivals>>

PromptPermissionStale(s) ==  \* variant: the prompt goes by the settings alone
  plugin.config.permission

\* The permission the system prompt goes by.
PromptPermission(s) ==
  IF state.session = s /\ state.permission # None THEN state.permission
  ELSE plugin.config.permission

\* The host calls the hook for the system prompt of the same request, which may be its
\* own, for a title or a summary.
SystemPrompt(h) ==
  /\ handler[h].stage = "synced"
  /\ \E internal \in BOOLEAN :
       handler' = [handler EXCEPT ![h] =
         [@ EXCEPT !.stage = "told", !.internal = internal, !.disturbed = disturbed \/ Others(h),
                   !.prompted = /\ state.sub => Truthy(plugin.config.allowSubAgents)
                                /\ ~internal
                                /\ PromptPermission(h[1]) # "deny"]]
  /\ disturbed' = (disturbed \/ Others(h))
  /\ UNCHANGED <<settings, rust, plugin, state, host, arrivals>>

----------------------------------------------------------------------------
\* Any small file system the user may have made.
Init ==
  /\ \E placed \in {P \in SUBSET Paths : Cardinality(P) <= MaxFiles} :
       \E held \in [placed -> File] :
         files = [p \in Paths |-> IF p \in placed THEN held[p] ELSE None]
  /\ layout \in [bare : BOOLEAN, marker : BOOLEAN, dirs : {"one", "two", "xdg"}]
  /\ rust = [up |-> "off", config |-> RustDefaults]
  /\ plugin = [up |-> "off", config |-> DefaultConfig, tool |-> FALSE, warned |-> FALSE,
               rules |-> [global |-> <<>>, agent |-> [a \in Agents |-> <<>>]]]
  /\ state = [session |-> None, sub |-> FALSE, permission |-> None]
  /\ handler = [h \in Handlers |-> NoHandler]
  /\ disturbed = FALSE /\ host = None /\ arrivals = 0

Next ==
  \/ StartRust \/ UpdateConfig \/ StartPlugin \/ ConfigHook
  \/ \E h \in Handlers : Arrive(h) \/ SubAgentKnown(h) \/ SyncPermission(h) \/ SystemPrompt(h)

Spec == Init /\ [][Next]_vars

----------------------------------------------------------------------------
\* What must hold.

\* The state has its types, and the settings the library works with are valid ones,
\* however the files are filled and whatever its host updates.
TypeOK ==
  /\ files \in [Paths -> File \cup {None, [form |-> "whole", keys |-> <<>>]}]
  /\ layout \in [bare : BOOLEAN, marker : BOOLEAN, dirs : {"one", "two", "xdg"}]
  /\ rust.up \in {"off", "up", "updated", "refused"}
  /\ Deserializes(rust.config) /\ Validate(rust.config)
  /\ plugin.up \in {"off", "failed", "disabled", "started", "ready"}
  /\ plugin.tool \in BOOLEAN /\ plugin.warned \in BOOLEAN
  /\ state \in [session : Sessions \cup {None}, sub : BOOLEAN,
               permission : Actions \cup {None, Bad}]
  /\ handler \in [Handlers -> [stage : {"idle", "begun", "loaded", "synced", "told"},
                               agent : Agents \cup {None}, internal : BOOLEAN,
                               prompted : BOOLEAN, disturbed : BOOLEAN]]
  /\ disturbed \in BOOLEAN /\ arrivals \in 0..MaxArrivals

\* A user of the plugin alone: files only where both engines look and by names both know,
\* the project's directory the one that holds the file, found without passing a marker, and
\* the library not looking for the host's directory elsewhere. The files hold the keys
\* the plugin documents.
DropIn ==
  /\ \A p \in Paths \ SharedPaths : ~Has(p)
  /\ (layout.bare \/ layout.marker) /\ Has("outer") => Has("inner")
  /\ layout.dirs # "two"
  /\ \A p \in Paths : Has(p) => DOMAIN files[p].keys \cap {"level", "allowSubagents"} = {}

\* A value of the right type that only the library minds, where a file sets it.
OnlyRustMinds(k, v) ==
  \/ k \in {"max", "min"} /\ ~(IsPercentage(v) /\ Resolve(v) >= 1)
  \/ k = "models" /\ \E m \in DOMAIN v : ~(IsPercentage(v[m]) /\ Resolve(v[m]) >= 1)
  \/ k \in {"tools", "patterns"} /\ Odd \in v
  \/ k = "threshold" /\ v \notin 2..100

\* Dropped into an OpenCode host in the place of a plugin that comes up, the library reads
\* the same settings from the host's files, or none: five layers of one and three of the
\* other, an alias, lists that replace and lists that grow, a map that is merged and one
\* that is replaced, come to the same values, no thing protected and no model limited less
\* or otherwise; allowSubAgents alone does not reach it. Of what the library refuses the
\* plugin's user is warned, but for a file that is torn or unreadable, a value out of
\* the library's ranges, a pattern that does not compile and limits at odds.
SameFilesSameSettings ==
  (plugin.up \in {"started", "disabled", "failed"} /\ DropIn) =>
    /\ rust.up = "up" /\ plugin.up # "failed" =>
         /\ \A k \in {"enabled", "permission", "max", "min", "threshold", "level"} :
              rust.config[k] = plugin.config[k]
         /\ \A k \in {"tools", "patterns"} : rust.config[k] \subseteq plugin.config[k]
         /\ \A m \in DOMAIN plugin.config.models :
              /\ m \in DOMAIN rust.config.models
              /\ rust.config.models[m] = plugin.config.models[m]
         /\ rust.config.allowSubagents = FALSE
    /\ rust.up = "refused" =>
         \/ plugin.warned
         \/ \E p \in Paths : Has(p) /\ ~ReadLayer(p)
         \/ \E p \in Read : \E k \in DOMAIN files[p].keys : OnlyRustMinds(k, files[p].keys[k])
         \/ ~(Resolve(plugin.config.min) < Resolve(plugin.config.max))

\* The last word of rules about compress.
LastWordDenies(rules) ==
  \E i \in DOMAIN rules :
    /\ AboutCompress(rules[i]) /\ rules[i].pattern = "*" /\ rules[i].action = "deny"
    /\ \A j \in DOMAIN rules : j > i => ~AboutCompress(rules[j])

\* What the user wrote, with nothing added, denies to no agent: the settings, the rules
\* for all of them.
PermittedToAll == plugin.tool /\ ~LastWordDenies(host.global)

\* Nor to this one. A denial for all is not lifted for one.
Permitted(a) == PermittedToAll /\ ~LastWordDenies(host.agent[a])

\* The model is told to compress in a request if and only if its agent may use the tool,
\* the session is no sub-agent's or sub-agents may, and the request is not the host's
\* own: unless two handlers were under way at once, this one or the one that set the
\* shared state up among them, or the host did not say whose session it is. Even then
\* no request is told what is denied to all, nor the host's own.
PromptFollowsRules ==
  \A s \in Sessions :
    LET r == handler[<<s, "request">>]
    IN r.stage = "told" =>
         /\ r.prompted => PermittedToAll /\ ~r.internal
         /\ ~r.disturbed =>
              (r.prompted <=> /\ Permitted(r.agent) /\ ~r.internal
                              /\ s \in SubAgents => Truthy(plugin.config.allowSubAgents))
============================================================================
