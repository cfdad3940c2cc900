--------------------------- MODULE SettingsProofs ---------------------------
(***************************************************************************)
(* Proofs about settings and permissions, for any sessions, agents, rules  *)
(* of the host and contents of the settings files: the prompt follows the  *)
(* rules, the two engines read the same settings from the same files.  Two *)
(* arguments: a handler alone with the shared state owns it from its       *)
(* arrival on; and one layer more, laid over what each engine has merged   *)
(* so far, keeps what the two have in common and what the library accepts. *)
(***************************************************************************)
EXTENDS Settings, FiniteSetTheorems, SequenceTheorems, TLAPS

Rule == [key : {"*", "compress", "bash"}, pattern : {"*", "x"}, action : Actions]

LEMMA RulesAre == HostRules \subseteq Seq(Rule)
BY SettingsAssumption DEF Rule

\* A set of positions has a last one.
LEMMA LastOne ==
  ASSUME NEW n \in Nat, NEW D \in SUBSET (1..n), D # {}
  PROVE  Max(D) \in D /\ \A x \in D : x <= Max(D)
<1> DEFINE U == {n - x : x \in D}
<1>1. U \in SUBSET Nat /\ U # {}
  OBVIOUS
<1>2. IsWellFoundedOn(OpToRel(<, Nat), Nat)
  BY NatLessThanWellFounded
<1> HIDE DEF U
<1>3. PICK u \in U : \A x \in U : <<x, u>> \notin OpToRel(<, Nat)
  BY <1>1, <1>2, WFMin
<1>4. \A x \in U : u <= x
  <2> SUFFICES ASSUME NEW x \in U, x < u PROVE FALSE
    BY <1>1
  <2>1. <<x, u>> \in OpToRel(<, Nat)
    BY <1>1 DEF OpToRel
  <2> QED BY <1>3, <2>1
<1>5. PICK m \in D : u = n - m
  BY DEF U
<1>6. \A x \in D : m >= x
  BY <1>4, <1>5 DEF U
<1>7. \E m_1 \in D : \A x \in D : m_1 >= x
  BY <1>6
<1>8. Max(D) \in D /\ \A x \in D : Max(D) >= x
  BY <1>7 DEF Max
<1> QED BY <1>8

----------------------------------------------------------------------------
(***************************************************************************)
(* The host's rules.                                                       *)
(***************************************************************************)
\* Rules that say nothing about compress.
Silent(rules) == \A i \in DOMAIN rules : ~AboutCompress(rules[i])

\* What the plugin looks up from the end is the last word of the rules.
LEMMA LastRuleDecides ==
  ASSUME NEW rules \in Seq(Rule)
  PROVE  DisabledByHost(rules) <=> LastWordDenies(rules)
<1> DEFINE D == {i \in 1..Len(rules) : AboutCompress(rules[i])}
           last == SelectLastInSeq(rules, AboutCompress)
<1>1. last = IF D # {} THEN Max(D) ELSE 0
  BY DEF SelectLastInSeq
<1>2. D # {} => last \in D /\ \A j \in D : j <= last
  BY <1>1, LastOne, Len(rules) \in Nat, D \in SUBSET (1..Len(rules))
<1>3. D = {} => last = 0
  BY <1>1
<1>4. DisabledByHost(rules) <=>
        last # 0 /\ rules[last].pattern = "*" /\ rules[last].action = "deny"
  BY DEF DisabledByHost
<1> HIDE DEF last
<1>5. DOMAIN rules = 1..Len(rules) /\ Len(rules) \in Nat
  OBVIOUS
<1>6. CASE D = {}
  BY <1>3, <1>4, <1>5, <1>6 DEF LastWordDenies
<1>7. CASE D # {}
  <2>1. last \in 1..Len(rules) /\ AboutCompress(rules[last])
    BY <1>2, <1>7
  <2>2. \A j \in 1..Len(rules) : j > last => ~AboutCompress(rules[j])
    BY <1>2, <1>5, <1>7, <2>1
  <2>3. ASSUME NEW i \in 1..Len(rules), AboutCompress(rules[i]),
               \A j \in 1..Len(rules) : j > i => ~AboutCompress(rules[j])
        PROVE  i = last
    <3>1. ~(last > i) /\ ~(i > last)
      BY <2>1, <2>2, <2>3
    <3> QED BY <2>1, <3>1
  <2> QED BY <1>4, <1>5, <2>1, <2>2, <2>3 DEF LastWordDenies
<1> QED BY <1>6, <1>7

\* Of two lists of rules the second has the last word, if it says anything.
LEMMA LastWordOfTwo ==
  ASSUME NEW g \in Seq(Rule), NEW a \in Seq(Rule)
  PROVE  /\ g \o a \in Seq(Rule)
         /\ LastWordDenies(g \o a) <=>
              LastWordDenies(a) \/ (Silent(a) /\ LastWordDenies(g))
<1> DEFINE n == Len(g)
           m == Len(a)
           b == g \o a
<1>1. /\ n \in Nat /\ m \in Nat /\ DOMAIN g = 1..n /\ DOMAIN a = 1..m
      /\ DOMAIN b = 1..(n + m) /\ b \in Seq(Rule)
      /\ \A i \in 1..n : b[i] = g[i]
      /\ \A i \in 1..m : b[n + i] = a[i]
  OBVIOUS
<1> HIDE DEF n, m, b
<1> DEFINE Word(r, i) == AboutCompress(r[i]) /\ r[i].pattern = "*" /\ r[i].action = "deny"
<1>2. \A r : LastWordDenies(r) <=>
        \E i \in DOMAIN r : Word(r, i) /\ \A j \in DOMAIN r : j > i => ~AboutCompress(r[j])
  BY DEF LastWordDenies
<1>3. ASSUME LastWordDenies(a) PROVE LastWordDenies(b)
  <2>1. PICK i \in 1..m : Word(a, i) /\ \A j \in 1..m : j > i => ~AboutCompress(a[j])
    BY <1>1, <1>2, <1>3
  <2>2. n + i \in 1..(n + m) /\ Word(b, n + i)
    BY <1>1, <2>1
  <2>3. ASSUME NEW j \in 1..(n + m), j > n + i PROVE ~AboutCompress(b[j])
    <3>1. j - n \in 1..m /\ j - n > i /\ j = n + (j - n)
      BY <1>1, <2>3
    <3> QED BY <1>1, <2>1, <3>1
  <2> QED BY <1>1, <1>2, <2>2, <2>3
<1>4. ASSUME Silent(a), LastWordDenies(g) PROVE LastWordDenies(b)
  <2>1. PICK i \in 1..n : Word(g, i) /\ \A j \in 1..n : j > i => ~AboutCompress(g[j])
    BY <1>1, <1>2, <1>4
  <2>2. i \in 1..(n + m) /\ Word(b, i)
    BY <1>1, <2>1
  <2>3. ASSUME NEW j \in 1..(n + m), j > i PROVE ~AboutCompress(b[j])
    <3>1. CASE j \in 1..n
      BY <1>1, <2>1, <2>3, <3>1
    <3>2. CASE j \notin 1..n
      <4>1. j - n \in 1..m /\ j = n + (j - n)
        BY <1>1, <2>3, <3>2
      <4> QED BY <1>1, <1>4, <4>1 DEF Silent
    <3> QED BY <3>1, <3>2
  <2> QED BY <1>1, <1>2, <2>2, <2>3
<1>5. ASSUME LastWordDenies(b) PROVE LastWordDenies(a) \/ (Silent(a) /\ LastWordDenies(g))
  <2>1. PICK i \in 1..(n + m) :
          Word(b, i) /\ \A j \in 1..(n + m) : j > i => ~AboutCompress(b[j])
    BY <1>1, <1>2, <1>5
  <2>2. \A j \in 1..m : n + j \in 1..(n + m) /\ b[n + j] = a[j]
    BY <1>1
  <2>3. CASE i \in 1..n
    <3>1. Silent(a)
      <4>1. \A j \in 1..m : n + j > i
        BY <1>1, <2>3
      <4> QED BY <1>1, <2>1, <2>2, <4>1 DEF Silent
    <3>2. Word(g, i)
      BY <1>1, <2>1, <2>3
    <3>3. \A j \in 1..n : j > i => ~AboutCompress(g[j])
      BY <1>1, <2>1, <2>3
    <3> QED BY <1>1, <1>2, <2>3, <3>1, <3>2, <3>3
  <2>4. CASE i \notin 1..n
    <3>1. i - n \in 1..m /\ i = n + (i - n)
      BY <1>1, <2>4
    <3>2. Word(a, i - n)
      BY <1>1, <2>1, <3>1
    <3>3. \A j \in 1..m : j > i - n => ~AboutCompress(a[j])
      <4>1. \A j \in 1..m : j > i - n => n + j > i
        BY <1>1
      <4> QED BY <2>1, <2>2, <4>1
    <3> QED BY <1>1, <1>2, <3>1, <3>2, <3>3
  <2> QED BY <2>3, <2>4
<1>6. b \in Seq(Rule)
  BY <1>1
<1> QED BY <1>3, <1>4, <1>5, <1>6 DEF b

\* A rule about compress, added at the end, has the last word.
LEMMA AddedRuleDecides ==
  ASSUME NEW g \in Seq(Rule), NEW r \in Rule, r.key = "compress", r.pattern = "*"
  PROVE  /\ Append(g, r) \in Seq(Rule)
         /\ LastWordDenies(Append(g, r)) <=> r.action = "deny"
<1>1. <<r>> \in Seq(Rule) /\ Append(g, r) = g \o <<r>>
  OBVIOUS
<1>2. AboutCompress(r)
  BY DEF AboutCompress
<1>3. ~Silent(<<r>>)
  BY <1>2 DEF Silent
<1>4. LastWordDenies(<<r>>) <=> r.action = "deny"
  <2>1. DOMAIN <<r>> = {1} /\ <<r>>[1] = r
    OBVIOUS
  <2> QED BY <1>2, <2>1 DEF LastWordDenies
<1> QED BY <1>1, <1>3, <1>4, LastWordOfTwo

\* The permission and the host's rules the plugin keeps after ConfigHook.
HookBase(g, permission) == IF DisabledByHost(g) THEN "deny" ELSE permission
HookRules(g, base) ==
  IF (\E i \in DOMAIN g : g[i].key = "compress") \/ base \notin Actions THEN g
  ELSE Append(g, [key |-> "compress", pattern |-> "*", action |-> base])

\* What ConfigHook makes of the settings and the host's rules denies an agent exactly
\* what the user's own words deny it.
LEMMA HookKeepsRules ==
  ASSUME NEW g \in HostRules, NEW a \in HostRules, NEW permission
  PROVE  ResolvePermission(HookBase(g, permission), HookRules(g, HookBase(g, permission)), a)
           = "deny"
         <=> permission = "deny" \/ LastWordDenies(g) \/ LastWordDenies(a)
<1> DEFINE base == HookBase(g, permission)
           global == HookRules(g, base)
           added == [key |-> "compress", pattern |-> "*", action |-> base]
<1>1. g \in Seq(Rule) /\ a \in Seq(Rule)
  BY RulesAre
<1>2. base = "deny" <=> permission = "deny" \/ LastWordDenies(g)
  BY <1>1, LastRuleDecides DEF HookBase
<1> HIDE DEF base
<1> DEFINE explicit == \E i \in DOMAIN g : g[i].key = "compress"
<1>. global = IF explicit \/ base \notin Actions THEN g ELSE Append(g, added)
  BY DEF HookRules
<1> HIDE DEF global, explicit
<1>3. ASSUME base # "deny"
      PROVE  global \in Seq(Rule) /\ ~LastWordDenies(global)
  <2>1. ~LastWordDenies(g)
    BY <1>2, <1>3
  <2>2. CASE global = g
    BY <1>1, <2>1, <2>2
  <2>3. CASE global # g
    <3>1. base \in Actions /\ global = Append(g, added)
      BY <2>3
    <3>2. added \in Rule /\ added.key = "compress" /\ added.pattern = "*" /\ added.action = base
      BY <3>1 DEF Rule
    <3> QED BY <1>1, <1>3, <3>1, <3>2, AddedRuleDecides
  <2> QED BY <2>2, <2>3
<1>4. ASSUME base # "deny"
      PROVE  DisabledByHost(global \o a) <=> LastWordDenies(a)
  BY <1>1, <1>3, <1>4, LastWordOfTwo, LastRuleDecides
<1>5. ResolvePermission(base, global, a) = "deny" <=> base = "deny" \/ DisabledByHost(global \o a)
  BY DEF ResolvePermission
<1> QED BY <1>2, <1>4, <1>5 DEF base, global

----------------------------------------------------------------------------
(***************************************************************************)
(* Handlers of the plugin. The shared state belongs to a handler that is   *)
(* under way alone, from its arrival to its end.                           *)
(***************************************************************************)
HandlerRec == [stage : {"idle", "begun", "loaded", "synced", "told"},
               agent : Agents \cup {None}, internal : BOOLEAN,
               prompted : BOOLEAN, disturbed : BOOLEAN]

PluginShape ==
  plugin = [up |-> plugin.up, config |-> plugin.config, tool |-> plugin.tool,
            warned |-> plugin.warned, rules |-> plugin.rules]

Shape(c) ==
  c = [enabled |-> c.enabled, permission |-> c.permission, tools |-> c.tools,
       patterns |-> c.patterns, max |-> c.max, min |-> c.min, models |-> c.models,
       threshold |-> c.threshold, level |-> c.level, allowSubAgents |-> c.allowSubAgents]

HandlerTypes ==
  /\ handler \in [Handlers -> HandlerRec]
  /\ state = [session |-> state.session, sub |-> state.sub, permission |-> state.permission]
  /\ state.session \in Sessions \cup {None}
  /\ disturbed \in BOOLEAN
  /\ \A h \in Handlers : handler[h].stage # "idle" => handler[h].agent \in Agents

\* The permission a handler of an agent syncs the state to.
Resolved(a) ==
  ResolvePermission(plugin.config.permission, plugin.rules.global, plugin.rules.agent[a])

\* No handler before the host handed over its rules; what then denies an agent, or all, is
\* what the user's words deny.
RulesKept ==
  /\ PluginShape /\ Shape(plugin.config)
  /\ plugin.up # "ready" =>
       /\ state.session = None /\ state.permission = None
       /\ \A h \in Handlers : handler[h].stage = "idle"
  /\ plugin.up = "started" => plugin.tool = (plugin.config.permission # "deny")
  /\ plugin.up = "ready" =>
       /\ plugin.config.permission = "deny" <=> ~PermittedToAll
       /\ \A a \in Agents : Resolved(a) = "deny" <=> ~Permitted(a)

\* Whatever handlers did to the state, what is denied to all stays denied in it.
NotLifted == plugin.config.permission = "deny" => state.permission \in {None, "deny"}

\* Undisturbed, the state is that of the one handler under way, and what it says of its
\* session was asked of the host.
Owned ==
  ~disturbed =>
    /\ \A h \in Handlers : UnderWay(h) => state.session = h[1] /\ ~Others(h)
    /\ state.session # None /\ (\A h \in Handlers : handler[h].stage # "begun") =>
         state.sub = (state.session \in SubAgents)
    /\ \A h \in Handlers : handler[h].stage = "synced" =>
         state.permission = Resolved(handler[h].agent)

\* What a request was told.
ToldRight(h) ==
  LET r == handler[h]
  IN r.stage = "told" =>
       /\ r.prompted => PermittedToAll /\ ~r.internal
       /\ ~r.disturbed =>
            (r.prompted <=> /\ Permitted(r.agent) /\ ~r.internal
                            /\ h[1] \in SubAgents => Truthy(plugin.config.allowSubAgents))

PromptInv ==
  /\ HandlerTypes
  /\ RulesKept
  /\ NotLifted
  /\ Owned
  /\ \A h \in Handlers : ToldRight(h)

LEMMA PromptInit == Init => PromptInv
<1> SUFFICES ASSUME Init PROVE PromptInv
  OBVIOUS
<1>1. /\ handler = [h \in Handlers |-> NoHandler]
      /\ state = [session |-> None, sub |-> FALSE, permission |-> None]
      /\ plugin = [up |-> "off", config |-> DefaultConfig, tool |-> FALSE, warned |-> FALSE,
                   rules |-> [global |-> <<>>, agent |-> [a \in Agents |-> <<>>]]]
      /\ disturbed = FALSE
  BY DEF Init
<1>2. NoHandler \in HandlerRec /\ NoHandler.stage = "idle"
  BY DEF NoHandler, HandlerRec
<1>3. HandlerTypes
  BY <1>1, <1>2 DEF HandlerTypes
<1>4. Shape(plugin.config) /\ PluginShape
  BY <1>1 DEF Shape, PluginShape, DefaultConfig
<1>5. RulesKept
  BY <1>1, <1>2, <1>4 DEF RulesKept
<1>6. NotLifted /\ Owned /\ \A h \in Handlers : ToldRight(h)
  BY <1>1, <1>2 DEF NotLifted, Owned, ToldRight, UnderWay
<1> QED BY <1>3, <1>5, <1>6 DEF PromptInv

\* A step of one handler that leaves the plugin and the host's rules as they are: what is
\* left to show for it is the part of the invariant about the state and the handler itself.
LEMMA HandlerStep ==
  ASSUME PromptInv, plugin.up = "ready", NEW h \in Handlers, NEW r \in HandlerRec,
         r.stage # "idle" => r.agent \in Agents,
         handler' = [handler EXCEPT ![h] = r], UNCHANGED <<plugin, host>>,
         disturbed' \in BOOLEAN, state'.session \in Sessions \cup {None},
         state' = [session |-> state'.session, sub |-> state'.sub,
                   permission |-> state'.permission]
  PROVE  /\ HandlerTypes' /\ RulesKept'
         /\ handler'[h] = r /\ \A k \in Handlers \ {h} : handler'[k] = handler[k]
         /\ \A k \in Handlers \ {h} : ToldRight(k)'
         /\ Others(h)' <=> Others(h)
         /\ \A a : (Permitted(a)' <=> Permitted(a)) /\ Resolved(a)' = Resolved(a)
         /\ PermittedToAll' <=> PermittedToAll
<1>1. handler \in [Handlers -> HandlerRec]
  BY DEF PromptInv, HandlerTypes
<1>2. /\ handler' \in [Handlers -> HandlerRec]
      /\ handler'[h] = r /\ \A k \in Handlers \ {h} : handler'[k] = handler[k]
  BY <1>1
<1>3. /\ \A a : (Permitted(a)' <=> Permitted(a)) /\ Resolved(a)' = Resolved(a)
      /\ PermittedToAll' <=> PermittedToAll
  BY DEF Permitted, PermittedToAll, Resolved
<1>4. HandlerTypes'
  BY <1>2 DEF PromptInv, HandlerTypes
<1>5. RulesKept'
  BY <1>3 DEF PromptInv, RulesKept, PluginShape, Shape
<1>6. \A k \in Handlers \ {h} : ToldRight(k)'
  BY <1>2, <1>3 DEF PromptInv, ToldRight
<1>7. Others(h)' <=> Others(h)
  BY <1>2 DEF Others, UnderWay
<1> QED BY <1>2, <1>3, <1>4, <1>5, <1>6, <1>7

LEMMA ArriveKeeps ==
  ASSUME PromptInv, NEW h \in Handlers, Arrive(h)
  PROVE  PromptInv'
<1> DEFINE known == state.session = h[1]
           stage == IF known THEN "loaded" ELSE "begun"
<1>1. /\ plugin.up = "ready" /\ UNCHANGED <<plugin, host>> /\ ~UnderWay(h)
      /\ disturbed' = ((known /\ disturbed) \/ Others(h))
      /\ state' = IF known THEN state
                  ELSE [session |-> h[1], sub |-> FALSE, permission |-> None]
  BY DEF Arrive
<1>2. PICK a \in Agents :
        handler' = [handler EXCEPT ![h] = [NoHandler EXCEPT !.stage = stage, !.agent = a]]
  BY DEF Arrive
<1> DEFINE r == [NoHandler EXCEPT !.stage = stage, !.agent = a]
<1>3. r \in HandlerRec /\ r.agent \in Agents /\ r.stage = stage
  BY DEF NoHandler, HandlerRec
<1>4. handler' = [handler EXCEPT ![h] = r]
  BY <1>2
<1> HIDE DEF r
<1>5. h[1] \in Sessions /\ h[1] # None
  BY ValuesAssumption DEF Handlers
<1>6. /\ state'.session = h[1]
      /\ state' = [session |-> state'.session, sub |-> state'.sub,
                   permission |-> state'.permission]
      /\ known => state' = state
      /\ ~known => state'.permission = None
  <2>1. CASE known
    BY <1>1, <2>1 DEF PromptInv, HandlerTypes
  <2>2. CASE ~known
    BY <1>1, <2>2
  <2> QED BY <2>1, <2>2
<1>7. /\ HandlerTypes' /\ RulesKept'
      /\ handler'[h] = r /\ \A k \in Handlers \ {h} : handler'[k] = handler[k]
      /\ \A k \in Handlers \ {h} : ToldRight(k)'
      /\ Others(h)' <=> Others(h)
  <2>1. disturbed' \in BOOLEAN
    BY <1>1 DEF PromptInv, HandlerTypes
  <2> QED BY <1>1, <1>3, <1>4, <1>5, <1>6, <2>1, HandlerStep
<1>8. ToldRight(h)'
  BY <1>3, <1>7 DEF ToldRight
<1>9. NotLifted'
  BY <1>1, <1>6 DEF PromptInv, NotLifted
<1>10. Owned'
  <2> SUFFICES ASSUME ~disturbed' PROVE Owned'
    BY DEF Owned
  <2>1. ~Others(h) /\ (known => ~disturbed)
    BY <1>1
  <2>2. \A k \in Handlers \ {h} : ~UnderWay(k) /\ ~UnderWay(k)'
    BY <1>7, <2>1 DEF Others, UnderWay
  <2>3. \A k \in Handlers : UnderWay(k)' => state'.session = k[1] /\ ~Others(k)'
    BY <1>6, <1>7, <2>1, <2>2
  <2>4. \A k \in Handlers : handler'[k].stage # "synced"
    BY <1>3, <1>7, <2>2 DEF UnderWay
  <2>5. ASSUME \A k \in Handlers : handler'[k].stage # "begun"
        PROVE  state'.sub = (state'.session \in SubAgents)
    <3>1. known
      BY <1>3, <1>7, <2>5
    <3>2. \A k \in Handlers : handler[k].stage # "begun"
      BY <1>1, <2>2 DEF UnderWay
    <3>3. state.sub = (state.session \in SubAgents)
      BY <1>5, <2>1, <3>1, <3>2 DEF PromptInv, Owned
    <3> QED BY <1>6, <3>1, <3>3
  <2> QED BY <2>3, <2>4, <2>5 DEF Owned
<1> QED BY <1>7, <1>8, <1>9, <1>10 DEF PromptInv

LEMMA SubAgentKnownKeeps ==
  ASSUME PromptInv, NEW h \in Handlers, SubAgentKnown(h)
  PROVE  PromptInv'
<1>1. handler[h].stage = "begun" /\ UNCHANGED <<plugin, host>>
  BY DEF SubAgentKnown
<1>2. PICK answered \in BOOLEAN :
        /\ state' = [state EXCEPT !.sub = answered /\ h[1] \in SubAgents]
        /\ disturbed' = (disturbed \/ Others(h) \/ ~answered)
  BY DEF SubAgentKnown
<1> DEFINE r == IF h[2] = "call" THEN NoHandler ELSE [handler[h] EXCEPT !.stage = "loaded"]
<1>3. handler' = [handler EXCEPT ![h] = r]
  BY Zenon DEF SubAgentKnown, PromptInv, HandlerTypes
<1>4. UnderWay(h) /\ handler[h] \in HandlerRec /\ handler[h].agent \in Agents
      /\ plugin.up = "ready"
  BY <1>1 DEF UnderWay, PromptInv, HandlerTypes, RulesKept, PluginShape
<1>5. /\ r \in HandlerRec /\ r.stage \in {"idle", "loaded"}
      /\ r.stage # "idle" => r.agent \in Agents
  BY <1>4 DEF HandlerRec, NoHandler
<1> HIDE DEF r
<1>6. /\ state' = [session |-> state.session, sub |-> answered /\ h[1] \in SubAgents,
                   permission |-> state.permission]
  BY <1>2, Zenon DEF PromptInv, HandlerTypes
<1>7. /\ state'.session = state.session /\ state'.permission = state.permission
      /\ state'.sub = (answered /\ h[1] \in SubAgents)
      /\ state' = [session |-> state'.session, sub |-> state'.sub,
                   permission |-> state'.permission]
  BY <1>6
<1>8. /\ HandlerTypes' /\ RulesKept'
      /\ handler'[h] = r /\ \A k \in Handlers \ {h} : handler'[k] = handler[k]
      /\ \A k \in Handlers \ {h} : ToldRight(k)'
      /\ Others(h)' <=> Others(h)
  <2>1. disturbed' \in BOOLEAN /\ state'.session \in Sessions \cup {None}
    BY <1>2, <1>7 DEF PromptInv, HandlerTypes
  <2> QED BY <1>1, <1>3, <1>4, <1>5, <1>7, <2>1, HandlerStep
<1>9. ToldRight(h)' /\ NotLifted'
  BY <1>1, <1>5, <1>7, <1>8 DEF ToldRight, NotLifted, PromptInv
<1>10. Owned'
  <2> SUFFICES ASSUME ~disturbed' PROVE Owned'
    BY DEF Owned
  <2>1. ~disturbed /\ ~Others(h) /\ answered
    BY <1>2
  <2>2. state.session = h[1]
    BY <1>4, <2>1 DEF PromptInv, Owned
  <2>3. \A k \in Handlers \ {h} : ~UnderWay(k)'
    BY <1>8, <2>1 DEF Others, UnderWay
  <2>4. \A k \in Handlers : UnderWay(k)' => state'.session = k[1] /\ ~Others(k)'
    BY <1>7, <1>8, <2>1, <2>2, <2>3
  <2>5. \A k \in Handlers : handler'[k].stage # "synced"
    BY <1>5, <1>8, <2>3 DEF UnderWay
  <2> QED BY <1>7, <2>1, <2>2, <2>4, <2>5 DEF Owned
<1> QED BY <1>8, <1>9, <1>10 DEF PromptInv

LEMMA SyncPermissionKeeps ==
  ASSUME PromptInv, NEW h \in Handlers, SyncPermission(h)
  PROVE  PromptInv'
<1> DEFINE r == IF h[2] = "command" THEN NoHandler ELSE [handler[h] EXCEPT !.stage = "synced"]
           permission == Resolved(handler[h].agent)
<1>1. /\ handler[h].stage = "loaded" /\ UNCHANGED <<plugin, host>>
      /\ state' = [state EXCEPT !.permission = permission]
      /\ disturbed' = (disturbed \/ Others(h))
  BY DEF SyncPermission, Resolved
<1>2. handler' = [handler EXCEPT ![h] = r]
  BY Zenon DEF SyncPermission, PromptInv, HandlerTypes
<1>3. UnderWay(h) /\ handler[h] \in HandlerRec /\ handler[h].agent \in Agents
      /\ plugin.up = "ready"
  BY <1>1 DEF UnderWay, PromptInv, HandlerTypes, RulesKept, PluginShape
<1>4. /\ r \in HandlerRec /\ r.stage \in {"idle", "synced"}
      /\ r.stage = "synced" => r.agent = handler[h].agent
  BY <1>3 DEF HandlerRec, NoHandler
<1> HIDE DEF r
<1>5. /\ permission = Resolved(handler[h].agent)
      /\ plugin.config.permission = "deny" => permission = "deny"
  BY DEF Resolved, ResolvePermission
<1> HIDE DEF permission
<1>6. state' = [session |-> state.session, sub |-> state.sub, permission |-> permission]
  BY <1>1, Zenon DEF PromptInv, HandlerTypes
<1>7. /\ state'.session = state.session /\ state'.permission = permission
      /\ state'.sub = state.sub
      /\ state' = [session |-> state'.session, sub |-> state'.sub,
                   permission |-> state'.permission]
  BY <1>6
<1>8. /\ HandlerTypes' /\ RulesKept'
      /\ handler'[h] = r /\ \A k \in Handlers \ {h} : handler'[k] = handler[k]
      /\ \A k \in Handlers \ {h} : ToldRight(k)'
      /\ Others(h)' <=> Others(h)
      /\ \A a : Resolved(a)' = Resolved(a)
  <2>1. disturbed' \in BOOLEAN /\ state'.session \in Sessions \cup {None}
    BY <1>1, <1>7 DEF PromptInv, HandlerTypes
  <2>2. r.stage # "idle" => r.agent \in Agents
    BY <1>3, <1>4
  <2> QED BY <1>1, <1>2, <1>3, <1>4, <1>7, <2>1, <2>2, HandlerStep
<1>9. ToldRight(h)' /\ NotLifted'
  BY <1>1, <1>4, <1>5, <1>7, <1>8 DEF ToldRight, NotLifted, PromptInv
<1>10. Owned'
  <2> SUFFICES ASSUME ~disturbed' PROVE Owned'
    BY DEF Owned
  <2>1. ~disturbed /\ ~Others(h)
    BY <1>1
  <2>2. state.session = h[1]
    BY <1>3, <2>1 DEF PromptInv, Owned
  <2>3. \A k \in Handlers \ {h} : ~UnderWay(k) /\ ~UnderWay(k)'
    BY <1>8, <2>1 DEF Others, UnderWay
  <2>4. \A k \in Handlers : UnderWay(k)' => state'.session = k[1] /\ ~Others(k)'
    BY <1>7, <1>8, <2>1, <2>2, <2>3
  <2>5. \A k \in Handlers : (handler[k].stage = "synced" =>
                               state.permission = Resolved(handler[k].agent))'
    <3> SUFFICES ASSUME NEW k \in Handlers, handler'[k].stage = "synced"
                 PROVE  (state.permission = Resolved(handler[k].agent))'
      OBVIOUS
    <3>1. k = h
      BY <2>3 DEF UnderWay
    <3>2. handler'[k].agent = handler[h].agent
      BY <1>4, <1>8, <3>1
    <3>3. Resolved(handler[h].agent) = ResolvePermission(plugin'.config.permission,
                                         plugin'.rules.global, plugin'.rules.agent[handler[h].agent])
      BY <1>1 DEF Resolved
    <3> QED BY <1>5, <1>7, <3>2, <3>3 DEF Resolved
  <2>6. state'.session # None => state'.sub = (state'.session \in SubAgents)
    <3>1. \A k \in Handlers : handler[k].stage # "begun"
      BY <1>1, <2>3 DEF UnderWay
    <3> QED BY <1>7, <2>1, <3>1 DEF PromptInv, Owned
  <2> QED BY <2>4, <2>5, <2>6 DEF Owned
<1> QED BY <1>8, <1>9, <1>10 DEF PromptInv

LEMMA SystemPromptKeeps ==
  ASSUME PromptInv, NEW h \in Handlers, SystemPrompt(h)
  PROVE  PromptInv'
<1>1. /\ handler[h].stage = "synced" /\ UNCHANGED <<state, plugin, host>>
      /\ disturbed' = (disturbed \/ Others(h))
  BY DEF SystemPrompt
<1> DEFINE prompted(i) == /\ state.sub => Truthy(plugin.config.allowSubAgents)
                          /\ ~i
                          /\ PromptPermission(h[1]) # "deny"
           mark == disturbed \/ Others(h)
<1>2. PICK internal \in BOOLEAN :
        handler' = [handler EXCEPT ![h] =
          [handler[h] EXCEPT !.stage = "told", !.internal = internal, !.disturbed = mark,
                             !.prompted = prompted(internal)]]
  BY Zenon DEF SystemPrompt, PromptInv, HandlerTypes
<1> DEFINE told == prompted(internal)
           r == [handler[h] EXCEPT !.stage = "told", !.internal = internal, !.disturbed = mark,
                                   !.prompted = told]
<1>3. handler' = [handler EXCEPT ![h] = r]
  BY <1>2
<1>4. UnderWay(h) /\ handler[h] \in HandlerRec /\ handler[h].agent \in Agents
      /\ plugin.up = "ready" /\ told \in BOOLEAN /\ mark \in BOOLEAN
  BY <1>1 DEF UnderWay, PromptInv, HandlerTypes, RulesKept, PluginShape
<1>5. told <=> /\ state.sub => Truthy(plugin.config.allowSubAgents)
               /\ ~internal /\ PromptPermission(h[1]) # "deny"
  OBVIOUS
<1>6. mark <=> disturbed \/ Others(h)
  OBVIOUS
<1> HIDE DEF told, mark
<1>7. /\ r \in HandlerRec /\ r.stage = "told" /\ r.agent = handler[h].agent
      /\ r.prompted = told /\ r.disturbed = mark /\ r.internal = internal
  BY <1>4 DEF HandlerRec
<1> HIDE DEF r
<1>8. /\ HandlerTypes' /\ RulesKept'
      /\ handler'[h] = r /\ \A k \in Handlers \ {h} : handler'[k] = handler[k]
      /\ \A k \in Handlers \ {h} : ToldRight(k)'
      /\ \A a : (Permitted(a)' <=> Permitted(a)) /\ Resolved(a)' = Resolved(a)
      /\ PermittedToAll' <=> PermittedToAll
  <2>1. disturbed' \in BOOLEAN /\ state'.session \in Sessions \cup {None}
    BY <1>1 DEF PromptInv, HandlerTypes
  <2>2. state' = [session |-> state'.session, sub |-> state'.sub,
                  permission |-> state'.permission]
    BY <1>1 DEF PromptInv, HandlerTypes
  <2> QED BY <1>1, <1>3, <1>4, <1>7, <2>1, <2>2, HandlerStep
<1>9. told => PermittedToAll /\ ~internal
  <2>1. ASSUME plugin.config.permission = "deny" PROVE PromptPermission(h[1]) = "deny"
    BY <2>1 DEF PromptPermission, PromptInv, NotLifted
  <2> QED BY <1>4, <1>5, <2>1 DEF PromptInv, RulesKept
<1>10. ASSUME ~mark
       PROVE  told <=> /\ Permitted(handler[h].agent) /\ ~internal
                       /\ h[1] \in SubAgents => Truthy(plugin.config.allowSubAgents)
  <2>1. ~disturbed /\ ~Others(h)
    BY <1>6, <1>10
  <2>2. state.session = h[1] /\ state.permission = Resolved(handler[h].agent)
    BY <1>1, <1>4, <2>1 DEF PromptInv, Owned
  <2>3. state.sub = (h[1] \in SubAgents)
    <3>1. \A k \in Handlers : handler[k].stage # "begun"
      BY <1>1, <2>1 DEF Others, UnderWay
    <3>2. h[1] # None
      BY ValuesAssumption DEF Handlers
    <3> QED BY <2>1, <2>2, <3>1, <3>2 DEF PromptInv, Owned
  <2>4. PromptPermission(h[1]) = "deny" <=> Resolved(handler[h].agent) = "deny"
    <3>1. CASE state.permission # None
      BY <2>2, <3>1 DEF PromptPermission
    <3>2. CASE state.permission = None
      <4>1. "deny" # None
        BY ValuesAssumption DEF Actions
      <4>2. Resolved(handler[h].agent) = plugin.config.permission
        BY <2>2, <3>2, <4>1 DEF Resolved, ResolvePermission
      <4> QED BY <3>2, <4>2 DEF PromptPermission
    <3> QED BY <3>1, <3>2
  <2>5. Resolved(handler[h].agent) = "deny" <=> ~Permitted(handler[h].agent)
    BY <1>4 DEF PromptInv, RulesKept
  <2> QED BY <1>5, <2>3, <2>4, <2>5
<1>11. ToldRight(h)'
  BY <1>1, <1>7, <1>8, <1>9, <1>10 DEF ToldRight
<1>12. NotLifted'
  BY <1>1 DEF PromptInv, NotLifted
<1>13. Owned'
  <2> SUFFICES ASSUME ~disturbed' PROVE Owned'
    BY DEF Owned
  <2>1. ~disturbed /\ ~Others(h)
    BY <1>1
  <2>2. \A k \in Handlers : ~UnderWay(k)'
    BY <1>7, <1>8, <2>1 DEF Others, UnderWay
  <2>3. \A k \in Handlers : handler[k].stage # "begun"
    BY <1>1, <2>1 DEF Others, UnderWay
  <2>4. state'.session # None => state'.sub = (state'.session \in SubAgents)
    BY <1>1, <2>1, <2>3 DEF PromptInv, Owned
  <2>5. \A k \in Handlers : handler'[k].stage # "synced"
    BY <2>2 DEF UnderWay
  <2> QED BY <2>2, <2>4, <2>5 DEF Owned
<1> QED BY <1>8, <1>11, <1>12, <1>13 DEF PromptInv

LEMMA ConfigHookKeeps ==
  ASSUME PromptInv, ConfigHook
  PROVE  PromptInv'
<1>1. /\ plugin.up = "started" /\ UNCHANGED requests
      /\ state.session = None /\ state.permission = None
      /\ \A h \in Handlers : handler[h].stage = "idle"
      /\ plugin.tool = (plugin.config.permission # "deny")
  BY DEF ConfigHook, PromptInv, RulesKept
<1>2. PICK g \in HostRules, a \in [Agents -> HostRules] :
        /\ host' = [global |-> g, agent |-> a]
        /\ plugin' = [plugin EXCEPT
             !.up = "ready", !.config.permission = HookBase(g, plugin.config.permission),
             !.rules = [global |-> HookRules(g, HookBase(g, plugin.config.permission)),
                        agent |-> a]]
  BY Zenon DEF ConfigHook, HookBase, HookRules
<1> DEFINE base == HookBase(g, plugin.config.permission)
           global == HookRules(g, base)
<1>3. /\ host' = [global |-> g, agent |-> a]
      /\ plugin' = [plugin EXCEPT !.up = "ready", !.config.permission = base,
                                  !.rules = [global |-> global, agent |-> a]]
  BY <1>2
<1>4. \A b \in Agents : ResolvePermission(base, global, a[b]) = "deny" <=>
          plugin.config.permission = "deny" \/ LastWordDenies(g) \/ LastWordDenies(a[b])
  <2>1. \A b \in Agents : a[b] \in HostRules
    OBVIOUS
  <2> QED BY <2>1, HookKeepsRules
<1>5. base = "deny" <=> plugin.config.permission = "deny" \/ LastWordDenies(g)
  BY RulesAre, LastRuleDecides DEF HookBase
<1> HIDE DEF base, global
<1> DEFINE c == plugin.config
           config == [enabled |-> c.enabled, permission |-> base, tools |-> c.tools,
                      patterns |-> c.patterns, max |-> c.max, min |-> c.min,
                      models |-> c.models, threshold |-> c.threshold, level |-> c.level,
                      allowSubAgents |-> c.allowSubAgents]
<1>6. plugin' = [up |-> "ready", config |-> config, tool |-> plugin.tool,
                 warned |-> plugin.warned, rules |-> [global |-> global, agent |-> a]]
  <2>1. [c EXCEPT !.permission = base] = config
    BY DEF PromptInv, RulesKept, Shape
  <2>2. plugin' = [plugin EXCEPT !.up = "ready",
                                 !.config = [c EXCEPT !.permission = base],
                                 !.rules = [global |-> global, agent |-> a]]
    BY <1>3
  <2> HIDE DEF config
  <2>3. plugin' = [plugin EXCEPT !.up = "ready", !.config = config,
                                 !.rules = [global |-> global, agent |-> a]]
    BY <2>1, <2>2
  <2> QED BY <2>3, Zenon DEF PromptInv, RulesKept, PluginShape
<1>7. ASSUME NEW b \in Agents PROVE Resolved(b)' = "deny" <=> ~Permitted(b)'
  <2>1. Resolved(b)' = ResolvePermission(base, global, a[b])
    BY <1>6 DEF Resolved, ResolvePermission
  <2>2. ResolvePermission(base, global, a[b]) = "deny" <=>
          plugin.config.permission = "deny" \/ LastWordDenies(g) \/ LastWordDenies(a[b])
    BY <1>4
  <2>3. Permitted(b)' <=>
          plugin.config.permission # "deny" /\ ~LastWordDenies(g) /\ ~LastWordDenies(a[b])
    BY <1>1, <1>3, <1>6 DEF Permitted, PermittedToAll, LastWordDenies
  <2> QED BY <2>1, <2>2, <2>3
<1>8. plugin'.config.permission = "deny" <=> ~PermittedToAll'
  <2>1. PermittedToAll' <=> plugin.config.permission # "deny" /\ ~LastWordDenies(g)
    BY <1>1, <1>3, <1>6 DEF PermittedToAll, LastWordDenies
  <2>2. plugin'.config.permission = base
    BY <1>6
  <2> QED BY <1>5, <2>1, <2>2
<1>9. RulesKept'
  BY <1>6, <1>7, <1>8 DEF RulesKept, PluginShape, Shape
<1>10. state' = state /\ handler' = handler /\ disturbed' = disturbed
  BY <1>1 DEF requests
<1>11. HandlerTypes' /\ Owned' /\ \A h \in Handlers : ToldRight(h)'
  BY <1>1, <1>10 DEF PromptInv, HandlerTypes, Owned, ToldRight, UnderWay
<1>12. NotLifted'
  BY <1>1, <1>10 DEF NotLifted
<1> QED BY <1>9, <1>11, <1>12 DEF PromptInv

LEMMA StartPluginKeeps ==
  ASSUME PromptInv, StartPlugin
  PROVE  PromptInv'
<1>1. /\ plugin.up = "off" /\ UNCHANGED requests
      /\ state.session = None /\ state.permission = None
      /\ \A h \in Handlers : handler[h].stage = "idle"
  BY DEF StartPlugin, PromptInv, RulesKept
<1> DEFINE warned == \E p \in Read : Warned(p)
           up == IF Truthy(GetConfig.enabled) THEN "started" ELSE "disabled"
           config == GetConfig
           tool == GetConfig.permission # "deny"
<1>2. \/ plugin' = [plugin EXCEPT !.up = "failed", !.warned = warned]
      \/ plugin' = [plugin EXCEPT !.up = up, !.config = config, !.tool = tool,
                                  !.warned = warned]
  BY Zenon DEF StartPlugin
<1>3. /\ up \in {"started", "disabled"} /\ tool = (config.permission # "deny")
      /\ Shape(config)
  <2>1. \A c, i : Shape(c) => Shape(Merged(c, i))
    <3>1. ASSUME NEW c, NEW l PROVE Shape(MergeLayer(c, l))
      BY DEF MergeLayer, Shape
    <3> QED BY <3>1 DEF Merged
  <2>2. Shape(DefaultConfig)
    BY DEF DefaultConfig, Shape
  <2> QED BY <2>1, <2>2 DEF GetConfig
<1> HIDE DEF warned, up, config, tool
<1>4. \/ plugin' = [up |-> "failed", config |-> plugin.config, tool |-> plugin.tool,
                    warned |-> warned, rules |-> plugin.rules]
      \/ plugin' = [up |-> up, config |-> config, tool |-> tool,
                    warned |-> warned, rules |-> plugin.rules]
  BY <1>2, Zenon DEF PromptInv, RulesKept, PluginShape
<1>5. state' = state /\ handler' = handler /\ disturbed' = disturbed
  BY <1>1 DEF requests
<1>6. RulesKept'
  <2>1. CASE plugin' = [up |-> "failed", config |-> plugin.config, tool |-> plugin.tool,
                        warned |-> warned, rules |-> plugin.rules]
    BY <1>1, <1>5, <2>1 DEF PromptInv, RulesKept, PluginShape, Shape
  <2>2. CASE plugin' = [up |-> up, config |-> config, tool |-> tool,
                        warned |-> warned, rules |-> plugin.rules]
    BY <1>1, <1>3, <1>5, <2>2 DEF RulesKept, PluginShape, Shape
  <2> QED BY <1>4, <2>1, <2>2
<1>7. HandlerTypes' /\ Owned' /\ NotLifted' /\ \A h \in Handlers : ToldRight(h)'
  BY <1>1, <1>5 DEF PromptInv, HandlerTypes, Owned, NotLifted, ToldRight, UnderWay
<1> QED BY <1>6, <1>7 DEF PromptInv

LEMMA PromptNext == PromptInv /\ [Next]_vars => PromptInv'
<1> SUFFICES ASSUME PromptInv, [Next]_vars PROVE PromptInv'
  OBVIOUS
<1>1. ASSUME UNCHANGED <<plugin, requests, host>> PROVE PromptInv'
  <2>1. /\ \A a : Resolved(a)' = Resolved(a) /\ (Permitted(a)' <=> Permitted(a))
        /\ PermittedToAll' <=> PermittedToAll
    BY <1>1 DEF Resolved, Permitted, PermittedToAll
  <2>2. state' = state /\ handler' = handler /\ disturbed' = disturbed
    BY <1>1 DEF requests
  <2>3. HandlerTypes' /\ RulesKept' /\ NotLifted'
    BY <1>1, <2>1, <2>2 DEF PromptInv, HandlerTypes, RulesKept, NotLifted, PluginShape, Shape
  <2>4. \A h \in Handlers : (UnderWay(h)' <=> UnderWay(h)) /\ (Others(h)' <=> Others(h))
    BY <2>2 DEF UnderWay, Others
  <2>5. Owned'
    BY <2>1, <2>2, <2>4 DEF PromptInv, Owned
  <2>6. \A h \in Handlers : ToldRight(h)'
    BY <1>1, <2>1, <2>2 DEF PromptInv, ToldRight
  <2> QED BY <2>3, <2>5, <2>6 DEF PromptInv
<1>2. CASE StartRust \/ UpdateConfig
  BY <1>1, <1>2 DEF StartRust, UpdateConfig
<1>3. CASE StartPlugin
  BY <1>3, StartPluginKeeps
<1>4. CASE ConfigHook
  BY <1>4, ConfigHookKeeps
<1>5. ASSUME NEW h \in Handlers, Arrive(h) PROVE PromptInv'
  BY <1>5, ArriveKeeps
<1>6. ASSUME NEW h \in Handlers, SubAgentKnown(h) PROVE PromptInv'
  BY <1>6, SubAgentKnownKeeps
<1>7. ASSUME NEW h \in Handlers, SyncPermission(h) PROVE PromptInv'
  BY <1>7, SyncPermissionKeeps
<1>8. ASSUME NEW h \in Handlers, SystemPrompt(h) PROVE PromptInv'
  BY <1>8, SystemPromptKeeps
<1>9. CASE UNCHANGED vars
  BY <1>1, <1>9 DEF vars
<1> QED BY <1>2, <1>3, <1>4, <1>5, <1>6, <1>7, <1>8, <1>9 DEF Next

\* The model is told to compress exactly where the rules, read as their user wrote them, and
\* the settings let it (createSystemPromptHandler after checkSession and
\* syncCompressPermissionState), unless handlers overlapped or the host did not answer; and
\* never what is denied to all.
THEOREM PromptFollowsRulesHolds == Spec => []PromptFollowsRules
<1>1. Init => PromptInv
  BY PromptInit
<1>2. PromptInv /\ [Next]_vars => PromptInv'
  BY PromptNext
<1>3. PromptInv => PromptFollowsRules
  <2> SUFFICES ASSUME PromptInv PROVE PromptFollowsRules
    OBVIOUS
  <2>1. \A s \in Sessions : <<s, "request">> \in Handlers /\ <<s, "request">>[1] = s
    BY DEF Handlers
  <2>2. \A s \in Sessions : ToldRight(<<s, "request">>)
    BY <2>1 DEF PromptInv
  <2> QED BY <2>1, <2>2 DEF ToldRight, PromptFollowsRules
<1> QED BY <1>1, <1>2, <1>3, PTL DEF Spec


----------------------------------------------------------------------------
(***************************************************************************)
(* The two engines on the same layers. What holds of the defaults is kept  *)
(* by every layer laid over what each engine has so far.                   *)
(***************************************************************************)
Plain == {"enabled", "permission", "max", "min", "threshold", "level"}
Lists == {"tools", "patterns"}
Schema == Plain \cup Lists \cup {"models", "allowSubagents"}

\* The name a key of the schema goes by in the files of the plugin's users.
Name(k) == IF k = "level" THEN "pruneNotification" ELSE k

\* Of the keys two names of which exist a layer has those the plugin documents.
Common(l) == DOMAIN l \cap {"level", "allowSubagents"} = {}

RustOf(l1, l2, l3) ==
  DeepMerge(DeepMerge(DeepMerge(RustDefaults, Normalize(l1)), Normalize(l2)), Normalize(l3))

PluginOf(l1, l2, l3) == MergeLayer(MergeLayer(MergeLayer(DefaultConfig, l1), l2), l3)

\* What the settings of the library and of the plugin have in common, null and wrong
\* types aside.
Same(acc, c) ==
  /\ \A k \in Plain : acc[k] # Null => c[k] = acc[k]
  /\ \A k \in Lists : acc[k] # Null => acc[k] \subseteq c[k]
  /\ acc.models \notin {Null, Bad} =>
       \A m \in DOMAIN c.models : m \in DOMAIN acc.models /\ acc.models[m] = c.models[m]
  /\ acc.allowSubagents = FALSE

LEMMA SchemaIs ==
  /\ DOMAIN RustDefaults = Schema
  /\ \A l : /\ DOMAIN DeepMerge(RustDefaults, l) = Schema
            /\ \A acc : DOMAIN DeepMerge(acc, l) = DOMAIN acc
BY DEF RustDefaults, Schema, Plain, Lists, DeepMerge

\* One layer of the library.
LEMMA RustLayer ==
  ASSUME NEW acc, DOMAIN acc = Schema, NEW l, Common(l),
         NEW new, new = DeepMerge(acc, Normalize(l))
  PROVE  /\ DOMAIN new = Schema
         /\ \A k \in Plain \cup Lists :
              new[k] = IF Name(k) \in DOMAIN l THEN l[Name(k)] ELSE acc[k]
         /\ new.models = IF "models" \notin DOMAIN l THEN acc.models
                         ELSE IF {acc.models, l.models} \cap {Null, Bad} = {}
                         THEN Overlaid(acc.models, l.models)
                         ELSE l.models
         /\ new.allowSubagents = acc.allowSubagents
<1> DEFINE n == Normalize(l)
<1>1. /\ \A k \in Schema \ {"allowSubagents"} :
           /\ k \in DOMAIN n <=> Name(k) \in DOMAIN l
           /\ Name(k) \in DOMAIN l => n[k] = l[Name(k)]
      /\ "allowSubagents" \notin DOMAIN n
  <2>1. DOMAIN n = (DOMAIN l \cap Schema) \cup
                   (IF "pruneNotification" \in DOMAIN l THEN {"level"} ELSE {})
    BY SchemaIs DEF Normalize
  <2>2. \A k \in DOMAIN n : n[k] = IF k \in DOMAIN l THEN l[k] ELSE l["pruneNotification"]
    BY <2>1, SchemaIs DEF Normalize
  <2>3. "level" \notin DOMAIN l /\ "allowSubagents" \notin DOMAIN l
    BY DEF Common
  <2> HIDE DEF n
  <2> QED BY <2>1, <2>2, <2>3 DEF Name, Schema, Plain, Lists
<1> HIDE DEF n
<1>2. new = [k \in DOMAIN acc |->
               IF k \notin DOMAIN n THEN acc[k]
               ELSE IF k = "models" /\ {acc[k], n[k]} \cap {Null, Bad} = {}
               THEN Overlaid(acc[k], n[k])
               ELSE n[k]]
  BY DEF DeepMerge, n
<1>3. DOMAIN new = Schema
  BY <1>2
<1>4. \A k \in Plain \cup Lists :
        new[k] = IF Name(k) \in DOMAIN l THEN l[Name(k)] ELSE acc[k]
  <2> SUFFICES ASSUME NEW k \in Plain \cup Lists
               PROVE  new[k] = IF Name(k) \in DOMAIN l THEN l[Name(k)] ELSE acc[k]
    OBVIOUS
  <2>1. k \in Schema \ {"allowSubagents"} /\ k # "models"
    BY DEF Schema, Plain, Lists
  <2>2. new[k] = IF k \in DOMAIN n THEN n[k] ELSE acc[k]
    BY <1>2, <2>1
  <2> QED BY <1>1, <2>1, <2>2
<1>5. new["models"] = IF "models" \notin DOMAIN l THEN acc["models"]
                      ELSE IF {acc["models"], l["models"]} \cap {Null, Bad} = {}
                      THEN Overlaid(acc["models"], l["models"])
                      ELSE l["models"]
  <2>1. "models" \in Schema \ {"allowSubagents"} /\ Name("models") = "models"
    BY DEF Schema, Name
  <2>2. /\ "models" \in DOMAIN n <=> "models" \in DOMAIN l
        /\ "models" \in DOMAIN l => n["models"] = l["models"]
    BY <1>1, <2>1
  <2>3. new["models"] = IF "models" \notin DOMAIN n THEN acc["models"]
                        ELSE IF {acc["models"], n["models"]} \cap {Null, Bad} = {}
                        THEN Overlaid(acc["models"], n["models"])
                        ELSE n["models"]
    BY <1>2, <2>1
  <2>4. CASE "models" \notin DOMAIN l
    BY <2>2, <2>3, <2>4
  <2>5. CASE "models" \in DOMAIN l
    <3>1. n["models"] = l["models"] /\ "models" \in DOMAIN n
      BY <2>2, <2>5
    <3> QED BY <2>3, <2>5, <3>1
  <2> QED BY <2>4, <2>5
<1>6. new["allowSubagents"] = acc["allowSubagents"]
  BY <1>1, <1>2 DEF Schema
<1> QED BY <1>3, <1>4, <1>5, <1>6

\* One layer of the plugin.
LEMMA PluginLayer ==
  ASSUME NEW c, NEW l, NEW new, new = MergeLayer(c, l)
  PROVE  /\ \A k \in Plain : new[k] = Over(l, Name(k), c[k])
         /\ \A k \in Lists : new[k] = c[k] \cup Over(l, k, {})
         /\ new.models = Over(l, "models", c.models)
<1>1. /\ new["enabled"] = Over(l, "enabled", c["enabled"])
      /\ new["permission"] = Over(l, "permission", c["permission"])
      /\ new["max"] = Over(l, "max", c["max"]) /\ new["min"] = Over(l, "min", c["min"])
      /\ new["threshold"] = Over(l, "threshold", c["threshold"])
      /\ new["level"] = Over(l, "pruneNotification", c["level"])
      /\ new["tools"] = c["tools"] \cup Over(l, "tools", {})
      /\ new["patterns"] = c["patterns"] \cup Over(l, "patterns", {})
      /\ new["models"] = Over(l, "models", c["models"])
  BY DEF MergeLayer
<1> QED BY <1>1 DEF Plain, Lists, Name

LEMMA SameStep ==
  ASSUME NEW acc, DOMAIN acc = Schema, NEW c, Same(acc, c), NEW l, Common(l)
  PROVE  Same(DeepMerge(acc, Normalize(l)), MergeLayer(c, l))
<1>1. PICK rust_1 : rust_1 = DeepMerge(acc, Normalize(l))
  OBVIOUS
<1>2. PICK plugin_1 : plugin_1 = MergeLayer(c, l)
  OBVIOUS
<1>3. /\ \A k \in Plain \cup Lists :
           rust_1[k] = IF Name(k) \in DOMAIN l THEN l[Name(k)] ELSE acc[k]
      /\ rust_1.models = IF "models" \notin DOMAIN l THEN acc.models
                         ELSE IF {acc.models, l.models} \cap {Null, Bad} = {}
                         THEN Overlaid(acc.models, l.models)
                         ELSE l.models
      /\ rust_1.allowSubagents = acc.allowSubagents
  BY <1>1, RustLayer
<1>4. /\ \A k \in Plain : plugin_1[k] = Over(l, Name(k), c[k])
      /\ \A k \in Lists : plugin_1[k] = c[k] \cup Over(l, k, {})
      /\ plugin_1.models = Over(l, "models", c.models)
  BY <1>2, PluginLayer
<1>5. \A k, base : /\ k \notin DOMAIN l => Over(l, k, base) = base
                   /\ k \in DOMAIN l /\ l[k] # Null => Over(l, k, base) = l[k]
  BY DEF Over
<1>6. ASSUME NEW k \in Plain, rust_1[k] # Null PROVE plugin_1[k] = rust_1[k]
  <2>1. CASE Name(k) \in DOMAIN l
    BY <1>3, <1>4, <1>5, <1>6, <2>1
  <2>2. CASE Name(k) \notin DOMAIN l
    BY <1>3, <1>4, <1>5, <1>6, <2>2 DEF Same
  <2> QED BY <2>1, <2>2
<1>7. ASSUME NEW k \in Lists, rust_1[k] # Null PROVE rust_1[k] \subseteq plugin_1[k]
  <2>1. Name(k) = k
    BY DEF Lists, Name
  <2>2. CASE k \in DOMAIN l
    <3>1. rust_1[k] = l[k] /\ Over(l, k, {}) = l[k]
      BY <1>3, <1>5, <1>7, <2>1, <2>2
    <3> QED BY <1>4, <3>1
  <2>3. CASE k \notin DOMAIN l
    <3>1. rust_1[k] = acc[k]
      BY <1>3, <2>1, <2>3
    <3>2. acc[k] \subseteq c[k]
      BY <1>7, <3>1 DEF Same
    <3> QED BY <1>4, <3>1, <3>2
  <2> QED BY <2>2, <2>3
<1>8. ASSUME rust_1.models \notin {Null, Bad}, NEW m \in DOMAIN plugin_1.models
      PROVE  m \in DOMAIN rust_1.models /\ rust_1.models[m] = plugin_1.models[m]
  <2>1. CASE "models" \notin DOMAIN l
    <3>1. rust_1.models = acc.models /\ plugin_1.models = c.models
      BY <1>3, <1>4, <1>5, <2>1
    <3> QED BY <1>8, <3>1 DEF Same
  <2>2. CASE "models" \in DOMAIN l /\ {acc.models, l.models} \cap {Null, Bad} = {}
    <3>1. l["models"] # Null
      BY <2>2
    <3>2. plugin_1.models = l.models
      BY <1>4, <1>5, <2>2, <3>1
    <3>3. rust_1.models = Overlaid(acc.models, l.models)
      BY <1>3, <2>2
    <3> QED BY <1>8, <3>2, <3>3 DEF Overlaid
  <2>3. CASE "models" \in DOMAIN l /\ ~({acc.models, l.models} \cap {Null, Bad} = {})
    <3>1. rust_1.models = l["models"]
      BY <1>3, <2>3
    <3>2. plugin_1.models = l["models"]
      BY <1>4, <1>5, <1>8, <2>3, <3>1
    <3> QED BY <1>8, <3>1, <3>2
  <2> QED BY <2>1, <2>2, <2>3
<1>9. rust_1.allowSubagents = FALSE
  BY <1>3 DEF Same
<1>10. Same(rust_1, plugin_1)
  BY <1>6, <1>7, <1>8, <1>9 DEF Same
<1> QED BY <1>1, <1>2, <1>10

LEMMA SameDefaults == Same(RustDefaults, DefaultConfig)
<1>1. /\ RustDefaults["enabled"] = DefaultConfig["enabled"]
      /\ RustDefaults["permission"] = DefaultConfig["permission"]
      /\ RustDefaults["max"] = DefaultConfig["max"] /\ RustDefaults["min"] = DefaultConfig["min"]
      /\ RustDefaults["threshold"] = DefaultConfig["threshold"]
      /\ RustDefaults["level"] = DefaultConfig["level"]
      /\ RustDefaults["models"] = DefaultConfig["models"]
      /\ RustDefaults["allowSubagents"] = FALSE
  BY DEF RustDefaults, DefaultConfig
<1>2. /\ RustDefaults["tools"] \subseteq DefaultConfig["tools"]
      /\ RustDefaults["patterns"] \subseteq DefaultConfig["patterns"]
  BY DEF RustDefaults, DefaultConfig
<1> QED BY <1>1, <1>2 DEF Same, Plain, Lists

LEMMA SameOfLayers ==
  ASSUME NEW l1, NEW l2, NEW l3, Common(l1), Common(l2), Common(l3)
  PROVE  DOMAIN RustOf(l1, l2, l3) = Schema /\ Same(RustOf(l1, l2, l3), PluginOf(l1, l2, l3))
<1>1. PICK r1 : r1 = DeepMerge(RustDefaults, Normalize(l1))
  OBVIOUS
<1>2. PICK r2 : r2 = DeepMerge(r1, Normalize(l2))
  OBVIOUS
<1>3. PICK p1 : p1 = MergeLayer(DefaultConfig, l1)
  OBVIOUS
<1>4. PICK p2 : p2 = MergeLayer(p1, l2)
  OBVIOUS
<1>5. /\ RustOf(l1, l2, l3) = DeepMerge(r2, Normalize(l3))
      /\ PluginOf(l1, l2, l3) = MergeLayer(p2, l3)
  BY <1>1, <1>2, <1>3, <1>4 DEF RustOf, PluginOf
<1>6. DOMAIN r1 = Schema /\ Same(r1, p1)
  BY <1>1, <1>3, SameDefaults, SameStep, SchemaIs
<1>7. DOMAIN r2 = Schema /\ Same(r2, p2)
  BY <1>2, <1>4, <1>6, SameStep, SchemaIs
<1> QED BY <1>5, <1>7, SameStep, SchemaIs

\* What the library accepts but for the order of its limits.
Fit(L) == L \notin {Null, Bad} /\ IsPercentage(L) /\ Resolve(L) >= 1

Good(acc) ==
  /\ \A k \in Schema : acc[k] \notin {Null, Bad}
  /\ \A k \in {"max", "min"} : Fit(acc[k])
  /\ acc.models \in Maps /\ \A m \in DOMAIN acc.models : Fit(acc.models[m])
  /\ \A k \in Lists : Odd \notin acc[k]
  /\ acc.threshold \in 2..100

\* A layer the plugin warns of nothing in, with no value that only the library minds.
Clean(l) ==
  /\ l \in Whole \cup {<<>>}
  /\ InvalidKeys(l) \cup TypeErrors(l) = {}
  /\ \A k \in DOMAIN l : ~OnlyRustMinds(k, l[k])

\* Maps laid over each other are such maps.
LEMMA MapsOverlaid ==
  ASSUME NEW f \in Maps, NEW l \in Whole, "models" \in DOMAIN l, l.models \notin {Null, Bad}
  PROVE  Overlaid(f, l.models) \in Maps
<1> DEFINE given == {k.models : k \in {k_1 \in Whole : "models" \in DOMAIN k_1}} \ {Null, Bad}
           limits == UNION {{g[m] : m \in DOMAIN g} : g \in given}
           names == UNION {DOMAIN g : g \in given}
<1>1. Maps = UNION {[N -> limits] : N \in SUBSET names}
  BY Zenon DEF Maps
<1>2. l.models \in given
  OBVIOUS
<1>3. DOMAIN l.models \subseteq names /\ \A m \in DOMAIN l.models : l.models[m] \in limits
  BY <1>2
<1> HIDE DEF limits, names
<1>4. PICK N \in SUBSET names : f \in [N -> limits]
  BY <1>1
<1>5. Overlaid(f, l.models) \in [N \cup DOMAIN l.models -> limits]
  BY <1>3, <1>4 DEF Overlaid
<1>6. N \cup DOMAIN l.models \in SUBSET names
  BY <1>3
<1> QED BY <1>1, <1>5, <1>6

LEMMA NoLimits == <<>> \in Maps
<1> DEFINE given == {k.models : k \in {k_1 \in Whole : "models" \in DOMAIN k_1}} \ {Null, Bad}
           limits == UNION {{g[m] : m \in DOMAIN g} : g \in given}
           names == UNION {DOMAIN g : g \in given}
<1>1. Maps = UNION {[N -> limits] : N \in SUBSET names}
  BY Zenon DEF Maps
<1> HIDE DEF limits, names
<1>2. <<>> \in [{} -> limits]
  OBVIOUS
<1> QED BY <1>1, <1>2

LEMMA GoodStep ==
  ASSUME NEW acc, DOMAIN acc = Schema, Good(acc), NEW l, Common(l), Clean(l)
  PROVE  Good(DeepMerge(acc, Normalize(l)))
<1>1. PICK new : new = DeepMerge(acc, Normalize(l))
  OBVIOUS
<1>2. /\ \A k \in Plain \cup Lists :
           new[k] = IF Name(k) \in DOMAIN l THEN l[Name(k)] ELSE acc[k]
      /\ new["models"] = IF "models" \notin DOMAIN l THEN acc["models"]
                         ELSE IF {acc["models"], l["models"]} \cap {Null, Bad} = {}
                         THEN Overlaid(acc["models"], l["models"])
                         ELSE l["models"]
      /\ new["allowSubagents"] = acc["allowSubagents"]
  BY <1>1, RustLayer
<1>3. /\ \A k \in DOMAIN l : l[k] \notin {Null, Bad}
      /\ \A k \in DOMAIN l : ~OnlyRustMinds(k, l[k])
      /\ "models" \in DOMAIN l => \A m \in DOMAIN l["models"] : l["models"][m] \notin {Null, Bad}
  <2>1. InvalidKeys(l) = {} /\ TypeErrors(l) = {}
    BY DEF Clean
  <2>2. \A k \in DOMAIN l :
          /\ ~(l[k] \in {Null, Bad})
          /\ ~(k = "models" /\ \E m \in DOMAIN l[k] : l[k][m] \in {Null, Bad})
    BY <2>1 DEF TypeErrors
  <2> QED BY <2>2 DEF Clean
<1>4. ASSUME NEW k \in {"max", "min"} PROVE Fit(new[k])
  <2>1. k \in Plain /\ Name(k) = k
    BY DEF Plain, Name
  <2>2. CASE k \in DOMAIN l
    <3>1. new[k] = l[k]
      BY <1>2, <2>1, <2>2
    <3>2. l[k] \notin {Null, Bad} /\ IsPercentage(l[k]) /\ Resolve(l[k]) >= 1
      BY <1>3, <1>4, <2>2 DEF OnlyRustMinds
    <3> QED BY <3>1, <3>2 DEF Fit
  <2>3. CASE k \notin DOMAIN l
    BY <1>2, <1>4, <2>1, <2>3 DEF Good
  <2> QED BY <2>2, <2>3
<1>5. new["models"] \in Maps /\ \A m \in DOMAIN new["models"] : Fit(new["models"][m])
  <2>1. acc["models"] \in Maps /\ \A m \in DOMAIN acc["models"] : Fit(acc["models"][m])
    BY DEF Good
  <2>2. CASE "models" \notin DOMAIN l
    BY <1>2, <2>1, <2>2
  <2>3. CASE "models" \in DOMAIN l
    <3>1. /\ l["models"] \notin {Null, Bad}
          /\ \A m \in DOMAIN l["models"] : Fit(l["models"][m])
      BY <1>3, <2>3 DEF OnlyRustMinds, Fit
    <3>2. acc["models"] \notin {Null, Bad}
      BY <2>1, ValuesAssumption
    <3>3. new["models"] = Overlaid(acc["models"], l["models"])
      BY <1>2, <2>3, <3>1, <3>2
    <3>4. l \in Whole
      BY <2>3 DEF Clean
    <3>5. Overlaid(acc["models"], l["models"]) \in Maps
      BY <2>1, <2>3, <3>1, <3>4, MapsOverlaid
    <3>6. \A m \in DOMAIN Overlaid(acc["models"], l["models"]) :
            Fit(Overlaid(acc["models"], l["models"])[m])
      BY <2>1, <3>1 DEF Overlaid
    <3> QED BY <3>3, <3>5, <3>6
  <2> QED BY <2>2, <2>3
<1>6. ASSUME NEW k \in Schema PROVE new[k] \notin {Null, Bad}
  <2>1. CASE k \in Plain \cup Lists
    <3>1. acc[k] \notin {Null, Bad}
      BY DEF Good
    <3> QED BY <1>2, <1>3, <2>1, <3>1
  <2>2. CASE k = "models"
    BY <1>5, <2>2, ValuesAssumption
  <2>3. CASE k = "allowSubagents"
    BY <1>2, <2>3 DEF Good
  <2> QED BY <2>1, <2>2, <2>3 DEF Schema
<1>7. ASSUME NEW k \in Lists PROVE Odd \notin new[k]
  <2>1. k \in Plain \cup Lists /\ Name(k) = k /\ k \in {"tools", "patterns"}
    BY DEF Lists, Name
  <2>2. CASE k \in DOMAIN l
    <3>1. ~OnlyRustMinds(k, l[k])
      BY <1>3, <2>2
    <3>2. Odd \notin l[k]
      BY <2>1, <3>1 DEF OnlyRustMinds
    <3> QED BY <1>2, <2>1, <2>2, <3>2
  <2>3. CASE k \notin DOMAIN l
    BY <1>2, <2>1, <2>3 DEF Good
  <2> QED BY <2>2, <2>3
<1>8. new["threshold"] \in 2..100
  <2>1. "threshold" \in Plain \cup Lists /\ Name("threshold") = "threshold"
    BY DEF Plain, Name
  <2>2. CASE "threshold" \in DOMAIN l
    <3>1. ~OnlyRustMinds("threshold", l["threshold"])
      BY <1>3, <2>2
    <3>2. l["threshold"] \in 2..100
      BY <3>1 DEF OnlyRustMinds
    <3> QED BY <1>2, <2>1, <2>2, <3>2
  <2>3. CASE "threshold" \notin DOMAIN l
    BY <1>2, <2>1, <2>3 DEF Good
  <2> QED BY <2>2, <2>3
<1>9. Good(new)
  BY <1>4, <1>5, <1>6, <1>7, <1>8 DEF Good
<1> QED BY <1>1, <1>9

LEMMA GoodDefaults == Good(RustDefaults)
<1>1. /\ RustDefaults["enabled"] = TRUE /\ RustDefaults["permission"] = "allow"
      /\ RustDefaults["max"] = Tokens(100) /\ RustDefaults["min"] = Tokens(50)
      /\ RustDefaults["threshold"] = 15 /\ RustDefaults["level"] = "detailed"
      /\ RustDefaults["tools"] = {"task", "skill"} /\ RustDefaults["patterns"] = {}
      /\ RustDefaults["models"] = <<>> /\ RustDefaults["allowSubagents"] = FALSE
  BY DEF RustDefaults
<1>2. \A v \in {TRUE, FALSE, "allow", "detailed", {}, {"task", "skill"}, 15,
                Tokens(100), Tokens(50)} : v \notin {Null, Bad}
  BY ValuesAssumption DEF Tokens
<1>3. <<>> \in Maps /\ <<>> \notin {Null, Bad}
  BY NoLimits, ValuesAssumption
<1>4. Fit(Tokens(100)) /\ Fit(Tokens(50))
  BY <1>2 DEF Fit, Tokens, IsPercentage, Resolve
<1>5. \A k \in Schema : RustDefaults[k] \notin {Null, Bad}
  <2> DEFINE given(k) == RustDefaults[k] \notin {Null, Bad}
  <2>1. given("enabled") /\ given("allowSubagents")
    BY <1>1, <1>2
  <2>2. given("permission") /\ given("level") /\ given("threshold")
    BY <1>1, <1>2
  <2>3. given("max") /\ given("min")
    BY <1>1, <1>2
  <2>4. given("tools") /\ given("patterns") /\ given("models")
    BY <1>1, <1>2, <1>3
  <2> HIDE DEF given
  <2>5. \A k \in Schema : given(k)
    BY <2>1, <2>2, <2>3, <2>4 DEF Schema, Plain, Lists
  <2> QED BY <2>5 DEF given
<1>6. Odd \notin {"task", "skill"} /\ Odd \notin {}
  BY ValuesAssumption
<1>7. \A m \in DOMAIN <<>> : FALSE
  OBVIOUS
<1> QED BY <1>1, <1>3, <1>4, <1>5, <1>6, <1>7 DEF Good, Lists

LEMMA GoodOfLayers ==
  ASSUME NEW l1, NEW l2, NEW l3, Common(l1), Common(l2), Common(l3),
         Clean(l1), Clean(l2), Clean(l3)
  PROVE  Good(RustOf(l1, l2, l3))
<1>1. PICK r1 : r1 = DeepMerge(RustDefaults, Normalize(l1))
  OBVIOUS
<1>2. PICK r2 : r2 = DeepMerge(r1, Normalize(l2))
  OBVIOUS
<1>3. DOMAIN r1 = Schema /\ DOMAIN r2 = Schema
  BY <1>1, <1>2, SchemaIs
<1>4. Good(r1)
  BY <1>1, GoodDefaults, GoodStep, SchemaIs
<1>5. Good(r2)
  BY <1>2, <1>3, <1>4, GoodStep
<1>6. RustOf(l1, l2, l3) = DeepMerge(r2, Normalize(l3))
  BY <1>1, <1>2 DEF RustOf
<1> QED BY <1>3, <1>5, <1>6, GoodStep

\* Of what the library refuses the plugin's user is warned, but for the values and limits
\* the plugin takes as they are.
LEMMA RefusedForGood ==
  ASSUME NEW l1, NEW l2, NEW l3, Common(l1), Common(l2), Common(l3),
         Clean(l1), Clean(l2), Clean(l3),
         Resolve(PluginOf(l1, l2, l3).min) < Resolve(PluginOf(l1, l2, l3).max)
  PROVE  Deserializes(RustOf(l1, l2, l3)) /\ Validate(RustOf(l1, l2, l3))
<1>1. PICK c : c = RustOf(l1, l2, l3)
  OBVIOUS
<1>2. PICK p : p = PluginOf(l1, l2, l3)
  OBVIOUS
<1>3. DOMAIN c = Schema /\ Same(c, p) /\ Good(c)
  BY <1>1, <1>2, SameOfLayers, GoodOfLayers
<1>4. p["min"] = c["min"] /\ p["max"] = c["max"]
  BY <1>3 DEF Same, Good, Plain, Schema
<1>5. \A L \in Limits(c) : Fit(L)
  BY <1>3 DEF Good, Limits
<1>6. Deserializes(c)
  BY <1>3, <1>5 DEF Deserializes, Good, Fit, Lists
<1>7. Resolve(c["min"]) < Resolve(c["max"])
  BY <1>2, <1>4
<1>8. Validate(c)
  BY <1>3, <1>5, <1>7 DEF Validate, Good, Fit, Lists, Resolve
<1> QED BY <1>1, <1>6, <1>8

----------------------------------------------------------------------------
(***************************************************************************)
(* The places. Where the plugin is dropped in both engines read the same   *)
(* three files, and the one of them that changes is the host's, which the  *)
(* plugin creates without a key.                                           *)
(***************************************************************************)
Project == IF Has("inner") THEN "inner" ELSE "outer"
Slot(i) == IF i = 1 THEN "host" ELSE IF i = 2 THEN "hostdir" ELSE Project
KeysOf(p) == IF Has(p) THEN files[p].keys ELSE <<>>

RustMerged == RustOf(KeysOf(Slot(1)), KeysOf(Slot(2)), KeysOf(Slot(3)))
PluginMerged == PluginOf(KeysOf(Slot(1)), KeysOf(Slot(2)), KeysOf(Slot(3)))

Fresh == [form |-> "whole", keys |-> <<>>]   \* the file the plugin creates

FilesType == files \in [Paths -> File \cup {None, Fresh}]

LEMMA FileIs ==
  /\ None \notin File \cup {Fresh}
  /\ \A f \in File \cup {Fresh} :
       /\ f.form \in {"empty", "unreadable"} => f.keys = <<>>
       /\ f.keys \in Whole \cup {<<>>}
<1>1. Fresh # None /\ Fresh.form = "whole" /\ Fresh.keys = <<>>
  BY ValuesAssumption DEF Fresh
<1>2. ASSUME NEW f \in [form : {"whole", "torn"}, keys : Whole]
      PROVE  f # None /\ f.form \notin {"empty", "unreadable"} /\ f.keys \in Whole
  <2>1. f = [form |-> f.form, keys |-> f.keys] /\ f.keys \in Whole /\ f.form \in {"whole", "torn"}
    OBVIOUS
  <2>2. f \in {[form |-> g, keys |-> f.keys] : g \in {"whole", "torn"}}
    BY <2>1
  <2> QED BY <2>1, <2>2, ValuesAssumption
<1>3. ASSUME NEW f \in [form : {"empty", "unreadable"}, keys : {<<>>}]
      PROVE  f # None /\ f.keys = <<>>
  <2>1. f = [form |-> f.form, keys |-> <<>>] /\ f.form \in {"empty", "unreadable"}
    OBVIOUS
  <2> QED BY <2>1, ValuesAssumption
<1> HIDE DEF Fresh
<1> QED BY <1>1, <1>2, <1>3 DEF File

LEMMA SlotsAre ==
  /\ \A i \in 1..3 : Slot(i) \in Paths /\ Slot(i) # None
  /\ Slot(1) # Slot(2) /\ Slot(1) # Slot(3) /\ Slot(2) # Slot(3)
BY ValuesAssumption DEF Slot, Project, Paths

\* Where the library looks, in the place of the plugin.
LEMMA RustPlaces ==
  ASSUME DropIn
  PROVE  /\ \A i \in 1..3 : AllLayers[i] = IF Has(Slot(i)) THEN Slot(i) ELSE None
         /\ AllLayers[4] \in {None, AllLayers[1]} /\ AllLayers[5] = AllLayers[3]
         /\ \A i \in 1..3 : AllLayers[i] # None => ~Repeated(i)
         /\ \A i \in {4, 5} : AllLayers[i] # None => Repeated(i)
<1>1. /\ ~Has("library") /\ ~Has("hostalt") /\ ~Has("app") /\ ~Has("dcpdir")
      /\ ~Has("hostdiralt") /\ ~Has("own")
  BY DEF DropIn, Paths, SharedPaths
<1>2. (layout.bare \/ layout.marker) /\ Has("outer") => Has("inner")
  BY DEF DropIn
<1>3. layout.dirs # "two"
  BY DEF DropIn
<1>4. /\ AllLayers[1] = DiscoverGlobal /\ AllLayers[2] = DiscoverCustom
      /\ AllLayers[3] = DiscoverProject
      /\ AllLayers[4] = DiscoverOverlays[1] /\ AllLayers[5] = DiscoverOverlays[2]
  BY DEF AllLayers, DiscoverOverlays
<1>5. AllLayers[1] = IF Has("host") THEN "host" ELSE None
  BY <1>1, <1>3, <1>4 DEF DiscoverGlobal, Or, At
<1>6. AllLayers[2] = IF Has("hostdir") THEN "hostdir" ELSE None
  BY <1>1, <1>4 DEF DiscoverCustom, Or, At
<1>7. AllLayers[3] = IF Has(Project) THEN Project ELSE None
  BY <1>1, <1>2, <1>4 DEF DiscoverProject, Or, At, InnerDir, Project
<1>8. AllLayers[4] \in {None, AllLayers[1]}
  <2>1. DiscoverOverlays[1] = At(IF layout.dirs = "one" THEN "host" ELSE "app")
    BY DEF DiscoverOverlays
  <2> QED BY <1>1, <1>4, <1>5, <2>1 DEF Or, At
<1>9. AllLayers[5] = AllLayers[3]
  <2>1. DiscoverOverlays[2] = Or("inner", IF layout.marker THEN None ELSE At("outer"))
    BY DEF DiscoverOverlays
  <2> QED BY <1>2, <1>4, <1>7, <2>1 DEF Or, At, Project
<1>10. Slot(1) = "host" /\ Slot(2) = "hostdir" /\ Slot(3) = Project
  BY DEF Slot
<1>11. \A i \in 1..3 : AllLayers[i] = IF Has(Slot(i)) THEN Slot(i) ELSE None
  BY <1>5, <1>6, <1>7, <1>10
<1>12. \A i \in 1..3 : AllLayers[i] # None => ~Repeated(i)
  <2>1. \A i, j \in 1..3 : i # j /\ AllLayers[i] # None => AllLayers[j] # AllLayers[i]
    BY <1>11, SlotsAre
  <2> QED BY <2>1 DEF Repeated
<1>13. \A i \in {4, 5} : AllLayers[i] # None => Repeated(i)
  BY <1>8, <1>9 DEF Repeated
<1> QED BY <1>8, <1>9, <1>11, <1>12, <1>13

LEMMA RustReads ==
  ASSUME DropIn
  PROVE  LoadWithPaths = RustMerged
<1> DEFINE l(i) == KeysOf(Slot(i))
<1>1. /\ DOMAIN Normalize(<<>>) = {}
      /\ DOMAIN RustDefaults = Schema /\ RustDefaults = [k \in Schema |-> RustDefaults[k]]
  <2>1. DOMAIN <<>> = {}
    OBVIOUS
  <2>2. DOMAIN Normalize(<<>>) = {}
    BY <2>1 DEF Normalize
  <2>3. RustDefaults = [k \in DOMAIN RustDefaults |-> RustDefaults[k]]
    BY DEF RustDefaults
  <2> QED BY <2>2, <2>3, SchemaIs
<1>2. ASSUME NEW acc, acc = [k \in Schema |-> acc[k]], NEW i \in 1..3
      PROVE  Layered(acc, i) = DeepMerge(acc, Normalize(l(i)))
  <2>1. CASE Has(Slot(i))
    <3>1. AllLayers[i] = Slot(i) /\ AllLayers[i] # None /\ ~Repeated(i)
      BY <2>1, RustPlaces, SlotsAre
    <3> QED BY <2>1, <3>1 DEF Layered, KeysOf
  <2>2. CASE ~Has(Slot(i))
    <3>1. Layered(acc, i) = acc
      BY <2>2, RustPlaces DEF Layered
    <3>2. l(i) = <<>>
      BY <2>2 DEF KeysOf
    <3>3. DeepMerge(acc, Normalize(<<>>)) = acc
      BY <1>1, <1>2 DEF DeepMerge
    <3> QED BY <3>1, <3>2, <3>3
  <2> QED BY <2>1, <2>2
<1>3. \A acc, n : acc = [k \in Schema |-> acc[k]] =>
                    DeepMerge(acc, n) = [k \in Schema |-> DeepMerge(acc, n)[k]]
  BY DEF DeepMerge
<1>4. PICK r1 : r1 = Layered(RustDefaults, 1)
  OBVIOUS
<1>5. PICK r2 : r2 = Layered(r1, 2)
  OBVIOUS
<1>6. PICK r3 : r3 = Layered(r2, 3)
  OBVIOUS
<1>7. r1 = DeepMerge(RustDefaults, Normalize(l(1))) /\ r1 = [k \in Schema |-> r1[k]]
  BY <1>1, <1>2, <1>3, <1>4
<1>8. r2 = DeepMerge(r1, Normalize(l(2))) /\ r2 = [k \in Schema |-> r2[k]]
  BY <1>2, <1>3, <1>5, <1>7
<1>9. r3 = DeepMerge(r2, Normalize(l(3)))
  BY <1>2, <1>6, <1>8
<1>10. Layered(Layered(r3, 4), 5) = r3
  BY RustPlaces DEF Layered
<1> QED BY <1>4, <1>5, <1>6, <1>7, <1>8, <1>9, <1>10 DEF LoadWithPaths, RustMerged, RustOf

Torn == \E p \in Paths : Has(p) /\ ~ReadLayer(p)

LEMMA RustRefuses ==
  ASSUME DropIn, ~Torn, ~Loads
  PROVE  ~(Deserializes(RustMerged) /\ Validate(RustMerged))
<1>1. ASSUME NEW i \in 1..5, AllLayers[i] # None PROVE ReadLayer(AllLayers[i])
  <2>1. PICK j \in 1..3 : AllLayers[i] = AllLayers[j]
    <3>1. i \in 1..3 \/ i = 4 \/ i = 5
      OBVIOUS
    <3> QED BY <1>1, <3>1, RustPlaces
  <2>2. AllLayers[i] = Slot(j) /\ Has(Slot(j)) /\ Slot(j) \in Paths
    BY <1>1, <2>1, RustPlaces, SlotsAre
  <2> QED BY <2>2 DEF Torn
<1>2. LoadWithPaths = RustMerged
  BY RustReads
<1> QED BY <1>1, <1>2 DEF Loads

\* Where the plugin looks, once dropped in.
LEMMA PluginPlaces ==
  ASSUME DropIn
  PROVE  /\ \A i \in 1..3 : GetConfigPaths[i] = IF Has(Slot(i)) THEN Slot(i) ELSE None
         /\ \A i \in 1..3 : Has(Slot(i)) => Slot(i) \in Read
<1>1. (layout.bare \/ layout.marker) /\ Has("outer") => Has("inner")
  BY DEF DropIn
<1>2. FindProject = IF Has(Project) THEN Project ELSE None
  BY <1>1 DEF FindProject, Or, At, Project
<1>3. Slot(1) = "host" /\ Slot(2) = "hostdir" /\ Slot(3) = Project
  BY DEF Slot
<1>4. /\ GetConfigPaths[1] = IF Has("host") THEN "host" ELSE None
      /\ GetConfigPaths[2] = IF Has("hostdir") THEN "hostdir" ELSE None
      /\ GetConfigPaths[3] = FindProject
  BY DEF GetConfigPaths, Or, At
<1>5. \A i \in 1..3 : GetConfigPaths[i] = IF Has(Slot(i)) THEN Slot(i) ELSE None
  BY <1>2, <1>3, <1>4
<1> QED BY <1>5, SlotsAre DEF Read

\* What the plugin reads of a file are its keys, whatever form it has.
LEMMA PluginKeys ==
  ASSUME FilesType, NEW p \in Paths, Has(p)
  PROVE  LoadConfigFile(p) = KeysOf(p)
<1>1. files[p] \in File \cup {Fresh}
  BY DEF FilesType, Has
<1> QED BY <1>1, FileIs DEF LoadConfigFile, KeysOf

LEMMA PluginReads ==
  ASSUME FilesType, DropIn
  PROVE  GetConfig = PluginMerged
<1> DEFINE l(i) == KeysOf(Slot(i))
<1>1. \A c : Shape(c) => MergeLayer(c, <<>>) = c
  <2> SUFFICES ASSUME NEW c, Shape(c) PROVE MergeLayer(c, <<>>) = c
    OBVIOUS
  <2>1. \A k, base : Over(<<>>, k, base) = base
    BY DEF Over
  <2>2. MergeLayer(c, <<>>) =
          [enabled |-> c.enabled, permission |-> c.permission, tools |-> c.tools \cup {},
           patterns |-> c.patterns \cup {}, max |-> c.max, min |-> c.min, models |-> c.models,
           threshold |-> c.threshold, level |-> c.level, allowSubAgents |-> c.allowSubAgents]
    BY <2>1, Zenon DEF MergeLayer
  <2>3. c.tools \cup {} = c.tools /\ c.patterns \cup {} = c.patterns
    OBVIOUS
  <2> QED BY <2>2, <2>3, Zenon DEF Shape
<1>2. \A c, k : Shape(MergeLayer(c, k))
  BY DEF MergeLayer, Shape
<1>3. ASSUME NEW c, Shape(c), NEW i \in 1..3
      PROVE  Merged(c, i) = MergeLayer(c, l(i))
  <2>1. CASE Has(Slot(i))
    <3>1. GetConfigPaths[i] = Slot(i) /\ Slot(i) # None /\ LoadConfigFile(Slot(i)) = l(i)
      BY <2>1, PluginPlaces, PluginKeys, SlotsAre
    <3> QED BY <3>1 DEF Merged
  <2>2. CASE ~Has(Slot(i))
    <3>1. Merged(c, i) = c
      BY <2>2, PluginPlaces DEF Merged
    <3>2. l(i) = <<>>
      BY <2>2 DEF KeysOf
    <3> QED BY <1>1, <1>3, <3>1, <3>2
  <2> QED BY <2>1, <2>2
<1>4. Shape(DefaultConfig)
  BY DEF DefaultConfig, Shape
<1>5. PICK p1 : p1 = Merged(DefaultConfig, 1)
  OBVIOUS
<1>6. PICK p2 : p2 = Merged(p1, 2)
  OBVIOUS
<1>7. p1 = MergeLayer(DefaultConfig, l(1)) /\ Shape(p1)
  BY <1>2, <1>3, <1>4, <1>5
<1>8. p2 = MergeLayer(p1, l(2)) /\ Shape(p2)
  BY <1>2, <1>3, <1>6, <1>7
<1>9. Merged(p2, 3) = MergeLayer(p2, l(3))
  BY <1>3, <1>8
<1> QED BY <1>5, <1>6, <1>7, <1>8, <1>9 DEF GetConfig, PluginMerged, PluginOf

AnyWarned == \E p \in Read : Warned(p)
AnyRustMinds ==
  \E p \in Read : \E k \in DOMAIN files[p].keys : OnlyRustMinds(k, files[p].keys[k])

\* The layers are such as the lemmas about layers speak of.
LEMMA LayersAre ==
  ASSUME FilesType, DropIn, NEW i \in 1..3
  PROVE  /\ Common(KeysOf(Slot(i)))
         /\ ~AnyWarned /\ ~AnyRustMinds => Clean(KeysOf(Slot(i)))
<1>1. Slot(i) \in Paths
  BY SlotsAre
<1>2. CASE ~Has(Slot(i))
  <2>1. KeysOf(Slot(i)) = <<>> /\ DOMAIN <<>> = {}
    BY <1>2 DEF KeysOf
  <2> QED BY <2>1 DEF Common, Clean, InvalidKeys, TypeErrors
<1>3. CASE Has(Slot(i))
  <2>1. /\ files[Slot(i)] \in File \cup {Fresh} /\ KeysOf(Slot(i)) = files[Slot(i)].keys
        /\ LoadConfigFile(Slot(i)) = KeysOf(Slot(i)) /\ Slot(i) \in Read
    BY <1>1, <1>3, PluginKeys, PluginPlaces DEF FilesType, Has, KeysOf
  <2>2. Common(KeysOf(Slot(i)))
    BY <1>1, <1>3, <2>1 DEF DropIn, Common
  <2>3. KeysOf(Slot(i)) \in Whole \cup {<<>>}
    BY <2>1, FileIs
  <2>4. ASSUME ~AnyWarned, ~AnyRustMinds
        PROVE  /\ InvalidKeys(KeysOf(Slot(i))) \cup TypeErrors(KeysOf(Slot(i))) = {}
               /\ \A k \in DOMAIN KeysOf(Slot(i)) : ~OnlyRustMinds(k, KeysOf(Slot(i))[k])
    <3>1. ~Warned(Slot(i))
      BY <2>1, <2>4 DEF AnyWarned
    <3>2. \A k \in DOMAIN files[Slot(i)].keys : ~OnlyRustMinds(k, files[Slot(i)].keys[k])
      BY <2>1, <2>4 DEF AnyRustMinds
    <3> QED BY <2>1, <3>1, <3>2 DEF Warned
  <2> QED BY <2>2, <2>3, <2>4 DEF Clean
<1> QED BY <1>2, <1>3

----------------------------------------------------------------------------
(***************************************************************************)
(* What the engines read stays what the files say.                         *)
(***************************************************************************)
SameInv ==
  /\ FilesType
  /\ rust = [up |-> rust.up, config |-> rust.config]
  /\ DropIn /\ rust.up = "up" => rust.config = RustMerged /\ Deserializes(RustMerged)
  /\ DropIn /\ rust.up = "refused" =>
       Torn \/ ~(Deserializes(RustMerged) /\ Validate(RustMerged))
  /\ DropIn /\ plugin.up \in {"started", "disabled"} => plugin.config = PluginMerged
  /\ DropIn /\ plugin.up \in {"started", "disabled", "failed"} /\ AnyWarned => plugin.warned
  /\ plugin.up = "failed" => plugin.warned

LEMMA SameSuffices == SameInv => SameFilesSameSettings
<1> SUFFICES ASSUME SameInv, plugin.up \in {"started", "disabled", "failed"}, DropIn
             PROVE  SameFilesSameSettings
  BY DEF SameFilesSameSettings
<1> DEFINE l(i) == KeysOf(Slot(i))
<1>1. PICK c : c = RustMerged
  OBVIOUS
<1>2. PICK p : p = PluginMerged
  OBVIOUS
<1>3. /\ \A i \in 1..3 : Common(l(i))
      /\ ~AnyWarned /\ ~AnyRustMinds => \A i \in 1..3 : Clean(l(i))
  BY LayersAre DEF SameInv
<1>4. DOMAIN c = Schema /\ Same(c, p)
  BY <1>1, <1>2, <1>3, SameOfLayers DEF RustMerged, PluginMerged
<1>5. ASSUME rust.up = "up", plugin.up # "failed"
      PROVE  /\ \A k \in {"enabled", "permission", "max", "min", "threshold", "level"} :
                  rust.config[k] = plugin.config[k]
             /\ \A k \in {"tools", "patterns"} : rust.config[k] \subseteq plugin.config[k]
             /\ \A m \in DOMAIN plugin.config.models :
                  /\ m \in DOMAIN rust.config.models
                  /\ rust.config.models[m] = plugin.config.models[m]
             /\ rust.config.allowSubagents = FALSE
  <2>1. rust.config = c /\ plugin.config = p /\ Deserializes(c)
    BY <1>1, <1>2, <1>5 DEF SameInv
  <2>2. \A k \in Schema : c[k] \notin {Null, Bad}
    BY <1>4, <2>1 DEF Deserializes
  <2>3. c["models"] \notin {Null, Bad}
    BY <2>2 DEF Schema
  <2> QED BY <1>4, <2>1, <2>2, <2>3 DEF Same, Plain, Lists, Schema
<1>6. ASSUME rust.up = "refused", ~plugin.warned, ~Torn, ~AnyRustMinds,
             Resolve(plugin.config.min) < Resolve(plugin.config.max)
      PROVE  FALSE
  <2>1. plugin.up \in {"started", "disabled"} /\ plugin.config = p /\ ~AnyWarned
    BY <1>2, <1>6 DEF SameInv
  <2>2. Deserializes(c) /\ Validate(c)
    BY <1>1, <1>2, <1>3, <1>6, <2>1, RefusedForGood DEF RustMerged, PluginMerged
  <2> QED BY <1>1, <1>6, <2>2 DEF SameInv
<1> QED BY <1>5, <1>6 DEF SameFilesSameSettings, Torn, AnyRustMinds

LEMMA SameInit == Init => SameInv
<1> SUFFICES ASSUME Init PROVE SameInv
  OBVIOUS
<1>1. PICK placed \in {P \in SUBSET Paths : Cardinality(P) <= MaxFiles} :
        \E held \in [placed -> File] :
          files = [p \in Paths |-> IF p \in placed THEN held[p] ELSE None]
  BY DEF Init
<1>2. PICK held \in [placed -> File] :
        files = [p \in Paths |-> IF p \in placed THEN held[p] ELSE None]
  BY <1>1
<1>3. FilesType
  BY <1>2 DEF FilesType
<1>4. rust.up = "off" /\ plugin.up = "off" /\ rust = [up |-> rust.up, config |-> rust.config]
  BY DEF Init
<1> QED BY <1>3, <1>4 DEF SameInv

LEMMA CreatedSaysNothing ==
  ASSUME FilesType, layout' = layout,
         files' = IF Has("host") THEN files ELSE [files EXCEPT !["host"] = Fresh]
  PROVE  /\ FilesType' /\ (DropIn' <=> DropIn) /\ (Torn' <=> Torn)
         /\ (AnyWarned' <=> AnyWarned)
         /\ RustMerged' = RustMerged /\ PluginMerged' = PluginMerged
<1>1. "host" \in Paths
  BY DEF Paths
<1>2. FilesType'
  BY <1>1 DEF FilesType
<1>3. /\ \A p \in Paths \ {"host"} : files'[p] = files[p]
      /\ Has("host") => files' = files
      /\ ~Has("host") => files'["host"] = Fresh
  BY <1>1 DEF FilesType
<1>4. Fresh # None /\ Fresh.form = "whole" /\ Fresh.keys = <<>>
  BY ValuesAssumption DEF Fresh
<1> HIDE DEF Fresh
<1>5. /\ \A p \in Paths \ {"host"} : Has(p)' <=> Has(p)
      /\ Has("host")' /\ (~Has("host") => files["host"] = None)
  BY <1>3, <1>4 DEF Has
<1>6. \A p \in Paths : KeysOf(p)' = KeysOf(p)
  BY <1>3, <1>4, <1>5 DEF KeysOf
<1>7. Torn' <=> Torn
  BY <1>3, <1>4, <1>5 DEF Torn, ReadLayer
<1>8. {"inner", "outer", "hostdir"} \subseteq Paths \ {"host"}
  BY DEF Paths
<1>9. DropIn' <=> DropIn
  <2>1. \A p \in Paths \ SharedPaths : p \in Paths \ {"host"}
    BY DEF SharedPaths
  <2>2. \A p \in Paths : DOMAIN KeysOf(p) \cap {"level", "allowSubagents"} = {} <=>
          (Has(p) => DOMAIN files[p].keys \cap {"level", "allowSubagents"} = {})
    BY DEF KeysOf
  <2>3. \A p \in Paths : DOMAIN KeysOf(p)' \cap {"level", "allowSubagents"} = {} <=>
          (Has(p)' => DOMAIN files'[p].keys \cap {"level", "allowSubagents"} = {})
    BY DEF KeysOf
  <2> QED BY <1>5, <1>6, <1>8, <2>1, <2>2, <2>3 DEF DropIn
<1>10. AnyWarned' <=> AnyWarned
  <2>1. \A p \in Paths \ {"host"} : Warned(p)' <=> Warned(p)
    BY <1>3 DEF Warned, LoadConfigFile
  <2>2. Has("host") => (Warned("host")' <=> Warned("host"))
    BY <1>3 DEF Warned, LoadConfigFile
  <2>3. ~Has("host") => ~Warned("host")'
    BY <1>3, <1>4 DEF Warned, LoadConfigFile, InvalidKeys, TypeErrors
  <2>4. FindProject' = FindProject
    BY <1>5, <1>8 DEF FindProject, Or, At
  <2>5. /\ GetConfigPaths[1] = (IF Has("host") THEN "host" ELSE None)
        /\ GetConfigPaths[2] = (IF Has("hostdir") THEN "hostdir" ELSE None)
        /\ GetConfigPaths[3] = FindProject
        /\ GetConfigPaths'[1] = "host"
        /\ GetConfigPaths'[2] = GetConfigPaths[2] /\ GetConfigPaths'[3] = GetConfigPaths[3]
    BY <1>5, <1>8, <2>4 DEF GetConfigPaths, Or, At
  <2>6. "host" # None /\ FindProject \in {"inner", "outer", None}
    BY ValuesAssumption DEF Paths, FindProject, Or, At
  <2>7. Read = {GetConfigPaths[1], GetConfigPaths[2], GetConfigPaths[3]} \ {None}
    BY DEF Read
  <2>8. Read' = {GetConfigPaths'[1], GetConfigPaths'[2], GetConfigPaths'[3]} \ {None}
    BY DEF Read
  <2>9. Read' = Read \cup {"host"} /\ ("host" \in Read <=> Has("host"))
    BY <2>5, <2>6, <2>7, <2>8
  <2>10. Read \subseteq Paths
    BY <2>5, <2>6, <2>7 DEF Paths
  <2> QED BY <2>1, <2>2, <2>3, <2>9, <2>10 DEF AnyWarned
<1>11. RustMerged' = RustMerged /\ PluginMerged' = PluginMerged
  <2>1. Slot(1)' = Slot(1) /\ Slot(2)' = Slot(2) /\ Slot(3)' = Slot(3)
    BY <1>5, <1>8 DEF Slot, Project
  <2>2. /\ KeysOf(Slot(1))' = KeysOf(Slot(1)) /\ KeysOf(Slot(2))' = KeysOf(Slot(2))
        /\ KeysOf(Slot(3))' = KeysOf(Slot(3))
    BY <1>6, <2>1, SlotsAre
  <2> QED BY <2>2 DEF RustMerged, PluginMerged
<1> QED BY <1>2, <1>7, <1>9, <1>10, <1>11

LEMMA FilesUnchanged ==
  ASSUME FilesType, UNCHANGED <<files, layout>>
  PROVE  /\ FilesType' /\ (DropIn' <=> DropIn) /\ (Torn' <=> Torn)
         /\ (AnyWarned' <=> AnyWarned)
         /\ RustMerged' = RustMerged /\ PluginMerged' = PluginMerged
<1>1. \A p : /\ Has(p)' = Has(p) /\ KeysOf(p)' = KeysOf(p) /\ ReadLayer(p)' = ReadLayer(p)
             /\ Warned(p)' = Warned(p)
  BY DEF Has, KeysOf, ReadLayer, Warned, LoadConfigFile
<1>2. Slot(1)' = Slot(1) /\ Slot(2)' = Slot(2) /\ Slot(3)' = Slot(3)
  BY <1>1 DEF Slot, Project
<1>3. Read' = Read
  BY DEF Read, GetConfigPaths, FindProject, Or, At, Has
<1>4. DropIn' <=> DropIn
  BY DEF DropIn, Has
<1> QED BY <1>1, <1>2, <1>3, <1>4 DEF RustMerged, PluginMerged, Torn, AnyWarned, FilesType

LEMMA StartRustKeepsSame ==
  ASSUME SameInv, StartRust
  PROVE  SameInv'
<1>1. UNCHANGED <<files, layout, plugin>>
  BY DEF StartRust, settings
<1>2. PICK merged : merged = LoadWithPaths
  OBVIOUS
<1>3. /\ Loads => rust' = [up |-> "up", config |-> merged]
      /\ ~Loads => rust' = [up |-> "refused", config |-> rust.config]
  BY <1>2, Zenon DEF StartRust, SameInv
<1>4. DropIn /\ Loads => merged = RustMerged /\ Deserializes(RustMerged)
  BY <1>2, RustReads DEF Loads
<1>5. DropIn /\ ~Loads => Torn \/ ~(Deserializes(RustMerged) /\ Validate(RustMerged))
  BY RustRefuses
<1>6. /\ FilesType' /\ (DropIn' <=> DropIn) /\ (Torn' <=> Torn)
      /\ (AnyWarned' <=> AnyWarned)
      /\ RustMerged' = RustMerged /\ PluginMerged' = PluginMerged
  BY <1>1, FilesUnchanged DEF SameInv
<1> QED BY <1>1, <1>3, <1>4, <1>5, <1>6 DEF SameInv

LEMMA StartPluginKeepsSame ==
  ASSUME SameInv, PluginShape, StartPlugin
  PROVE  SameInv'
<1>1. rust' = rust /\ plugin.up = "off" /\ layout' = layout
      /\ files' = IF Has("host") THEN files ELSE [files EXCEPT !["host"] = Fresh]
  BY DEF StartPlugin, Fresh
<1> DEFINE warned == \E p \in Read : Warned(p)
           up == IF Truthy(GetConfig.enabled) THEN "started" ELSE "disabled"
           config == GetConfig
           tool == GetConfig.permission # "deny"
<1>2. plugin' = IF Throws THEN [plugin EXCEPT !.up = "failed", !.warned = warned]
                ELSE [plugin EXCEPT !.up = up, !.config = config, !.tool = tool,
                                    !.warned = warned]
  BY Zenon DEF StartPlugin
<1>3. warned = AnyWarned /\ up \in {"started", "disabled"} /\ (DropIn => config = PluginMerged)
  BY PluginReads DEF AnyWarned, SameInv
<1>4. ASSUME Throws PROVE warned
  <2>1. PICK p \in Read, k \in {"tools", "patterns"} : Over(LoadConfigFile(p), k, {}) = Bad
    BY <1>4 DEF Throws
  <2>2. {} # Bad
    BY ValuesAssumption
  <2>3. k \in DOMAIN LoadConfigFile(p) /\ LoadConfigFile(p)[k] = Bad
    BY <2>1, <2>2 DEF Over
  <2>4. k \in DOMAIN DefaultConfig \ {"level"}
    BY <2>1 DEF DefaultConfig
  <2>5. k \in TypeErrors(LoadConfigFile(p))
    BY <2>3, <2>4 DEF TypeErrors, InvalidKeys
  <2> QED BY <2>5 DEF Warned
<1> HIDE DEF warned, up, config, tool
<1>5. /\ Throws => plugin' = [up |-> "failed", config |-> plugin.config, tool |-> plugin.tool,
                              warned |-> warned, rules |-> plugin.rules]
      /\ ~Throws => plugin' = [up |-> up, config |-> config, tool |-> tool,
                               warned |-> warned, rules |-> plugin.rules]
  BY <1>2, Zenon DEF PluginShape
<1>6. /\ FilesType' /\ (DropIn' <=> DropIn) /\ (Torn' <=> Torn)
      /\ (AnyWarned' <=> AnyWarned)
      /\ RustMerged' = RustMerged /\ PluginMerged' = PluginMerged
  BY <1>1, CreatedSaysNothing DEF SameInv
<1>7. CASE Throws
  <2>1. plugin'.up = "failed" /\ plugin'.warned = warned
    BY <1>5, <1>7
  <2> QED BY <1>1, <1>3, <1>4, <1>6, <1>7, <2>1 DEF SameInv
<1>8. CASE ~Throws
  <2>1. plugin'.up = up /\ plugin'.config = config /\ plugin'.warned = warned
    BY <1>5, <1>8
  <2> QED BY <1>1, <1>3, <1>6, <2>1 DEF SameInv
<1> QED BY <1>7, <1>8

LEMMA SameNext == SameInv /\ PromptInv /\ [Next]_vars => SameInv'
<1> SUFFICES ASSUME SameInv, PluginShape, [Next]_vars PROVE SameInv'
  BY DEF PromptInv, RulesKept
<1>1. ASSUME UNCHANGED <<files, layout>>, rust' = rust, plugin' = plugin \/ plugin'.up = "ready"
      PROVE  SameInv'
  <2>1. /\ FilesType' /\ (DropIn' <=> DropIn) /\ (Torn' <=> Torn)
        /\ (AnyWarned' <=> AnyWarned)
        /\ RustMerged' = RustMerged /\ PluginMerged' = PluginMerged
    BY <1>1, FilesUnchanged DEF SameInv
  <2> QED BY <1>1, <2>1 DEF SameInv
<1>2. CASE StartRust
  BY <1>2, StartRustKeepsSame
<1>3. CASE UpdateConfig
  <2>1. UNCHANGED <<files, layout, plugin>> /\ \E c : rust' = [up |-> "updated", config |-> c]
    BY <1>3 DEF UpdateConfig, settings
  <2>2. /\ FilesType' /\ (DropIn' <=> DropIn) /\ (Torn' <=> Torn)
        /\ (AnyWarned' <=> AnyWarned)
        /\ RustMerged' = RustMerged /\ PluginMerged' = PluginMerged
    BY <2>1, FilesUnchanged DEF SameInv
  <2>3. rust' = [up |-> "updated", config |-> rust'.config] /\ rust'.up = "updated"
    BY <2>1
  <2> QED BY <2>1, <2>2, <2>3 DEF SameInv
<1>4. CASE StartPlugin
  BY <1>4, StartPluginKeepsSame
<1>5. CASE ConfigHook
  <2>1. \E config, rules :
          plugin' = [up |-> "ready", config |-> config, tool |-> plugin.tool,
                     warned |-> plugin.warned, rules |-> rules]
    BY <1>5, Zenon DEF ConfigHook, PluginShape
  <2>2. plugin'.up = "ready"
    BY <2>1
  <2>3. UNCHANGED <<files, layout, rust>>
    BY <1>5 DEF ConfigHook, settings
  <2> QED BY <1>1, <2>2, <2>3
<1>6. ASSUME NEW h \in Handlers,
             Arrive(h) \/ SubAgentKnown(h) \/ SyncPermission(h) \/ SystemPrompt(h)
      PROVE  SameInv'
  BY <1>1, <1>6 DEF Arrive, SubAgentKnown, SyncPermission, SystemPrompt, settings
<1>7. CASE UNCHANGED vars
  BY <1>1, <1>7 DEF vars, settings
<1> QED BY <1>2, <1>3, <1>4, <1>5, <1>6, <1>7 DEF Next

\* Dropped into an OpenCode host in the place of a plugin that comes up, the library reads
\* the same settings (load_with_paths against getConfig), protects nothing the plugin does
\* not, limits every model the plugin limits and as it does, and refuses nothing the
\* plugin's user is not warned of, but for a file that is torn or unreadable, a value only
\* the library minds and limits at odds.
THEOREM SameFilesSameSettingsHolds == Spec => []SameFilesSameSettings
<1>1. Init => PromptInv /\ SameInv
  BY PromptInit, SameInit
<1>2. (PromptInv /\ SameInv) /\ [Next]_vars => (PromptInv /\ SameInv)'
  BY PromptNext, SameNext
<1>3. PromptInv /\ SameInv => SameFilesSameSettings
  BY SameSuffices
<1> QED BY <1>1, <1>2, <1>3, PTL DEF Spec
=============================================================================
