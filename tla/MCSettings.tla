----------------------------- MODULE MCSettings -----------------------------
(***************************************************************************)
(* Constants for model checking Settings.                                  *)
(***************************************************************************)
EXTENDS Settings

\* A denial, a permission of a wrong type, lists that are one and that are none, limits
\* that fit the defaults and that do not, a percentage out of range, maps of limits, numbers
\* above and below their range, both names of one key, a switch, both spellings of another.
Layers ==
  { [permission |-> "deny", max |-> Tokens(60)],
    [permission |-> "allow", tools |-> {"bash"}, models |-> ("m1" :> Tokens(30))],
    [permission |-> Bad, min |-> Percent(80)],
    [patterns |-> {Odd}, models |-> Null],
    [permission |-> Null, tools |-> Bad],
    [tools |-> {"task"}, max |-> Percent(80), pruneNotification |-> "off"],
    [level |-> "minimal", pruneNotification |-> "off", min |-> Tokens(70)],
    [max |-> Percent(120), models |-> ("m2" :> Tokens(0))],
    [enabled |-> FALSE, threshold |-> 200],
    [threshold |-> 1, allowSubagents |-> TRUE],
    [allowSubAgents |-> TRUE] }

FollowedLayers == { [permission |-> "deny", max |-> Tokens(60)], [allowSubAgents |-> TRUE] }

Rule(k, p, a) == [key |-> k, pattern |-> p, action |-> a]
Rules == { <<>>,
           << Rule("*", "*", "deny") >>,
           << Rule("*", "*", "deny"), Rule("compress", "*", "allow") >>,
           << Rule("compress", "*", "deny"), Rule("bash", "*", "ask") >>,
           << Rule("*", "*", "deny"), Rule("compress", "x", "deny") >> }

Alike == Permutations(Agents)
============================================================================
