----------------------------- MODULE MCEvalRun ------------------------------
(* EvalRun over bounded tier files and package lists. *)
EXTENDS EvalRun

MCAgents   == {"eval_light"}
MCRequired == {"light"}

Tier(agent, listed, providers) ==
  [agent |-> agent, listed |-> listed, providers |-> providers]

Entry(kind, model, fields) ==
  [kind |-> kind, model |-> model, label |-> "none", config |-> FALSE,
   fields |-> fields]

Entries ==
  {Entry("opencode_cli", FALSE, {"agent"}), Entry("opencode_cli", FALSE, {}),
   Entry("openhands_sdk", TRUE, {}),        Entry("openhands_sdk", FALSE, {}),
   Entry(AgentServer, TRUE, {"agent"}),     Entry("mistyped", TRUE, {}),
   Entry("none", TRUE, {})}

Lists ==
  {<<>>} \cup {<<e>> : e \in Entries}
    \cup {<<Entry("openhands_sdk", TRUE, {}), e>> : e \in Entries}

V0Tiers ==
  {Tier(a, FALSE, <<>>) : a \in {"none", "blank", "eval_light", "unknown"}}

V1Tiers ==
  {Tier("none", TRUE, l) : l \in Lists} \cup {Tier("eval_light", FALSE, <<>>)}

\* "light" in every shape, "high" in few.
Of(light, high) ==
  {[t \in {"light", "high"} |-> IF t = "light" THEN l ELSE h] :
     l \in light, h \in high}

V0Documents ==
  [version : {FALSE}, default : {"none"},
   runtime : {{}, {"launch"}, {"agent", "launch"}},
   multiturn : {"none", "bad", "opencode_sdk", "mistyped"},
   tiers : Of(V0Tiers, V0Tiers) \cup {[t \in {"high"} |-> h] : h \in V0Tiers}]

V1Documents ==
  [version : BOOLEAN, default : {"none", "high"}, runtime : {{}, {"launch"}},
   multiturn : {"none"},
   tiers : Of(V1Tiers,
              {Tier("none", TRUE, <<Entry(AgentServer, TRUE, {})>>),
               Tier("none", TRUE, <<Entry("opencode_cli", FALSE, {"agent"})>>),
               Tier("eval_light", FALSE, <<>>)})]

MCDocuments == {Empty} \cup V0Documents \cup V1Documents

Package(tier, padded, turns, broken) ==
  [tier |-> tier, padded |-> padded, turns |-> turns, broken |-> broken]

MCPackageLists ==
  {<<Package("light", FALSE, FALSE, FALSE),
     Package("high", FALSE, FALSE, FALSE)>>,
   <<Package("light", FALSE, TRUE, FALSE),
     Package("absent", FALSE, FALSE, FALSE),
     Package("high", TRUE, FALSE, FALSE)>>,
   <<Package("light", FALSE, FALSE, TRUE),
     Package("none", TRUE, TRUE, FALSE),
     Package("light", FALSE, FALSE, FALSE)>>}

\* At the place a given path names from the cwd: no file, or another one's tier.
MCElsewhere == {"none", "high"}

=============================================================================
