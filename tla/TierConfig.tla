----------------------------- MODULE TierConfig -----------------------------
(***************************************************************************)
(* The tier file config/eval-tiers.toml and the code that reads it: the    *)
(* loader (eval-tier-config.js), the validator (validate-package-config),  *)
(* the migration (migrate-from-v0.js) and the resolver, which turns a      *)
(* package and the tier file into the providers promptfoo will load.       *)
(*                                                                         *)
(* A document keeps what these tell apart.  The fields a provider needs    *)
(* are "agent" and "launch"; "launch" stands for opencode_config,          *)
(* project_dir, format and log_level, which [runtime] has all or none of.  *)
(***************************************************************************)
EXTENDS Naturals, Sequences

CONSTANTS
  OpenCodeAgents,  \* agents that opencode.json defines as it must
  Required,        \* REQUIRED_TIERS
  AdapterComplete  \* openhands.json has a complete adapter block

ASSUME AdapterType == AdapterComplete \in BOOLEAN
ASSUME AgentNames  == OpenCodeAgents \cap {"none", "blank"} = {}

SubprocessKinds == {"openhands_sdk", "claude_agent_sdk"}
Registry        == SubprocessKinds \cup {"opencode_cli", "opencode_sdk", "codex_sdk"}
AgentServer     == "openhands_agent_server"

Fields == {"agent", "launch"}

\* A document: version says version = "v1"; default is [defaults] tier, "none"
\* without it; runtime holds the fields of [runtime] ({} without it); multiturn
\* is its provider kind, "none" without the block and "bad" where it has no
\* kind or no model.
\* A tier: agent is "none" without one, or "blank"; listed says that it has
\* an array of providers, each [kind, model, label, config, fields], where
\* config says that it has an agent_config.  A document without tiers has no
\* [tiers], as the empty file.
Empty == [version |-> FALSE, default |-> "none", runtime |-> {},
          multiturn |-> "none", tiers |-> <<>>]

-----------------------------------------------------------------------------
(* Which version, decided in three places *)

\* _isV1Shape, _isV1 of the migration, _isV1RawShape of the resolver.
IsV1(doc) == doc.version \/ \E t \in DOMAIN doc.tiers : doc.tiers[t].listed

\* _isV0Shape of the loader: every tier has an agent.
EveryTierHasAgent(doc) ==
  DOMAIN doc.tiers # {} /\ \A t \in DOMAIN doc.tiers : doc.tiers[t].agent # "none"

\* _isV0 of the migration: some tier has one.
SomeTierHasAgent(doc) == \E t \in DOMAIN doc.tiers : doc.tiers[t].agent # "none"

-----------------------------------------------------------------------------
(* parseTierConfig *)

ValidV1(doc) ==
  /\ DOMAIN doc.tiers # {}
  /\ \A t \in DOMAIN doc.tiers :
       /\ doc.tiers[t].listed
       /\ \A i \in DOMAIN doc.tiers[t].providers :
            doc.tiers[t].providers[i].kind # "none"

Parses(doc) ==
  \/ IsV1(doc) /\ ValidV1(doc)
  \/ /\ ~IsV1(doc) /\ EveryTierHasAgent(doc)
     /\ \A t \in DOMAIN doc.tiers : doc.tiers[t].agent # "blank"

CliEntry(doc, t) ==
  [kind |-> "opencode_cli", model |-> FALSE, label |-> doc.tiers[t].agent,
   config |-> "launch" \in doc.runtime, fields |-> {}]

\* The providers of each tier, once the document has parsed.
Providers(doc) ==
  [t \in DOMAIN doc.tiers |-> IF IsV1(doc) THEN doc.tiers[t].providers
                                           ELSE <<CliEntry(doc, t)>>]

-----------------------------------------------------------------------------
(* validate *)

NeedsModel(kind) == kind \in SubprocessKinds \cup {AgentServer}

\* Mutant: a kind that is not registered passes.
ValidEntryOfAnyKind(e) == NeedsModel(e.kind) => e.model

ValidEntry(e) ==
  /\ e.kind \in Registry \cup {AgentServer}
  /\ NeedsModel(e.kind) => e.model
  /\ e.kind = AgentServer => AdapterComplete

Validates(doc) ==
  /\ Parses(doc)
  /\ \A t \in DOMAIN doc.tiers :
       \A i \in DOMAIN Providers(doc)[t] : ValidEntry(Providers(doc)[t][i])

-----------------------------------------------------------------------------
(* loadEvalTierConfig and resolveEvalTier, for a document of version 0 *)

ValidRuntime(doc) == doc.runtime = {"launch"}

\* Mutant: only the tier that is asked for is looked at.
LoadsTier(doc, tier) == tier \in DOMAIN doc.tiers

Loads(doc, tier) ==
  /\ ValidRuntime(doc)
  /\ Required \subseteq DOMAIN doc.tiers
  /\ \A t \in DOMAIN doc.tiers :
       doc.tiers[t].agent \in OpenCodeAgents /\ ~doc.tiers[t].listed
  /\ tier \in DOMAIN doc.tiers

-----------------------------------------------------------------------------
(* migrate *)

Migratable(doc) ==
  /\ ~IsV1(doc) /\ SomeTierHasAgent(doc)
  /\ \A t \in DOMAIN doc.tiers : doc.tiers[t].agent # "none"

\* Mutant: the agent_config of the runtime goes with the runtime.
MigratedTierBare(doc, t) ==
  [agent |-> "none", listed |-> TRUE,
   providers |-> <<[CliEntry(doc, t) EXCEPT !.config = FALSE]>>]

MigratedTier(doc, t) ==
  [agent |-> "none", listed |-> TRUE,
   providers |-> <<[kind |-> "opencode_cli", model |-> FALSE,
                    label |-> doc.tiers[t].agent,
                    config |-> "launch" \in doc.runtime, fields |-> {}]>>]

\* _buildV1: [defaults], [runtime] and [multiturn] are dropped.
Migrated(doc) ==
  [version |-> TRUE, default |-> "none", runtime |-> {}, multiturn |-> "none",
   tiers |-> [t \in DOMAIN doc.tiers |-> MigratedTier(doc, t)]]

-----------------------------------------------------------------------------
(* resolveConfigFile: a package is [tier, padded, turns, broken]; tier is   *)
(* its eval_tier without the blanks around it, which padded says it has,    *)
(* "none" if nothing is left; turns says that a test has vars.turns, of     *)
(* several turns, broken that it has providers of its own or refers to a    *)
(* file outside the eval root.                                              *)

\* Where a field of a provider comes from: the entry wins over [runtime].
Source(e, runtime) ==
  [f \in Fields |-> CASE f \in e.fields -> "entry"
                      [] f \in runtime \ e.fields -> "runtime"
                      [] OTHER -> "none"]

\* _buildBridgeProviderEntry, for the i-th provider of a tier.
BridgeConfig(e, runtime, tier, i) ==
  [via |-> IF e.kind = AgentServer THEN "wrapper" ELSE "bridge",
   kind |-> e.kind, model |-> e.model, label |-> e.label, case |-> <<tier, i>>,
   source |-> Source(e, runtime)]

\* resolveMultiTurnProviderBlock: no case_id and no run_id.
MultiTurnConfig(doc) ==
  [via |-> "bridge", kind |-> doc.multiturn, model |-> TRUE, label |-> "multiturn",
   case |-> <<>>, source |-> [f \in Fields |-> "none"]]

\* resolveProviderBlock
CliConfig(doc, tier) ==
  [via |-> "cli", kind |-> "opencode_cli", model |-> FALSE,
   label |-> doc.tiers[tier].agent, case |-> <<>>,
   source |-> [f \in Fields |-> IF f = "agent" THEN "entry" ELSE "runtime"]]

\* The tier file is read once to choose the branch, and a second time by the
\* loader when that is the last one.  The tier is looked up as it is written.
Resolves(raw, again, pkg) ==
  /\ ~pkg.broken /\ (pkg.tier # "none" \/ pkg.padded)
  /\ \/ IsV1(raw) /\ Parses(raw) /\ ~pkg.padded /\ pkg.tier \in DOMAIN raw.tiers
     \/ ~IsV1(raw) /\ pkg.turns /\ raw.multiturn \notin {"none", "bad"}
     \/ ~IsV1(raw) /\ ~pkg.turns /\ ~pkg.padded /\ Loads(again, pkg.tier)

BridgeConfigs(doc, tier) ==
  [i \in DOMAIN Providers(doc)[tier] |->
     BridgeConfig(Providers(doc)[tier][i], doc.runtime, tier, i)]

Configs(raw, again, pkg) ==
  CASE IsV1(raw)               -> BridgeConfigs(raw, pkg.tier)
    [] ~IsV1(raw) /\ pkg.turns -> <<MultiTurnConfig(raw)>>
    [] OTHER                   -> <<CliConfig(again, pkg.tier)>>

-----------------------------------------------------------------------------
(* What the providers make of it *)

\* callApi of the bridge and of the CLI provider; the agent-server provider
\* needs the URL of a daemon.
Accepts(c, pkg, server) ==
  \/ c.via = "cli"
  \/ c.via = "wrapper" /\ server
  \/ /\ c.via = "bridge" /\ c.kind \in Registry
     /\ c.kind = "opencode_cli" =>
          ~pkg.turns /\ \A f \in Fields : c.source[f] # "none"

\* _tierUsesAgentServer
UsesAgentServer(doc, tier) ==
  /\ tier \in DOMAIN doc.tiers
  /\ \E i \in DOMAIN Providers(doc)[tier] : Providers(doc)[tier][i].kind = AgentServer

=============================================================================
