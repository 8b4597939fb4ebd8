--------------------------- MODULE MCAuditPipeline ---------------------------
(***************************************************************************)
(* One Decoy that comes and goes; a batch of six events, of which a Discord *)
(* Alert wants three in two messages, or of nothing to keep, or one that   *)
(* does not decode; declarations with and without mistakes.                *)
(***************************************************************************)
EXTENDS AuditPipeline

CONSTANTS d1, d2, b1, chat, hook, log, h1, h2

Event(stage, verb, system, ref) ==
    [stage |-> stage, verb |-> verb, system |-> system, ref |-> ref]
Ref(resource, sub) == [resource |-> resource, sub |-> sub]

Secrets == Event("ResponseComplete", "list", FALSE, Ref("secrets", NoSub))
Exec == Event("ResponseComplete", "create", FALSE, Ref("pods", "exec"))
Watch == Event("", "watch", FALSE, Ref("pods", NoSub))
Seeding == Event("ResponseComplete", "update", TRUE, Ref("pods", "status"))
Discovery == Event("ResponseComplete", "get", FALSE, NoRef)
Received == Event("RequestReceived", "list", FALSE, Ref("secrets", NoSub))

MCEvents == {Secrets, Exec, Watch, Seeding, Discovery, Received}
MCJoinEvent == Event("", "join", FALSE, NoRef)

First == [ns |-> "prod", name |-> d1]
MCDecoys == {First}
MCFrom == [b \in {b1} |-> First]
MCBodies == {<<Received, Secrets, Seeding, Exec, Discovery, Watch>>, <<Received>>, Garbled}

Alert(ns, type, targets, types, all, verbs, resources) ==
    [ns |-> ns, type |-> type, secret |-> NoSecret, targets |-> targets, types |-> types,
     includeAll |-> all, exVerbs |-> verbs, exResources |-> resources]

\* chat takes both kinds of event, hook everything but watches and exec.
MCAlerts ==
    [n \in {chat, hook} |->
        IF n = chat THEN Alert("prod", "discord", {}, {}, FALSE, {}, {})
        ELSE Alert("prod", "generic-webhook", {[name |-> "*", ns |-> ""]}, {"AuditActivity"},
                   TRUE, {"watch"}, {Ref("pods", "exec")})]
MCSinks == [n \in {log} |-> [ns |-> "test", type |-> "loki", secret |-> "url",
                             targets |-> {[name |-> d1, ns |-> "prod"]}]]
Provider(ns, type, address) ==
    [ns |-> ns, name |-> type, type |-> type, address |-> address, secret |-> NoSecret]
MCProviders == {Provider("prod", "discord", "url"), Provider("prod", "generic-webhook", "url"),
                Provider("test", "loki", NoAddress)}

Config(alerts, sinks, providers, secrets) ==
    [alerts |-> alerts, sinks |-> sinks, providers |-> providers, secrets |-> secrets]
MCConfigs ==
    { Config(MCAlerts, MCSinks, MCProviders, {"url"}),
      \* two discord Providers, and a sink whose Secret is gone
      Config(MCAlerts, MCSinks,
             MCProviders \cup {[Provider("prod", "discord", "url") EXCEPT !.name = "again"]}, {}),
      \* an Alert with a Provider of a log's type, targets that do not match
      Config([n \in {chat} |-> Alert("test", "loki", {[name |-> d1, ns |-> "prod"]}, {}, FALSE, {}, {})],
             [n \in {log} |-> [MCSinks[log] EXCEPT !.targets = {[name |-> d2, ns |-> "prod"]}]],
             MCProviders, {"url"}) }
=============================================================================
