------------------------------ MODULE Notifier ------------------------------
(***************************************************************************)
(* The pure part of internal/notifier: which audit events an Alert wants   *)
(* (classify.go), which Decoys and events an Alert or AuditSink covers,    *)
(* and which Provider and address it resolves to (dispatcher.go).          *)
(*                                                                         *)
(* An event is [stage, verb, system, ref], ref is NoRef or [resource, sub].*)
(* An Alert is [ns, type, secret, targets, types, includeAll, exVerbs,     *)
(* exResources]; an AuditSink has the first four fields.  A Provider is    *)
(* [ns, name, type, address, secret].  Lists whose order does not matter   *)
(* are sets.                                                               *)
(***************************************************************************)
EXTENDS Naturals, Sequences, FiniteSets

CONSTANTS
    NoRef,       \* a nil objectRef
    NoSub,       \* no subresource, in an objectRef or in a pattern
    NoSecret,    \* a nil secretRef
    NoAddress,   \* an empty address
    Unresolved   \* resolveProvider has returned an error

\* The AuditFilter that main uses: no excludes, no includeAll.
DefaultFilter == [includeAll |-> FALSE, exVerbs |-> {}, exResources |-> {}]

matchesResourcePattern(pattern, ref) ==
    /\ ref # NoRef
    /\ ref.resource = pattern.resource
    /\ pattern.sub # NoSub => ref.sub = pattern.sub

\* What the built-in heuristic drops.
Housekeeping(ev) ==
    ev.system \/ ev.ref = NoRef \/ ev.ref.sub = "status" \/ ev.ref.resource = "leases"

IsNotableAuditEvent(ev, filter) ==
    /\ filter.includeAll \/ ~Housekeeping(ev)
    /\ ev.verb \notin filter.exVerbs
    /\ ~\E pattern \in filter.exResources : matchesResourcePattern(pattern, ev.ref)

wantsEventType(types, want) == types = {} \/ want \in types

\* A target's namespace is that of its Alert or AuditSink unless it names one.
anyDecoyMatches(targets, owner, kt) ==
    \/ targets = {}
    \/ \E t \in targets :
          /\ kt.ns = IF t.ns = "" THEN owner ELSE t.ns
          /\ t.name \in {"*", kt.name}

\* The one Provider of the type in the namespace, with its address: from the
\* reference's Secret, else the Provider's own, else spec.address.
resolveProvider(providers, secrets, spec) ==
    LET matches == {p \in providers : p.ns = spec.ns /\ p.type = spec.type} IN
    IF Cardinality(matches) # 1 THEN Unresolved
    ELSE LET p == CHOOSE q \in matches : TRUE
             ref == IF spec.secret # NoSecret THEN spec.secret ELSE p.secret
         IN CASE ref # NoSecret -> IF ref \in secrets THEN [type |-> p.type, address |-> ref]
                                                      ELSE Unresolved
              [] p.address # NoAddress -> [type |-> p.type, address |-> p.address]
              [] OTHER -> Unresolved
=============================================================================
