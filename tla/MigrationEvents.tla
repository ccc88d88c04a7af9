---- MODULE MigrationEvents ----
(***************************************************************************)
(* How a migration gets from the command line to the nodes it recycles      *)
(* (cli/migrate.py, migration/event.py, event_enums.py, settings.py): the   *)
(* condition is parsed, written out into a custom resource, read back and   *)
(* parsed again by the batch, and applied to the nodes of the pool, of      *)
(* which the configured portion is recycled at a time.                      *)
(*                                                                          *)
(* Versions, instance types and time spans are numbers, and texts are       *)
(* <<form, number>>: "plain" is the form that values are printed in,        *)
(* "human" a span of so many minutes, "upper" an instance type in capitals, *)
(* "padded" a version with leading zeros (20.04), "odd" anything else.  An  *)
(* event's label selectors are the labels that a node must have.            *)
(***************************************************************************)
EXTENDS Integers, Sequences, FiniteSets, FiniteSetsExt

CONSTANTS Nodes,      \* the nodes of the pool: what instance and agent say of each
          Inputs,     \* what users type: sequences of texts, "," between them
          Selectors,  \* the label selectors they type
          Rates,      \* configured rates: [percent, value]
          MaxClock,   \* bound: seconds that pass
          MaxEvents   \* bound: migrations that are typed

VARIABLES clock,      \* seconds, part of a resource's name
          crds,       \* the custom resources: [name, status, labels, condition]
          submitted,  \* what the user asked for under each name
          listed,     \* events of the batch's last list
          work,       \* the last migration worked on: [name, agents, selected, chunk]
          created

vars == <<clock, crds, submitted, listed, work, created>>

Traits == {"kernel", "lsbrelease", "instance_type", "uptime"}
Operators == {"gt", "ge", "eq", "ne", "lt", "le", "in", "notin"}
expecting_collection == {"in", "notin"}

SUPPORT_MATRIX(trait) ==
    CASE trait = "instance_type" -> {"eq", "ne", "in", "notin"}
      [] trait = "uptime" -> {"gt", "ge", "lt", "le"}
      [] OTHER -> Operators

Condition(trait, op, target) == [trait |-> trait, op |-> op, target |-> target]

\* parse_time_interval_seconds: a span of minutes (5m), in seconds.
parse_time_interval_seconds(text) == 60 * text[2]

\* CONDITION_TARGET_LOADERS: which forms a trait's loader understands,
Loads(trait, text) ==
    \/ text[1] = "plain"
    \/ text[1] = "human" /\ trait = "uptime"
    \/ text[1] = "upper" /\ trait = "instance_type"
    \/ text[1] = "padded" /\ trait = "lsbrelease"

\* and what it makes of them: capitals and zeros do not matter.
Load(text) == IF text[1] = "human" THEN parse_time_interval_seconds(text) ELSE text[2]

\* from_dict: only the set operators split their target at commas, so that any
\* other operator fails on a list.  The target is kept as a sequence.
Understood(c) ==
    /\ c.op \in SUPPORT_MATRIX(c.trait)
    /\ \A i \in DOMAIN c.target : Loads(c.trait, c.target[i])
    /\ c.op \in expecting_collection \/ Len(c.target) = 1

from_dict(c) == Condition(c.trait, c.op, [i \in DOMAIN c.target |-> Load(c.target[i])])

\* to_dict: stringify_target prints every value in its plain form: seconds, small
\* letters, no leading zeros.
to_dict(c) == Condition(c.trait, c.op, [i \in DOMAIN c.target |-> <<"plain", c.target[i]>>])

\* ConditionOperator.apply
apply(op, left, right) ==
    CASE op = "in" -> \E i \in DOMAIN right : left = right[i]
      [] op = "notin" -> \A i \in DOMAIN right : left # right[i]
      [] op = "gt" -> left > right[1]
      [] op = "ge" -> left >= right[1]
      [] op = "lt" -> left < right[1]
      [] op = "le" -> left <= right[1]
      [] op = "eq" -> left = right[1]
      [] op = "ne" -> left # right[1]

\* CONDITION_TRAIT_GETTERS: semver does not parse an odd kernel and raises,
Raises(trait, n) == trait = "kernel" /\ Nodes[n].kernel[1] # "plain"

\* and packaging makes a legacy version of an odd release, below any version.
get_from(trait, n) ==
    CASE trait = "kernel" -> Nodes[n].kernel[2]
      [] trait = "lsbrelease" ->
           IF Nodes[n].lsbrelease[1] = "odd" THEN -1 ELSE Nodes[n].lsbrelease[2]
      [] trait = "instance_type" -> Nodes[n].instance_type
      [] trait = "uptime" -> Nodes[n].uptime

matches(c, n) == apply(c.op, get_from(c.trait, n), c.target)

\* The resource of an event, and the event of a resource.
to_crd_body(name, status, labels, c) ==
    [name |-> name, status |-> status, labels |-> labels, condition |-> to_dict(c)]
from_crd(r) == [name |-> r.name, labels |-> r.labels, condition |-> from_dict(r.condition)]

----
(* Settings *)

\* Python rounds a half to the even neighbour.
RoundHalfEven(a, b) ==
    LET q == a \div b
        r == a % b
    IN  IF 2 * r > b \/ (2 * r = b /\ q % 2 = 1) THEN q + 1 ELSE q

OfPercentPlain(rate, size) == RoundHalfEven(rate.value * size, 100)

\* PoolPortion._of_percent: a portion that is not nothing is a node at least.
OfPercent(rate, size) == Max({IF rate.value = 0 THEN 0 ELSE 1, RoundHalfEven(rate.value * size, 100)})

of(rate, size) == IF rate.percent THEN OfPercent(rate, size) ELSE rate.value

\* WorkerSetup.from_config refuses a rate of nothing.
from_config(rate) == rate.value > 0

\* MigrationPrecendence: highest uptime first, or fewest tasks.
SortKey(precedence, n) ==
    IF precedence = "highest_uptime" THEN -Nodes[n].uptime ELSE Nodes[n].task_count

----
(* Actions *)

NoWork == [name |-> 0, agents |-> {}, selected |-> {}, chunk |-> {}]

Init ==
    /\ clock = 1
    /\ crds = {}
    /\ submitted = [t \in 1..MaxClock |-> {}]
    /\ listed = {}
    /\ work = NoWork
    /\ created = 0

Tick ==
    /\ clock < MaxClock
    /\ clock' = clock + 1
    /\ UNCHANGED <<crds, submitted, listed, work, created>>

Taken(name) == \E r \in crds : r.name = name

\* An error of the API, as for a name that is taken, is logged and nothing else.
create_node_migration_resource(name, labels, c) ==
    /\ ~Taken(name)
    /\ crds' = crds \cup {to_crd_body(name, "pending", labels, c)}
    /\ submitted' = [submitted EXCEPT ![name] = {[labels |-> labels, condition |-> c]}]

\* clusterman migrate: the name is the pool and the second.
Migrate ==
    /\ created < MaxEvents
    /\ \E trait \in Traits, op \in Operators, input \in Inputs, labels \in Selectors :
        \E c \in {Condition(trait, op, input)} :
            /\ Understood(c)
            /\ create_node_migration_resource(clock, labels, from_dict(c))
    /\ created' = created + 1
    /\ UNCHANGED <<clock, listed, work>>

\* A resource that was not made by clusterman may have a condition that cannot be
\* read, such as one with an operator that its trait does not support.
ForeignResource ==
    /\ ~Taken(clock)
    /\ crds' = crds \cup {[name |-> clock, status |-> "pending", labels |-> {},
                            condition |-> Condition("uptime", "eq", <<>>)]}
    /\ UNCHANGED <<clock, submitted, listed, work, created>>

\* list_node_migration_resources: one resource that cannot be read hides them all.
List ==
    LET open == {r \in crds : r.status \in {"pending", "inprogress"}}
        readable == \A r \in open : Understood(r.condition)
    IN  /\ listed' \in
            {IF readable THEN {from_crd(r) : r \in open} ELSE {}, {}}
        /\ UNCHANGED <<clock, crds, submitted, work, created>>

\* The agents that a connector with an event's label selectors lists.
Listed(e, agents) == {n \in agents : e.labels \subseteq Nodes[n].labels}

\* node_selector: an instance without a listed agent is passed over, whatever its
\* traits.
Selection(e, agents) == {n \in Listed(e, agents) : ~matches(e.condition, n)}

\* event_migration_worker up to the first chunk of _drain_node_selection, for an
\* event of the list and the agents that have joined by then.  A trait that
\* cannot be read ends the worker.
Recycle ==
    \E e \in listed, agents \in SUBSET DOMAIN Nodes, rate \in Rates,
       precedence \in {"highest_uptime", "lowest_task_count"} :
        /\ from_config(rate)
        /\ LET selected == Selection(e, agents)
               first(n) == Cardinality({m \in selected :
                              \/ SortKey(precedence, m) < SortKey(precedence, n)
                              \/ SortKey(precedence, m) = SortKey(precedence, n) /\ m < n})
           IN  work' = IF \E n \in Listed(e, agents) : Raises(e.condition.trait, n) THEN NoWork
                       ELSE [name |-> e.name, agents |-> agents, selected |-> selected,
                             chunk |-> {n \in selected :
                                          first(n) < of(rate, Cardinality(DOMAIN Nodes))}]
        /\ UNCHANGED <<clock, crds, submitted, listed, created>>

\* mark_node_migration_resource
Mark ==
    \E r \in crds, status \in {"inprogress", "completed", "skipped"} :
        /\ work.name = r.name
        /\ crds' = (crds \ {r}) \cup {[r EXCEPT !.status = status]}
        /\ UNCHANGED <<clock, submitted, listed, work, created>>

Next ==
    \/ Tick
    \/ Migrate
    \/ ForeignResource
    \/ List
    \/ Recycle
    \/ Mark

Spec == Init /\ [][Next]_vars

----
\* What is recycled is what the user asked for: among the instances whose agents
\* have joined and have the labels asked for, those that do not meet the
\* condition as it was typed, after labels and condition went through the
\* resource and back.  A migration that has nodes to recycle always recycles
\* some, whatever the rate and however small the pool.
RequestIsCarriedOut ==
    work.name # 0 =>
        /\ \E s \in submitted[work.name] :
            work.selected = {n \in work.agents :
                               s.labels \subseteq Nodes[n].labels /\ ~matches(s.condition, n)}
        /\ work.selected # {} => work.chunk # {}
====
