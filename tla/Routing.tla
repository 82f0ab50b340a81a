------------------------------- MODULE Routing -------------------------------
(***************************************************************************)
(* Choice routing in an ADK workflow (adklaya/routing.go): how             *)
(* NewChoiceRouting makes a node and its outgoing edges of the branches,   *)
(* and what the node does with a prediction. The workflow engine, which    *)
(* follows the edges that carry the node's route, is not in the repository *)
(* and is seen as that. The prediction is Inference's.                     *)
(***************************************************************************)
EXTENDS Inference

CONSTANTS Configs,  \* [wellFormed, branches, fallback, policy]
          NameOf    \* the name of each target node

(* wellFormed: name, projector, policy and instructions are given and the  *)
(* name is not ADK's. A branch has a target, or "nil", and its criteria. A *)
(* policy has its three thresholds in [0, 1], or is refused.               *)
ASSUME RoutingAssumption ==
  \A c \in Configs :
    /\ c.wellFormed \in BOOLEAN
    /\ c.branches \in Seq([target : DOMAIN NameOf \union {"nil"}, criteria : Seq(STRING)])
    /\ c.fallback \in DOMAIN NameOf \union {"nil"}

VARIABLES cfg,      \* the configuration the routing was made of
          edges,    \* ChoiceRouting.edges: sequence of [to, routes]
          routes,   \* event.Routes of the run of the node
          node      \* none, ready, invalidConfig, running, routed, failed

routingVars == <<cfg, edges, routes, node>>

(* The routes: one for each branch, by its place, and 0 for the fallback.  *)
fallbackRoute == 0

Targets(c) == [i \in DOMAIN c.branches |-> c.branches[i].target]
Criteria(c) == FlattenSeq([i \in DOMAIN c.branches |-> c.branches[i].criteria])

validatePolicy(p) ==
  \A t \in {p.minSelected, p.minConfidence, p.maxAction} : t \in 0..One

(* validateTarget for all targets, the fallback included: names are given, *)
(* not reserved, and distinct for distinct nodes.                          *)
validateTargets(nodes) ==
  /\ \A t \in nodes : NameOf[t] \notin {"", "user"}
  /\ \A t, u \in nodes : NameOf[t] = NameOf[u] => t = u

question(c) ==
  [kind |-> "choice", id |-> "route", options |-> Criteria(c), complete |-> c.wellFormed]

(* The returns of newChoiceRouting with an error, negated.                 *)
validateConfig(c) ==
  /\ c.wellFormed /\ validatePolicy(c.policy)
  /\ c.fallback # "nil" /\ c.branches # << >>
  /\ \A i \in DOMAIN c.branches : c.branches[i].target # "nil" /\ c.branches[i].criteria # << >>
  /\ c.fallback \notin ToSet(Targets(c))
  /\ validateTargets(ToSet(Targets(c)) \union {c.fallback})
  /\ Distinct(Criteria(c))
  /\ validateQuestion(question(c))

(* Each target once. In which order is left open: all edges are looked at. *)
targetOrder(c) == SetToSeq(ToSet(Targets(c)))

targetRoutes(c, target) == {i \in DOMAIN c.branches : c.branches[i].target = target}

newEdges_FirstRouteOnly(c) ==
  [k \in DOMAIN targetOrder(c) |->
     [to |-> targetOrder(c)[k], routes |-> {Min(targetRoutes(c, targetOrder(c)[k]))}]]
    \o <<[to |-> c.fallback, routes |-> {fallbackRoute}]>>

(* One edge for each target, with the routes of all its branches, and one  *)
(* for the fallback.                                                       *)
newEdges(c) ==
  [k \in DOMAIN targetOrder(c) |->
     [to |-> targetOrder(c)[k], routes |-> targetRoutes(c, targetOrder(c)[k])]]
    \o <<[to |-> c.fallback, routes |-> {fallbackRoute}]>>

criterionRoute(c, id) ==
  CHOOSE i \in DOMAIN c.branches : id \in ToSet(c.branches[i].criteria)

acceptedRoute_TakesTies(r, c) ==
  LET selected == r.probabilities[CHOOSE i \in DOMAIN r.options : r.options[i] = r.selected]
  IN IF selected < c.policy.minSelected \/ r.confidence < c.policy.minConfidence
        \/ r.action > c.policy.maxAction
     THEN fallbackRoute ELSE criterionRoute(c, r.selected)

(* The selected criterion is the only one of the greatest probability, and *)
(* the three thresholds hold.                                              *)
acceptedRoute(r, c) ==
  LET greatest == Max(ToSet(r.probabilities))
      maxima == {i \in DOMAIN r.probabilities : r.probabilities[i] = greatest}
      selected == r.probabilities[CHOOSE i \in DOMAIN r.options : r.options[i] = r.selected]
  IN IF \/ Cardinality(maxima) # 1 \/ selected # greatest
        \/ selected < c.policy.minSelected
        \/ r.confidence < c.policy.minConfidence
        \/ r.action > c.policy.maxAction
     THEN fallbackRoute ELSE criterionRoute(c, r.selected)
-----------------------------------------------------------------------------
NoConfig == [branches |-> << >>, fallback |-> "nil"]

RoutingInit ==
  /\ cfg = NoConfig /\ edges = << >> /\ routes = << >>
  /\ node = "none"

NewChoiceRouting ==
  /\ node = "none" /\ status = "idle"
  /\ cfg' \in Configs
  /\ IF validateConfig(cfg')
     THEN node' = "ready" /\ edges' = newEdges(cfg')
     ELSE node' = "invalidConfig" /\ UNCHANGED edges
  /\ UNCHANGED <<routes, inferenceVars>>

(* The function of the node, in three parts: up to its call of Predict,    *)
(* the errors, and what follows the answer. Runs share no state.           *)
RunNode ==
  /\ node = "ready"
  /\ Predict(<<question(cfg)>>)
  /\ node' = "running"
  /\ UNCHANGED <<cfg, edges, routes>>

(* An ended context, a failing projector, or an error of Predict.          *)
RunNodeFails ==
  /\ node \in {"ready", "running"}
  /\ node' = "failed"
  /\ UNCHANGED <<cfg, edges, routes, inferenceVars>>

NodeRoutes ==
  /\ node = "running" /\ status = "answered"
  /\ routes' = <<acceptedRoute(results[1], cfg)>>
  /\ node' = "routed"
  /\ UNCHANGED <<cfg, edges, inferenceVars>>

RoutingNext == NewChoiceRouting \/ RunNode \/ RunNodeFails \/ NodeRoutes
-----------------------------------------------------------------------------
(***************************************************************************)
(* Properties.                                                             *)
(***************************************************************************)
Selected == results[1].selected
Taken == {k \in DOMAIN edges : ToSet(routes) \subseteq edges[k].routes}

(* Every run of the node leads to exactly one target: that of the one      *)
(* branch with the selected criterion, or the fallback, which is no        *)
(* branch's target (newChoiceRouting's checks and edges, acceptedRoute).   *)
OneTargetIsReached ==
  node = "routed" =>
    /\ Cardinality(Taken) = 1
    /\ \A k \in Taken :
         \/ edges[k].to = cfg.fallback
         \/ \E b \in ToSet(cfg.branches) :
              Selected \in ToSet(b.criteria) /\ edges[k].to = b.target
    /\ routes # <<fallbackRoute>> => \A k \in Taken : edges[k].to # cfg.fallback

(* "AcceptancePolicy prevents uncertain predictions from selecting a       *)
(* branch": a branch is reached only if its criterion is strictly the most *)
(* probable before rounding as well, and within half a step of rounding    *)
(* the thresholds hold of the exact values; and a criterion a whole step   *)
(* ahead that clears the thresholds by half a step always reaches it.      *)
UncertainGoesToFallback ==
  node = "routed" =>
    LET row == rows[1]
        best == maximumIndex(row.p)
        ahead(by) == \A j \in DOMAIN row.p \ {best} : row.p[best] >= row.p[j] + by
        clears(by) == /\ 2 * row.p[best] + by >= 2 * Unit * cfg.policy.minSelected
                      /\ 2 * row.confidence + by >= 2 * Unit * cfg.policy.minConfidence
                      /\ 2 * row.action - by <= 2 * Unit * cfg.policy.maxAction
        branch == routes # <<fallbackRoute>>
    IN /\ branch => ahead(1) /\ clears(Unit)
       /\ ahead(Unit) /\ clears(-Unit) => branch
=============================================================================
