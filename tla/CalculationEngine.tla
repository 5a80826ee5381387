-------------------------- MODULE CalculationEngine --------------------------
(***************************************************************************)
(* The calculation kernel: figures that depend on each other in an acyclic *)
(* graph, computed from inputs that may be missing.  A graph names its     *)
(* nodes in the order of their declaration, the dependencies of each, the  *)
(* operation it applies to them, and the inputs it declares.  Figures are  *)
(* whole cents.  Contexts agree (organization, period, currency, version), *)
(* since every caller makes inputs, nodes and execution from one context;  *)
(* reasons and sources of results are left out.                            *)
(***************************************************************************)
EXTENDS Integers, Sequences, FiniteSets, SequencesExt

Status == {"READY", "INCOMPLETE", "NOT_READY", "ERROR"}

Priority ==
  [s \in Status |-> CASE s = "READY" -> 0 [] s = "INCOMPLETE" -> 1
                      [] s = "NOT_READY" -> 2 [] s = "ERROR" -> 3]

(* A value goes with READY and with no other status.                       *)
Ready(v) == [status |-> "READY", value |-> v]
Blocked(s) == [status |-> s]

----------------------------------------------------------------------------
(* The graph                                                               *)

Codes(g) == ToSet(g.nodes) \cup g.external

(* A path from the code meets itself.                                      *)
FindsCycle(g, code) ==
  LET finds[path \in SUBSET Codes(g)] ==
        [c \in Codes(g) |->
          /\ c \notin g.external
          /\ c \in path \/ \E d \in ToSet(g.deps[c]) : finds[path \cup {c}][d]]
  IN finds[{}][code]

(* What the constructor accepts.                                           *)
Accepted(g) ==
  /\ IsInjective(g.nodes)
  /\ ToSet(g.nodes) \cap g.external = {}
  /\ \A c \in ToSet(g.nodes) :
       /\ ToSet(g.deps[c]) \subseteq Codes(g)
       /\ ~FindsCycle(g, c)

(* The codes of a sequence are visited one after the other.                *)
VisitAll(visit, order, codes) ==
  LET visited[i \in 0 .. Len(codes)] ==
        IF i = 0 THEN order ELSE visit[visited[i - 1]][codes[i]]
  IN visited[Len(codes)]

(* Depth first, dependencies before the node.  A path in an accepted graph *)
(* is no longer than there are nodes.                                      *)
Visit(g) ==
  LET visit[depth \in 0 .. Len(g.nodes)] ==
        [order \in Seq(Codes(g)) |-> [code \in Codes(g) |->
           IF code \in g.external \cup ToSet(order) \/ depth = 0
             THEN order
             ELSE Append(VisitAll(visit[depth - 1], order, g.deps[code]), code)]]
  IN visit[Len(g.nodes)]

TopologicalOrder(g) == VisitAll(Visit(g), <<>>, g.nodes)

----------------------------------------------------------------------------
(* Operations                                                              *)

Magnitude(n) == IF n < 0 THEN -n ELSE n

(* Half a cent goes away from zero.                                        *)
Quantized(n, d) ==
  LET cents == (200 * Magnitude(n) + Magnitude(d)) \div (2 * Magnitude(d))
  IN IF n * d < 0 THEN -cents ELSE cents

Apply(op, v) ==
  CASE op = "copy"       -> Ready(v[1])
    [] op = "subtract"   -> Ready(v[1] - v[2])
    [] op = "income"     -> Ready(v[1] + v[2] - v[3])
    [] op = "difference" -> Ready(v[1] - v[2] - v[3])
    [] op = "ratio"      -> IF v[2] = 0 THEN Blocked("ERROR") ELSE Ready(Quantized(v[1], v[2]))

(* The worst status of the dependencies that are not ready.                *)
WorstDependency(results) ==
  CHOOSE s \in Status :
    /\ s = "READY" \/ \E r \in results : r.status = s
    /\ \A r \in results : Priority[r.status] <= Priority[s]

(* A node whose dependencies have results.                                 *)
Figure(g, results, code) ==
  LET deps == [i \in DOMAIN g.deps[code] |-> results[g.deps[code][i]]]
      worst == WorstDependency(ToSet(deps))
  IN IF worst = "READY"
       THEN Apply(g.op[code], [i \in DOMAIN deps |-> deps[i].value])
       ELSE Blocked(worst)

Calculate(g, results, code) ==
  [c \in DOMAIN results \cup {code} |->
     IF c \in DOMAIN results THEN results[c] ELSE Figure(g, results, c)]

Execute(g, inputs) ==
  LET order == TopologicalOrder(g)
      results[i \in 0 .. Len(order)] ==
        IF i = 0 THEN inputs ELSE Calculate(g, results[i - 1], order[i])
  IN results[Len(order)]

=============================================================================
