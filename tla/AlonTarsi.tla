----------------------------- MODULE AlonTarsi -----------------------------
(***************************************************************************)
(* The Alon-Tarsi certificate (coloring/alon_tarsi.py) on the coefficient   *)
(* of the graph polynomial (coloring/polynomials.py). An orientation is a   *)
(* set of arcs <<tail, head>>.                                              *)
(***************************************************************************)
EXTENDS SimpleGraphs

NoCertificate == [arcs |-> {}, even |-> 0, odd |-> 0, coefficient |-> 0]

Product(f) == FoldFunction(LAMBDA x, y : x * y, 1, f)
Factorial[n \in Nat] == IF n = 0 THEN 1 ELSE n * Factorial[n - 1]

(***************************************************************************)
(* The coefficient of prod x_v^power[v] in prod_{u < v} (x_u - x_v), by     *)
(* interpolation at the points below power. The rationals of the code, kept *)
(* as exponents of primes, are exact: here all are over one denominator.    *)
(***************************************************************************)
\* What a point is divided by: the product of the differences to the other values.
Normalizer(power, a) ==
  Product([v \in DOMAIN power |->
             Product([k \in 0..power[v] \ {a[v]} |-> a[v] - k])])

GraphPolynomial(g, a) ==
  Product([e \in g.edges |-> LET u == Min(e)
                                 v == Max(e)
                             IN  a[u] - a[v]])

Coefficient(g, power) ==
  LET denominator == Product([v \in DOMAIN power |-> Factorial[power[v]]])
      over(w) == IF w > 0 THEN denominator \div w ELSE -(denominator \div (-w))
      points == Selections([v \in DOMAIN power |-> 0..power[v]], g.n)
      term(a) == GraphPolynomial(g, a) * over(Normalizer(power, a))
  IN  MapThenSumSet(term, {a \in points : GraphPolynomial(g, a) # 0}) \div denominator

(***************************************************************************)
(* Orientations and their spanning Eulerian subdigraphs, counted by the     *)
(* parity of their arcs.                                                    *)
(***************************************************************************)
Out(arcs, v) == Cardinality({a \in arcs : a[1] = v})
In(arcs, v) == Cardinality({a \in arcs : a[2] = v})
OutDegrees(g, arcs) == [v \in Vertices(g) |-> Out(arcs, v)]

EulerianSubgraphs(g, arcs, parity) ==
  Cardinality({S \in SUBSET arcs : /\ \A v \in Vertices(g) : Out(S, v) = In(S, v)
                                   /\ Cardinality(S) % 2 = parity})

Orientations(g) ==
  {{IF e \in reversed THEN <<Max(e), Min(e)>> ELSE <<Min(e), Max(e)>> : e \in g.edges} :
     reversed \in SUBSET g.edges}

IsOrientationOf(g, arcs) ==
  /\ Cardinality(arcs) = Cardinality(g.edges)
  /\ {{a[1], a[2]} : a \in arcs} = g.edges

CheckOrientation(g, arcs) ==
  [arcs |-> arcs, even |-> EulerianSubgraphs(g, arcs, 0),
   odd |-> EulerianSubgraphs(g, arcs, 1), coefficient |-> Coefficient(g, OutDegrees(g, arcs))]

\* One orientation for each sequence of in-degrees is looked at; the answer is an
\* AT-good one with every out-degree below the list size.
CertificateFor(g, f) ==
  LET small == {arcs \in Orientations(g) : \A v \in Vertices(g) : Out(arcs, v) < f[v]}
      indegrees == {[v \in Vertices(g) |-> In(arcs, v)] : arcs \in small}
      first(d) == CHOOSE arcs \in small : \A v \in Vertices(g) : In(arcs, v) = d[v]
      good == {d \in indegrees : Coefficient(g, OutDegrees(g, first(d))) # 0}
  IN  IF good = {} THEN NoCertificate ELSE CheckOrientation(g, first(CHOOSE d \in good : TRUE))

\* The least constant list size that has one, Alon and Tarsi's number.
Constant(g, k) == [v \in Vertices(g) |-> k]
AlonTarsiNumber(g) ==
  Min({k \in 1..(MaxDegree(g) + 1) : CertificateFor(g, Constant(g, k)) # NoCertificate})
Certificate(g) ==
  IF g.n = 0 THEN [arcs |-> {}, even |-> 1, odd |-> 0, coefficient |-> 1]
  ELSE CertificateFor(g, Constant(g, AlonTarsiNumber(g)))

VerifyCertificate(g, cert) ==
  /\ IsOrientationOf(g, cert.arcs)
  /\ cert = CheckOrientation(g, cert.arcs)
  /\ cert.coefficient # 0 /\ cert.even # cert.odd
=============================================================================
