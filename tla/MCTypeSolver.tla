---------------------------- MODULE MCTypeSolver ----------------------------
(***************************************************************************)
(* The solver on every four types of a small domain, two of them variables *)
(* or plain and two that hold the others, and a few with names, and two    *)
(* questions one after the other.                                          *)
(***************************************************************************)
EXTENDS TypeSolver, FiniteSets, TLC

CONSTANTS MaxAsked,          \* questions asked of the solver
          k1, k2, k3, k4     \* the keys

(***************************************************************************)
(* The reference: the smallest equivalence that holds what was asked for   *)
(* and is closed under taking types apart. <<l, k>> is the value like that *)
(* of l that k was made equal to, which no key has.                        *)
(***************************************************************************)
Nodes == (Keys \cup {p[2] : p \in asked}) \ {Never}
GivenOf(n) == IF n \in Keys THEN given[n] ELSE given[n[1]]
Parts(n, m) ==
  LET a == GivenOf(n) b == GivenOf(m)
  IN IF a.kind \in Compounds /\ a.kind = b.kind
     THEN {<<a.args[i], b.args[i]>> : i \in Shorter(a, b)} ELSE {}
Implied(f) == {p \in asked \cup UNION {Parts(n, m) : <<n, m>> \in {q \in Nodes \X Nodes : f[q[1]] = f[q[2]]}} :
                 Never \notin {p[1], p[2]} /\ f[p[1]] # f[p[2]]}
RECURSIVE Close(_)
Close(f) ==
  IF Implied(f) = {} THEN f
  ELSE LET p == CHOOSE p \in Implied(f) : TRUE
       IN Close([n \in Nodes |-> IF f[n] = f[p[1]] THEN f[p[2]] ELSE f[n]])
\* A trait's Self is the trait.
Closure == Close([n \in Nodes |-> IF GivenOf(n).kind = "ImplicitSelf" THEN GivenOf(n).args[1] ELSE n])

(* Types that are joined are the ones that have to be: everything asked    *)
(* for and everything inside it, and nothing else.                         *)
ClosureExact ==
  Idle => LET f == Closure IN \A k, l \in Keys : Unioned(Meant(k), Meant(l)) <=> f[k] = f[l]

\* The types without variables, as far as their heads go.
Concrete ==
  [name : {NoName}, kind : BuiltIns, mut : {"Not"}, len : {NoLen}, args : {<<>>}]
  \cup [name : TypeNames, kind : {"Named"}, mut : {"Not"}, len : {NoLen}, args : {<<>>}]
  \cup {v \in {given[k] : k \in Keys} : v.kind \in Compounds}
Fits(n, u) == \/ Below(u, GivenOf(n))
              \/ GivenOf(n).kind = "ImplicitSelf" /\ Below(u, given[GivenOf(n).args[1]])
Mixed(f, c) == AnyInts \subseteq {GivenOf(n).kind : n \in {n \in Nodes : f[n] = c}}
Clash(f, c) == LET C == {n \in Nodes : f[n] = c} IN ~ \E u \in Concrete : \A n \in C : Fits(n, u)

(* What is refused cannot be one type, except that an integer literal is   *)
(* not joined with a negative one.                                         *)
RefusalsExplained ==
  outcome = "error" => LET f == Closure IN \E n \in Nodes : Clash(f, f[n]) \/ Mixed(f, f[n])

(* Every question is answered.                                             *)
Answers == (work # <<>>) ~> (work = <<>>)

Plain(k) == [name |-> NoName, kind |-> k, mut |-> "Not", len |-> NoLen, args |-> <<>>]
NamedAs(n) == [Plain("Named") EXCEPT !.name = n]
RefTo(k, m) == [Plain("Ref") EXCEPT !.args = <<k>>, !.mut = m]
TupOf(s) == [Plain("Tup") EXCEPT !.args = s]
ArrayOf(k, l) == [Plain("Array") EXCEPT !.args = <<k>>, !.len = l]
FnOf(s) == [Plain("Fn") EXCEPT !.args = s]
SelfOf(k) == [Plain("ImplicitSelf") EXCEPT !.args = <<k>>]

(* Two types without parts and two with, or any four a list gives.         *)
L1 == {Plain(k) : k \in {"Any", "AnyInt"}}
L2 == {Plain(k) : k \in {"AnySignedInt", "i32", "u32"}}
C3(a, b) == {RefTo(a, "Not"), RefTo(a, "WeakMut"), TupOf(<<a, b>>), ArrayOf(a, NoLen), ArrayOf(a, 1)}
C4(a, b, c) == {RefTo(b, "Mut"), RefTo(b, "WeakMut"), RefTo(c, "Not"), TupOf(<<b, a>>), TupOf(<<b>>), TupOf(<<Never, a>>), ArrayOf(b, 2)}
MCGiven ==
  {(k1 :> a @@ k2 :> b @@ k3 :> c @@ k4 :> d) : a \in L1, b \in L2, c \in C3(k1, k2), d \in C4(k1, k2, k3)}
  \cup {(k1 :> NamedAs(n) @@ k2 :> b @@ k3 :> SelfOf(k1) @@ k4 :> Plain("Any")) : n \in {"S"}, b \in {Plain("Any"), NamedAs("T"), Plain("AnyInt"), RefTo(k4, "Not")}}
MCInit == /\ given \in MCGiven
          /\ root = [k \in Keys |-> k]
          /\ value = given /\ work = <<>> /\ downgrade = FALSE /\ outcome = "ok" /\ asked = {}
\* A type and itself, or the type of what does not return, is only asked about first.
Trivial(p) == p[1] = p[2] \/ Never \in {p[1], p[2]}
MCAsk == /\ Cardinality(asked) < MaxAsked
         /\ Ask
         /\ asked # {} => \A i \in DOMAIN work' : ~Trivial(work'[i])
MCNext == Step \/ MCAsk
MCSpec == MCInit /\ [][MCNext]_vars /\ WF_vars(Step)
=============================================================================
