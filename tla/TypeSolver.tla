---------------------------- MODULE TypeSolver ----------------------------
(***************************************************************************)
(* semantics/type_solver.rs: two types are made one by joining their       *)
(* classes in a union-find table whose classes carry a value, then by      *)
(* equating the types inside the two values as they were before.           *)
(*                                                                         *)
(* A call of eq puts a pair on the stack and each step takes one off,      *)
(* which is the order in which the recursion visits them. A value holds    *)
(* the keys of the types inside it; names stand for whole named types.     *)
(***************************************************************************)
EXTENDS Naturals, Sequences

CONSTANTS Keys,              \* keys of the table
          Never,             \* the type of what does not return, which has no key
          TypeNames, NoName, \* of structs, enums and traits; of any other type
          Signed, Unsigned,  \* the integer types
          Others             \* the other types without parts

AnyInts == {"AnyInt", "AnySignedInt"}
BuiltIns == Signed \cup Unsigned \cup Others
Compounds == {"Ref", "Tup", "Array", "Fn"}
Kinds == BuiltIns \cup AnyInts \cup Compounds \cup {"Any", "Named", "ImplicitSelf"}
RefMutability == {"Not", "Mut", "WeakMut"}
NoLen == 0
Interns == Keys \cup {Never}
Values == [name : TypeNames \cup {NoName}, kind : Kinds, mut : RefMutability,
           len : Nat, args : Seq(Interns)]

(* What a key may be given: a name says everything about its type, and     *)
(* where a type has no reference, or no length, there is only one choice.  *)
ShapeOK(v) ==
  /\ v \in Values
  /\ v.name # NoName <=> v.kind = "Named"
  /\ v.name # NoName => v.args = <<>>
  /\ v.kind # "Ref" => v.mut = "Not"
  /\ v.kind # "Array" => v.len = NoLen
  /\ v.kind \in {"Ref", "Array", "ImplicitSelf"} => Len(v.args) = 1
  /\ v.kind = "ImplicitSelf" => v.args[1] \in Keys
  /\ v.kind \notin Compounds \cup {"ImplicitSelf"} => v.args = <<>>

VARIABLES
  given,      \* key -> the value it was created with
  root,       \* key -> the key that stands for its class
  value,      \* of each such key
  work,       \* pairs to be made equal, the next one first
  downgrade,  \* whether the pair may be a & and a &mut
  outcome,    \* "ok", or "error"
  asked       \* what the calls asked for so far

table == <<root, value>>
vars == <<given, root, value, work, downgrade, outcome, asked>>

-----------------------------------------------------------------------------
(* Values *)

\* What a literal's type may still become.
CanCast(any, kind) ==
  \/ kind \in Signed \cup {"AnySignedInt"}
  \/ any = "AnyInt" /\ kind \in Unsigned \cup {"AnyInt"}

\* Mutant of MutEq.
MutEqAlways(m, n) == IF m = n THEN {m} ELSE {m, n} \ {"WeakMut"}
\* One mutability for both, if there is one.
MutEq(m, n) == IF m = n THEN {m} ELSE IF {m, n} = {"Not", "Mut"} THEN {} ELSE {m, n} \ {"WeakMut"}

\* Mutant of LenEq.
LenEqAlike(l, k) == IF l = k THEN {l} ELSE {}
LenEq(l, k) == IF l = k THEN {l} ELSE IF NoLen \in {l, k} THEN {l, k} \ {NoLen} ELSE {}

Select(a, b) == IF a = Never THEN b ELSE a
Shorter(v, w) == IF Len(v.args) <= Len(w.args) THEN DOMAIN v.args ELSE DOMAIN w.args

\* The value of a joined class, of which there may be none.
Joined(v, w) ==
  IF v.kind = "Tup" /\ Len(v.args) # Len(w.args) THEN {}
  ELSE {[v EXCEPT !.mut = m, !.len = l, !.args = [i \in Shorter(v, w) |-> Select(v.args[i], w.args[i])]] :
          m \in MutEq(v.mut, w.mut), l \in LenEq(v.len, w.len)}
UnifyValues(v, w) ==
  IF w.name # NoName THEN {w}
  ELSE IF v.name # NoName THEN {v}
  ELSE IF w.kind = "Any" THEN {v}
  ELSE IF v.kind = "Any" THEN {w}
  ELSE IF v.kind \in Compounds /\ v.kind = w.kind THEN Joined(v, w)
  ELSE IF w.kind \in AnyInts THEN {x \in {v} : CanCast(w.kind, v.kind)}
  ELSE IF v.kind \in AnyInts THEN {x \in {w} : CanCast(v.kind, w.kind)}
  ELSE {x \in {v} : v.kind \in BuiltIns /\ v.kind = w.kind}

-----------------------------------------------------------------------------
(* The table *)

Probe(k) == value[root[k]]
Unioned(k, l) == root[k] = root[l]

\* A trait's Self is compared by what it stands for.
Meant(k) == IF Probe(k).kind = "ImplicitSelf" THEN Probe(k).args[1] ELSE k

Fail == /\ outcome' = "error"
        /\ work' = <<>>
        /\ UNCHANGED table

\* Mutant of Inner.
InnerFirst(v, w) ==
  IF v.name = w.name /\ v.kind \in Compounds /\ v.kind = w.kind /\ Shorter(v, w) # {}
  THEN <<<<v.args[1], w.args[1]>>>> ELSE <<>>
\* The pairs of two values that were joined; equal names need no look inside.
Inner(v, w) ==
  IF v.name = w.name /\ v.kind \in Compounds /\ v.kind = w.kind
  THEN [i \in Shorter(v, w) |-> <<v.args[i], w.args[i]>>] ELSE <<>>
NameMismatch(v, w) == v.name # w.name /\ "Any" \notin {v.kind, w.kind}

\* Goes on with what is inside, before whatever waits.
EqInner(v, w, rest) ==
  IF NameMismatch(v, w)
  THEN outcome' = "error" /\ work' = <<>>
  ELSE work' = Inner(v, w) \o rest /\ UNCHANGED outcome

-----------------------------------------------------------------------------
(* Steps of eq *)

Left == work[1][1]
Right == work[1][2]
Rest == Tail(work)
Pending == work # <<>>

Skip == work' = Rest /\ UNCHANGED <<table, downgrade, outcome>>

EqNever ==
  /\ Pending /\ Never \in {Left, Right}
  /\ Skip
  /\ UNCHANGED <<given, asked>>
TwoKeys == Pending /\ Never \notin {Left, Right}

EqSame ==
  /\ TwoKeys
  /\ Unioned(Left, Right) \/ Unioned(Meant(Left), Meant(Right))
  /\ Skip
  /\ UNCHANGED <<given, asked>>
Apart == TwoKeys /\ ~Unioned(Left, Right) /\ ~Unioned(Meant(Left), Meant(Right))

\* A &mut is used as a &: only what they refer to has to be equal.
MayDowngrade(v, w) ==
  /\ downgrade
  /\ v.kind = "Ref" /\ w.kind = "Ref" /\ v.mut = "Not" /\ w.mut = "Mut"

EqDowngrade ==
  /\ Apart
  /\ LET v == Probe(Meant(Left)) w == Probe(Meant(Right))
     IN /\ MayDowngrade(v, w)
        /\ work' = <<<<v.args[1], w.args[1]>>>> \o Rest
        /\ asked' = asked \cup {<<v.args[1], w.args[1]>>}
  /\ downgrade' = FALSE
  /\ UNCHANGED <<given, table, outcome>>

\* Mutant of UnifyVarVar.
BindVariable(k, l, u) ==
  /\ value' = [x \in Keys |-> IF x \in {root[k], root[l]} /\ value[x].kind = "Any" THEN u ELSE value[x]]
  /\ UNCHANGED root
\* Which of two roots stays is the rank's choice, and nobody's to see.
UnifyVarVar(k, l, u) ==
  /\ root' = [x \in Keys |-> IF root[x] = root[k] THEN root[l] ELSE root[x]]
  /\ value' = [value EXCEPT ![root[l]] = u]

EqUnify ==
  /\ Apart
  /\ LET v == Probe(Meant(Left)) w == Probe(Meant(Right))
     IN /\ ~MayDowngrade(v, w)
        /\ asked' = IF downgrade THEN asked \cup {<<Left, Right>>} ELSE asked
        /\ \/ /\ UnifyValues(Probe(Left), Probe(Right)) = {}
              /\ Fail
           \/ \E u \in UnifyValues(Probe(Left), Probe(Right)) :
                /\ UnifyVarVar(Left, Right, u)
                /\ EqInner(v, w, Rest)
  /\ downgrade' = FALSE
  /\ UNCHANGED given

-----------------------------------------------------------------------------
(* Calls *)

Idle == work = <<>> /\ outcome = "ok"

\* ty_intern_eq, or ty_downgrade_eq, which asks for what its first step finds.
AskEq(k, l, d) ==
  /\ Idle
  /\ work' = <<<<k, l>>>>
  /\ downgrade' = d
  /\ asked' = IF d THEN asked ELSE asked \cup {<<k, l>>}
  /\ UNCHANGED <<given, table, outcome>>

\* type_eq: with a value no key has, here the one that l was given.
AskType(k, l) ==
  /\ Idle
  /\ k \in Keys
  /\ asked' = asked \cup {<<k, <<l, k>>>>}
  /\ \/ /\ UnifyValues(Probe(k), given[l]) = {}
        /\ Fail
     \/ \E u \in UnifyValues(Probe(k), given[l]) :
          /\ value' = [value EXCEPT ![root[k]] = u]
          /\ EqInner(Probe(k), given[l], <<>>)
          /\ UNCHANGED root
  /\ downgrade' = FALSE
  /\ UNCHANGED given

Init ==
  /\ given \in [Keys -> {v \in Values : ShapeOK(v)}]
  /\ \A k, l \in Keys : given[k].name = given[l].name => k = l \/ given[k].name = NoName
  /\ root = [k \in Keys |-> k]
  /\ value = given
  /\ work = <<>>
  /\ downgrade = FALSE
  /\ outcome = "ok"
  /\ asked = {}
Step == EqNever \/ EqSame \/ EqDowngrade \/ EqUnify
Ask == \/ \E k, l \in Interns, d \in BOOLEAN : AskEq(k, l, d)
       \/ \E k \in Keys, l \in Keys : given[l].kind \in {"Array", "Ref"} /\ AskType(k, l)
Next == Step \/ Ask
Spec == Init /\ [][Next]_vars
-----------------------------------------------------------------------------
(* Properties *)

\* A type that may still become what another one is.
Below(u, v) ==
  \/ v.kind = "Any"
  \/ v.kind = "AnyInt" /\ u.kind \in Signed \cup Unsigned \cup AnyInts
  \/ v.kind = "AnySignedInt" /\ u.kind \in Signed \cup {"AnySignedInt"}
  \/ /\ u.kind = v.kind /\ u.name = v.name
     /\ v.mut \in {"WeakMut", u.mut}
     /\ v.len \in {NoLen, u.len}
     /\ v.kind = "Tup" => Len(u.args) = Len(v.args)

(* However many joins a type took part in, what its class stands for now   *)
(* is something the type could become: no literal turned into a bool, no   *)
(* array changed its length, no & became a &mut.                           *)
MembersFit == outcome = "ok" => \A k \in Keys : Below(Probe(k), given[k])
=============================================================================
