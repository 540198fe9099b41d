---------------------------- MODULE IRCoreProofs ----------------------------
(***************************************************************************)
(* The invariants of IRCore, for any number of instructions and blocks.    *)
(***************************************************************************)
EXTENDS IRCore, SequenceLemmas

\* What the mutators maintain together.  No conjunct is inductive alone: the
\* exactness of the use lists is what makes "not in any use list" mean "named
\* by nobody" when a key is freed, and the placement is what makes clearing a
\* block remove exactly the instructions that say they stand in it.
GraphInv ==
  /\ GraphTypeOK
  /\ ValueUsesExact
  /\ BlockUsesSound
  /\ OperandShape
  /\ NoDanglingOperand

ListInv == ListTypeOK /\ PlacesExact

IInv == GraphInv /\ ListInv

UseLists(X) == [X -> [Insts -> [Slots -> Nat]]]

LEMMA RegisteredAt ==
  ASSUME NEW X, NEW U \in UseLists(X), NEW i \in Insts, NEW o
  PROVE  /\ Registered(U, i, o) \in UseLists(X)
         /\ \A x \in X, j \in Insts, s \in Slots :
              Registered(U, i, o)[x][j][s] =
                IF j = i /\ o[s] = x THEN U[x][j][s] + 1 ELSE U[x][j][s]
  BY DEF UseLists, Registered

LEMMA UnregisteredAt ==
  ASSUME NEW X, NEW U \in UseLists(X), NEW i \in Insts, NEW o
  PROVE  /\ Unregistered(U, i, o) \in UseLists(X)
         /\ \A x \in X, j \in Insts, s \in Slots :
              Unregistered(U, i, o)[x][j][s] =
                IF j = i /\ o[s] = x /\ U[x][j][s] > 0
                THEN U[x][j][s] - 1 ELSE U[x][j][s]
  BY DEF UseLists, Unregistered

LEMMA TransferredAt ==
  ASSUME NEW X, NEW U \in UseLists(X), NEW old \in X, NEW new \in X, old # new
  PROVE  /\ Transferred(U, old, new) \in UseLists(X)
         /\ \A x \in X, j \in Insts, s \in Slots :
              Transferred(U, old, new)[x][j][s] =
                IF x = old THEN 0
                ELSE IF x = new /\ U[old][j][s] > 0 THEN U[x][j][s] + 1
                ELSE U[x][j][s]
  BY DEF UseLists, Transferred, NoUses

LEMMA FreedAt ==
  ASSUME NEW X, NEW U \in UseLists(X), NEW i \in X
  PROVE  /\ Freed(U, i) \in UseLists(X)
         /\ \A x \in X, j \in Insts, s \in Slots :
              Freed(U, i)[x][j][s] = IF x = i THEN 0 ELSE U[x][j][s]
  BY DEF UseLists, Freed, NoUses

-----------------------------------------------------------------------------
(* The graph part, one lemma per mutator. *)

LEMMA InitGraph == Init => GraphInv
<1> SUFFICES ASSUME Init PROVE GraphInv
  OBVIOUS
<1> USE DEF Init, NoOperands, NoUses
<1>1. GraphTypeOK
  BY BoundsAssumption DEF GraphTypeOK, Kinds, Operands, BlockOperands, Slots
<1>2. ValueUsesExact /\ BlockUsesSound
  BY DEF ValueUsesExact, BlockUsesSound, Attached
<1>3. OperandShape /\ NoDanglingOperand
  BY DEF OperandShape, NoDanglingOperand, Attached
<1> QED
  BY <1>1, <1>2, <1>3 DEF GraphInv

LEMMA NewInstGraph ==
  ASSUME GraphInv, NEW i \in Insts, NEW k \in Kinds, NEW o \in Operands,
         NEW bo \in BlockOperands, NEW n \in 1..(MaxSlots + 1),
         NewInst(i, k, o, bo, n)
  PROVE  GraphInv'
<1> USE DEF GraphInv, GraphTypeOK, NewInst
<1>1. GraphTypeOK'
  OBVIOUS
<1>2. i \notin live /\ ~Attached(i) /\ ~Attached(i)'
  BY DEF Attached
<1>3. ValueUsesExact'
  BY <1>2 DEF ValueUsesExact, Attached
<1>4. BlockUsesSound'
  BY <1>2 DEF BlockUsesSound, Attached
<1>5. OperandShape'
  <2> SUFFICES ASSUME NEW j \in live'
               PROVE  /\ kind'[j] = "plain" => bops'[j] = NoOperands
                      /\ kind'[j] = "phi" =>
                           /\ \A s \in Slots : ops'[j][s] = None <=> bops'[j][s] = None
                           /\ \A s \in idx'[j]..MaxSlots : ops'[j][s] = None
    BY DEF OperandShape
  <2>1. CASE j # i
    <3>1. /\ j \in live /\ kind'[j] = kind[j] /\ idx'[j] = idx[j]
          /\ ops'[j] = ops[j] /\ bops'[j] = bops[j]
      BY <2>1
    <3> QED BY <3>1 DEF OperandShape
  <2>2. CASE j = i
    <3>1. kind'[j] = k /\ ops'[j] = o /\ bops'[j] = bo /\ idx'[j] = n
      BY <2>2
    <3>2. CASE k = "plain"
      BY <3>1, <3>2 DEF ShapeOK, NoOperands, BlockOperands
    <3>3. CASE k = "phi"
      <4>1. \A s \in Slots : (s < n <=> o[s] # None) /\ (s < n <=> bo[s] # None)
        BY <3>3 DEF ShapeOK
      <4> QED BY <3>1, <3>3, <4>1, BoundsAssumption DEF Slots
    <3> QED BY <3>1, <3>2, <3>3
  <2> QED BY <2>1, <2>2
<1>6. NoDanglingOperand'
  BY <1>2 DEF NoDanglingOperand, Attached, OperandsExist
<1> QED
  BY <1>1, <1>3, <1>4, <1>5, <1>6

LEMMA AppendBlockGraph ==
  ASSUME GraphInv, NEW b \in Blocks, AppendBlock(b)
  PROVE  GraphInv'
<1> USE DEF GraphInv, GraphTypeOK, AppendBlock, defs
<1>1. GraphTypeOK'
  BY DEF NoUses
<1>2. ValueUsesExact'
  BY DEF ValueUsesExact, Attached
<1>3. BlockUsesSound'
  <2> SUFFICES ASSUME NEW c \in Blocks, NEW j \in Insts, NEW s \in Slots
               PROVE  LET named == IF Attached(j)' /\ bops'[j][s] = c THEN 1 ELSE 0
                      IN /\ blockUses'[c][j][s] <= named
                         /\ kind'[j] = "phi" => blockUses'[c][j][s] = named
    BY DEF BlockUsesSound
  <2>1. Attached(j)' <=> Attached(j)
    BY DEF Attached
  <2>2. CASE c = b
    <3>1. ~(Attached(j) /\ bops[j][s] = b)
      BY DistinctKeys DEF NoDanglingOperand, OperandsExist
    <3> QED BY <2>1, <2>2, <3>1 DEF NoUses
  <2>3. CASE c # b
    BY <2>1, <2>3 DEF BlockUsesSound
  <2> QED BY <2>2, <2>3
<1>4. OperandShape'
  BY DEF OperandShape
<1>5. NoDanglingOperand'
  BY DEF NoDanglingOperand, Attached, OperandsExist
<1> QED
  BY <1>1, <1>2, <1>3, <1>4, <1>5

LEMMA AttachGraph ==
  ASSUME GraphInv, NEW b \in Blocks, NEW i \in Insts, Attach(b, i)
  PROVE  GraphInv'
<1> USE DEF GraphInv, GraphTypeOK, Attach, CanInsert, defs
<1>0. /\ uses \in UseLists(Values) /\ blockUses \in UseLists(Blocks)
      /\ i \in live /\ parent[i] = None /\ parent' = [parent EXCEPT ![i] = b]
      /\ b # None
  BY DistinctKeys DEF UseLists
<1>1. /\ uses' \in UseLists(Values)
      /\ \A x \in Values, j \in Insts, s \in Slots :
           uses'[x][j][s] = IF j = i /\ ops[i][s] = x
                            THEN uses[x][j][s] + 1 ELSE uses[x][j][s]
  BY <1>0, RegisteredAt
<1>2. /\ blockUses' \in UseLists(Blocks)
      /\ \A x \in Blocks, j \in Insts, s \in Slots :
           blockUses'[x][j][s] = IF j = i /\ bops[i][s] = x
                                 THEN blockUses[x][j][s] + 1 ELSE blockUses[x][j][s]
  BY <1>0, RegisteredAt
<1>3. /\ ~Attached(i) /\ Attached(i)'
      /\ \A j \in Insts \ {i} : Attached(j)' <=> Attached(j)
  BY <1>0 DEF Attached
<1>4. GraphTypeOK'
  BY <1>0, <1>1, <1>2 DEF UseLists
<1>5. ValueUsesExact'
  BY <1>1, <1>3 DEF ValueUsesExact
<1>6. BlockUsesSound'
  BY <1>0, <1>2, <1>3 DEF BlockUsesSound, UseLists
<1>7. OperandShape'
  BY DEF OperandShape
<1>8. NoDanglingOperand'
  BY <1>0, <1>3 DEF NoDanglingOperand, OperandsExist
<1> QED
  BY <1>4, <1>5, <1>6, <1>7, <1>8

LEMMA DetachGraph ==
  ASSUME GraphInv, NEW i \in Insts, DetachInst(i)
  PROVE  GraphInv'
<1> USE DEF GraphInv, GraphTypeOK, DetachInst, defs
<1>0. /\ uses \in UseLists(Values) /\ blockUses \in UseLists(Blocks)
      /\ parent' = [parent EXCEPT ![i] = None]
  BY DEF UseLists
<1>1. /\ uses' \in UseLists(Values)
      /\ \A x \in Values, j \in Insts, s \in Slots :
           uses'[x][j][s] = IF j = i /\ ops[i][s] = x /\ uses[x][j][s] > 0
                            THEN uses[x][j][s] - 1 ELSE uses[x][j][s]
  BY <1>0, UnregisteredAt
<1>2. /\ blockUses' \in UseLists(Blocks)
      /\ \A x \in Blocks, j \in Insts, s \in Slots :
           blockUses'[x][j][s] = IF j = i /\ bops[i][s] = x /\ blockUses[x][j][s] > 0
                                 THEN blockUses[x][j][s] - 1 ELSE blockUses[x][j][s]
  BY <1>0, UnregisteredAt
<1>3. /\ Attached(i) /\ ~Attached(i)'
      /\ \A j \in Insts \ {i} : Attached(j)' <=> Attached(j)
  BY <1>0 DEF Attached
<1>4. GraphTypeOK'
  BY <1>0, <1>1, <1>2 DEF UseLists
<1>5. ValueUsesExact'
  BY <1>1, <1>3 DEF ValueUsesExact
<1>6. BlockUsesSound'
  BY <1>0, <1>2, <1>3 DEF BlockUsesSound, UseLists
<1>7. OperandShape'
  BY DEF OperandShape
<1>8. NoDanglingOperand'
  BY <1>0, <1>3 DEF NoDanglingOperand, OperandsExist
<1> QED
  BY <1>4, <1>5, <1>6, <1>7, <1>8

\* Freeing one instruction that nothing uses: what the two erasing mutators
\* and overwrite_inst have in common.  U, O are the use lists and operands
\* once the users of i have been redirected.
LEMMA FreeGraph ==
  ASSUME GraphInv, NEW i \in Insts, Attached(i),
         NEW U \in UseLists(Values), NEW O \in [Insts -> Operands],
         \A v \in Values, j \in Insts, s \in Slots :
           U[v][j][s] = IF Attached(j) /\ O[j][s] = v THEN 1 ELSE 0,
         \A j \in Insts, s \in Slots : /\ Attached(j) => O[j][s] # i
                                       /\ O[j][s] \in {ops[j][s], Undef}
                                       /\ O[j][s] = None <=> ops[j][s] = None,
         uses' = Freed(Unregistered(U, i, O[i]), i),
         blockUses' = Unregistered(blockUses, i, bops[i]),
         Dropped({i}, O, bops),
         parent' = [parent EXCEPT ![i] = None],
         liveBlocks' = liveBlocks
  PROVE  GraphInv'
<1> USE DEF GraphInv, GraphTypeOK, Dropped
<1>0. blockUses \in UseLists(Blocks)
  BY DEF UseLists
<1>1. /\ uses' \in UseLists(Values)
      /\ \A x \in Values, j \in Insts, s \in Slots :
           uses'[x][j][s] = IF x = i \/ j = i THEN 0 ELSE U[x][j][s]
  <2>1. i \in Values
    BY DEF Values
  <2>2. /\ Unregistered(U, i, O[i]) \in UseLists(Values)
        /\ \A x \in Values, j \in Insts, s \in Slots :
             Unregistered(U, i, O[i])[x][j][s] =
               IF j = i /\ O[i][s] = x /\ U[x][j][s] > 0
               THEN U[x][j][s] - 1 ELSE U[x][j][s]
    BY UnregisteredAt
  <2> QED BY <2>1, <2>2, FreedAt
<1>2. /\ blockUses' \in UseLists(Blocks)
      /\ \A x \in Blocks, j \in Insts, s \in Slots :
           blockUses'[x][j][s] = IF j = i /\ bops[i][s] = x /\ blockUses[x][j][s] > 0
                                 THEN blockUses[x][j][s] - 1 ELSE blockUses[x][j][s]
  BY <1>0, UnregisteredAt
<1>3. /\ ~Attached(i)'
      /\ \A j \in Insts \ {i} : Attached(j)' <=> Attached(j)
      /\ \A j \in Insts \ {i} : ops'[j] = O[j] /\ bops'[j] = bops[j] /\ kind'[j] = kind[j]
      /\ kind'[i] = "plain" /\ live' = live \ {i}
      /\ \A j \in Insts \ {i} : idx'[j] = idx[j]
  BY DEF Attached
<1>4. GraphTypeOK'
  <2>1. "plain" \in Kinds /\ NoOperands \in Operands /\ NoOperands \in BlockOperands
        /\ 1 \in 1..(MaxSlots + 1)
    BY BoundsAssumption DEF Kinds, NoOperands, Operands, BlockOperands
  <2> QED BY <1>1, <1>2, <2>1 DEF UseLists
<1>5. ValueUsesExact'
  <2> SUFFICES ASSUME NEW v \in Values, NEW j \in Insts, NEW s \in Slots
               PROVE  uses'[v][j][s] = IF Attached(j)' /\ ops'[j][s] = v THEN 1 ELSE 0
    BY DEF ValueUsesExact
  <2> QED BY <1>1, <1>3
<1>6. BlockUsesSound'
  <2> SUFFICES ASSUME NEW c \in Blocks, NEW j \in Insts, NEW s \in Slots
               PROVE  LET named == IF Attached(j)' /\ bops'[j][s] = c THEN 1 ELSE 0
                      IN /\ blockUses'[c][j][s] <= named
                         /\ kind'[j] = "phi" => blockUses'[c][j][s] = named
    BY DEF BlockUsesSound
  <2> QED BY <1>0, <1>2, <1>3 DEF BlockUsesSound, UseLists
<1>7. OperandShape'
  <2> SUFFICES ASSUME NEW j \in live'
               PROVE  /\ kind'[j] = "plain" => bops'[j] = NoOperands
                      /\ kind'[j] = "phi" =>
                           /\ \A s \in Slots : ops'[j][s] = None <=> bops'[j][s] = None
                           /\ \A s \in idx'[j]..MaxSlots : ops'[j][s] = None
    BY DEF OperandShape
  <2>1. /\ j \in live /\ kind'[j] = kind[j] /\ idx'[j] = idx[j]
        /\ ops'[j] = O[j] /\ bops'[j] = bops[j]
    BY <1>3
  <2>2. /\ kind[j] = "plain" => bops[j] = NoOperands
        /\ kind[j] = "phi" =>
             /\ \A s \in Slots : ops[j][s] = None <=> bops[j][s] = None
             /\ \A s \in idx[j]..MaxSlots : ops[j][s] = None
    BY <2>1 DEF OperandShape
  <2>3. \A s \in Slots : O[j][s] = None <=> ops[j][s] = None
    BY <2>1
  <2>4. idx[j]..MaxSlots \subseteq Slots
    BY <2>1, BoundsAssumption DEF Slots
  <2> QED BY <2>1, <2>2, <2>3, <2>4
<1>8. NoDanglingOperand'
  <2> SUFFICES ASSUME NEW j \in Insts, Attached(j)', NEW s \in Slots
               PROVE  /\ parent'[j] \in liveBlocks'
                      /\ ops'[j][s] \in live' \cup Outer \cup {Undef, None}
                      /\ bops'[j][s] \in liveBlocks' \cup {None}
    BY BoundsAssumption DEF NoDanglingOperand, OperandsExist, Slots
  <2>1. j # i /\ Attached(j) /\ parent'[j] = parent[j]
    BY <1>3
  <2>2. /\ parent[j] \in liveBlocks
        /\ ops[j][s] \in live \cup Outer \cup {Undef, None}
        /\ bops[j][s] \in liveBlocks \cup {None}
    BY <2>1 DEF NoDanglingOperand, OperandsExist
  <2>3. O[j][s] # i /\ O[j][s] \in {ops[j][s], Undef}
    BY <2>1
  <2> QED BY <1>3, <2>1, <2>2, <2>3
<1> QED
  BY <1>4, <1>5, <1>6, <1>7, <1>8

LEMMA EraseGraph ==
  ASSUME GraphInv, NEW i \in Insts, EraseInstFromParent(i)
  PROVE  GraphInv'
<1>1. /\ uses \in UseLists(Values) /\ ops \in [Insts -> Operands]
      /\ \A v \in Values, j \in Insts, s \in Slots :
           uses[v][j][s] = IF Attached(j) /\ ops[j][s] = v THEN 1 ELSE 0
  BY DEF GraphInv, GraphTypeOK, UseLists, ValueUsesExact
<1>2. /\ Attached(i) /\ Unused(uses, i)
      /\ uses' = Freed(Unregistered(uses, i, ops[i]), i)
      /\ blockUses' = Unregistered(blockUses, i, bops[i])
      /\ Dropped({i}, ops, bops)
      /\ parent' = [parent EXCEPT ![i] = None] /\ liveBlocks' = liveBlocks
  BY DEF EraseInstFromParent
<1>3. \A j \in Insts, s \in Slots : /\ Attached(j) => ops[j][s] # i
                                    /\ ops[j][s] \in {ops[j][s], Undef}
                                    /\ ops[j][s] = None <=> ops[j][s] = None
  BY <1>1, <1>2 DEF Unused, Values
<1> QED
  BY <1>1, <1>2, <1>3, FreeGraph, ZenonT(100)

LEMMA EraseForcelyGraph ==
  ASSUME GraphInv, NEW i \in Insts, EraseInstFromParentForcely(i)
  PROVE  GraphInv'
<1> DEFINE U == Transferred(uses, i, Undef)
           O == Rewritten(ops, uses, i, Undef)
<1>1. /\ uses \in UseLists(Values) /\ ops \in [Insts -> Operands]
      /\ \A v \in Values, j \in Insts, s \in Slots :
           uses[v][j][s] = IF Attached(j) /\ ops[j][s] = v THEN 1 ELSE 0
  BY DEF GraphInv, GraphTypeOK, UseLists, ValueUsesExact
<1>2. i \in Values /\ Undef \in Values /\ Undef # i /\ None # i /\ None # Undef
  BY DistinctKeys DEF Values
<1>3. /\ U \in UseLists(Values)
      /\ \A x \in Values, j \in Insts, s \in Slots :
           U[x][j][s] = IF x = i THEN 0
                        ELSE IF x = Undef /\ uses[i][j][s] > 0 THEN uses[x][j][s] + 1
                        ELSE uses[x][j][s]
  BY <1>1, <1>2, TransferredAt
<1>4. /\ O \in [Insts -> Operands]
      /\ \A j \in Insts, s \in Slots :
           O[j][s] = IF uses[i][j][s] > 0 THEN Undef ELSE ops[j][s]
  <2>1. ops \in [Insts -> [Slots -> Values \cup {None}]] /\ Undef \in Values \cup {None}
    BY <1>1, <1>2 DEF Operands
  <2>2. /\ O \in [Insts -> [Slots -> Values \cup {None}]]
        /\ \A j \in Insts, s \in Slots :
             O[j][s] = IF uses[i][j][s] > 0 THEN Undef ELSE ops[j][s]
    BY <2>1 DEF Rewritten
  <2> QED BY <2>2 DEF Operands
<1>5. /\ uses' = Freed(Unregistered(U, i, O[i]), i)
      /\ blockUses' = Unregistered(blockUses, i, bops[i])
      /\ Dropped({i}, O, bops) /\ Attached(i)
      /\ parent' = [parent EXCEPT ![i] = None] /\ liveBlocks' = liveBlocks
  BY DEF EraseInstFromParentForcely
<1> HIDE DEF U, O
<1>6. \A v \in Values, j \in Insts, s \in Slots :
        U[v][j][s] = IF Attached(j) /\ O[j][s] = v THEN 1 ELSE 0
  BY <1>1, <1>2, <1>3, <1>4
<1>7. \A j \in Insts, s \in Slots : /\ Attached(j) => O[j][s] # i
                                    /\ O[j][s] \in {ops[j][s], Undef}
                                    /\ O[j][s] = None <=> ops[j][s] = None
  BY <1>1, <1>2, <1>4
<1> QED
  BY <1>3, <1>4, <1>5, <1>6, <1>7, FreeGraph, ZenonT(100)

LEMMA OverwriteGraph ==
  ASSUME GraphInv, NEW old \in Insts, NEW new \in Insts, OverwriteInst(old, new)
  PROVE  GraphInv'
<1> USE DEF GraphInv, GraphTypeOK, OverwriteInst, Dropped
<1>0. /\ uses \in UseLists(Values) /\ blockUses \in UseLists(Blocks)
      /\ parent[old] \in liveBlocks /\ None \notin liveBlocks
      /\ old \in Values /\ None \notin Values /\ old # new
  BY DistinctKeys DEF UseLists, NoDanglingOperand, Values, Attached
<1>1. /\ uses' \in UseLists(Values)
      /\ \A x \in Values, j \in Insts, s \in Slots :
           uses'[x][j][s] = IF x = old \/ j = old THEN 0 ELSE uses[x][j][s]
  <2>1. /\ Unregistered(uses, old, ops[old]) \in UseLists(Values)
        /\ \A x \in Values, j \in Insts, s \in Slots :
             Unregistered(uses, old, ops[old])[x][j][s] =
               IF j = old /\ ops[old][s] = x /\ uses[x][j][s] > 0
               THEN uses[x][j][s] - 1 ELSE uses[x][j][s]
    BY <1>0, UnregisteredAt
  <2>2. \A x \in Values, s \in Slots :
          uses[x][old][s] = IF ops[old][s] = x THEN 1 ELSE 0
    BY DEF ValueUsesExact
  <2> QED BY <1>0, <2>1, <2>2, FreedAt
<1>2. /\ blockUses' \in UseLists(Blocks)
      /\ \A x \in Blocks, j \in Insts, s \in Slots :
           blockUses'[x][j][s] = IF j = old /\ bops[old][s] = x /\ blockUses[x][j][s] > 0
                                 THEN blockUses[x][j][s] - 1 ELSE blockUses[x][j][s]
  BY <1>0, UnregisteredAt
<1>3. /\ ~Attached(old)' /\ ~Attached(new) /\ Attached(new)'
      /\ parent'[new] = parent[old]
      /\ \A j \in Insts \ {old, new} : /\ Attached(j)' <=> Attached(j)
                                       /\ parent'[j] = parent[j]
      /\ \A j \in Insts \ {old} : /\ ops'[j] = ops[j] /\ bops'[j] = bops[j]
                                  /\ kind'[j] = kind[j] /\ idx'[j] = idx[j]
      /\ kind'[old] = "plain" /\ live' = live \ {old} /\ liveBlocks' = liveBlocks
  BY <1>0 DEF Attached
<1>4. GraphTypeOK'
  <2>1. "plain" \in Kinds /\ NoOperands \in Operands /\ NoOperands \in BlockOperands
        /\ 1 \in 1..(MaxSlots + 1)
    BY BoundsAssumption DEF Kinds, NoOperands, Operands, BlockOperands
  <2> QED BY <1>1, <1>2, <2>1 DEF UseLists
<1>5. ValueUsesExact'
  <2> SUFFICES ASSUME NEW v \in Values, NEW j \in Insts, NEW s \in Slots
               PROVE  uses'[v][j][s] = IF Attached(j)' /\ ops'[j][s] = v THEN 1 ELSE 0
    BY DEF ValueUsesExact
  <2>1. CASE j = old
    BY <1>1, <1>3, <2>1
  <2>2. CASE j = new
    BY <1>0, <1>1, <1>3, <2>2 DEF ValueUsesExact
  <2>3. CASE j \notin {old, new} /\ v = old
    BY <1>0, <1>1, <1>3, <2>3 DEF ValueUsesExact, Unused
  <2>4. CASE j \notin {old, new} /\ v # old
    BY <1>1, <1>3, <2>4 DEF ValueUsesExact
  <2> QED BY <2>1, <2>2, <2>3, <2>4
<1>6. BlockUsesSound'
  <2> SUFFICES ASSUME NEW c \in Blocks, NEW j \in Insts, NEW s \in Slots
               PROVE  LET named == IF Attached(j)' /\ bops'[j][s] = c THEN 1 ELSE 0
                      IN /\ blockUses'[c][j][s] <= named
                         /\ kind'[j] = "phi" => blockUses'[c][j][s] = named
    BY DEF BlockUsesSound
  <2>1. kind'[new] = "term"
    BY <1>0, <1>3
  <2> QED BY <1>0, <1>2, <1>3, <2>1 DEF BlockUsesSound, UseLists
<1>7. OperandShape'
  BY <1>3 DEF OperandShape
<1>8. NoDanglingOperand'
  <2> SUFFICES ASSUME NEW j \in Insts, Attached(j)', NEW s \in Slots
               PROVE  /\ parent'[j] \in liveBlocks'
                      /\ ops'[j][s] \in live' \cup Outer \cup {Undef, None}
                      /\ bops'[j][s] \in liveBlocks' \cup {None}
    BY BoundsAssumption DEF NoDanglingOperand, OperandsExist, Slots
  <2>1. CASE j = new
    <3>1. bops[new][s] \in liveBlocks \cup {None}
      BY BoundsAssumption DEF Slots
    <3> QED BY <1>0, <1>3, <2>1, <3>1
  <2>2. CASE j # new
    <3>1. j # old /\ Attached(j)
      BY <1>3, <2>2
    <3>2. ops[j][s] # old
      BY <1>0, <3>1 DEF ValueUsesExact, Unused
    <3> QED BY <1>3, <2>2, <3>1, <3>2 DEF NoDanglingOperand, OperandsExist
  <2> QED BY <2>1, <2>2
<1> QED
  BY <1>4, <1>5, <1>6, <1>7, <1>8

LEMMA ReplaceAllUsesGraph ==
  ASSUME GraphInv, NEW old \in Insts, NEW new \in Values, ReplaceAllUsesWith(old, new)
  PROVE  GraphInv'
<1> USE DEF GraphInv, GraphTypeOK, ReplaceAllUsesWith, defs, places
<1>0. /\ uses \in UseLists(Values) /\ old \in Values /\ None \notin Values
      /\ \A v \in Values, j \in Insts, s \in Slots :
           uses[v][j][s] = IF Attached(j) /\ ops[j][s] = v THEN 1 ELSE 0
  BY DistinctKeys DEF UseLists, Values, ValueUsesExact
<1>1. /\ uses' \in UseLists(Values)
      /\ \A x \in Values, j \in Insts, s \in Slots :
           uses'[x][j][s] =
             IF x = old THEN 0
             ELSE IF x = new /\ uses[old][j][s] > 0 THEN uses[x][j][s] + 1
             ELSE uses[x][j][s]
  BY <1>0, TransferredAt, SMTT(60)
<1>2. /\ ops' \in [Insts -> Operands]
      /\ \A j \in Insts, s \in Slots :
           ops'[j][s] = IF Attached(j) /\ ops[j][s] = old THEN new ELSE ops[j][s]
  BY <1>0 DEF Rewritten, Operands
<1>3. \A j \in Insts : Attached(j)' <=> Attached(j)
  BY DEF Attached
<1>4. GraphTypeOK'
  BY <1>1, <1>2 DEF UseLists
<1>5. ValueUsesExact'
  BY <1>0, <1>1, <1>2, <1>3, SMTT(60) DEF ValueUsesExact
<1>6. BlockUsesSound'
  BY <1>3 DEF BlockUsesSound
<1>7. OperandShape'
  <2> SUFFICES ASSUME NEW j \in live
               PROVE  /\ kind[j] = "plain" => bops[j] = NoOperands
                      /\ kind[j] = "phi" =>
                           /\ \A s \in Slots : ops'[j][s] = None <=> bops[j][s] = None
                           /\ \A s \in idx[j]..MaxSlots : ops'[j][s] = None
    BY DEF OperandShape
  <2>1. \A s \in Slots : ops'[j][s] = None <=> ops[j][s] = None
    BY <1>0, <1>2, DistinctKeys
  <2>2. idx[j]..MaxSlots \subseteq Slots
    BY BoundsAssumption DEF Slots
  <2> QED BY <2>1, <2>2 DEF OperandShape
<1>8. NoDanglingOperand'
  BY <1>2, <1>3, ZenonT(60) DEF NoDanglingOperand, OperandsExist
<1> QED
  BY <1>4, <1>5, <1>6, <1>7, <1>8

LEMMA ReplaceAllBlockUsesGraph ==
  ASSUME GraphInv, NEW old \in Blocks, NEW new \in Blocks,
         ReplaceAllBlockUsesWith(old, new)
  PROVE  GraphInv'
<1> USE DEF GraphInv, GraphTypeOK, ReplaceAllBlockUsesWith, defs, places
<1>0. /\ blockUses \in UseLists(Blocks) /\ None \notin Blocks
      /\ \A b \in Blocks, j \in Insts, s \in Slots :
           blockUses[b][j][s] > 0 => /\ Attached(j) /\ bops[j][s] = b
                                     /\ blockUses[b][j][s] = 1
  BY DistinctKeys DEF UseLists, BlockUsesSound
<1>1. /\ blockUses' \in UseLists(Blocks)
      /\ \A x \in Blocks, j \in Insts, s \in Slots :
           blockUses'[x][j][s] =
             IF x = old THEN 0
             ELSE IF x = new /\ blockUses[old][j][s] > 0 THEN blockUses[x][j][s] + 1
             ELSE blockUses[x][j][s]
  BY <1>0, TransferredAt
<1>2. /\ bops' \in [Insts -> BlockOperands]
      /\ \A j \in Insts, s \in Slots :
           bops'[j][s] = IF blockUses[old][j][s] > 0 THEN new ELSE bops[j][s]
  BY DEF Rewritten, BlockOperands
<1>3. \A j \in Insts : Attached(j)' <=> Attached(j)
  BY DEF Attached
<1>4. GraphTypeOK'
  BY <1>1, <1>2 DEF UseLists
<1>5. ValueUsesExact'
  BY <1>3 DEF ValueUsesExact
<1>6. BlockUsesSound'
  <2> SUFFICES ASSUME NEW c \in Blocks, NEW j \in Insts, NEW s \in Slots
               PROVE  LET named == IF Attached(j)' /\ bops'[j][s] = c THEN 1 ELSE 0
                      IN /\ blockUses'[c][j][s] <= named
                         /\ kind[j] = "phi" => blockUses'[c][j][s] = named
    BY DEF BlockUsesSound
  <2>1. \A b \in Blocks :
          LET named == IF Attached(j) /\ bops[j][s] = b THEN 1 ELSE 0
          IN /\ blockUses[b][j][s] <= named
             /\ kind[j] = "phi" => blockUses[b][j][s] = named
    BY DEF BlockUsesSound
  <2>2. \A b \in Blocks : blockUses[b][j][s] \in Nat
    OBVIOUS
  <2>3. CASE blockUses[old][j][s] > 0
    <3>1. Attached(j) /\ bops[j][s] = old /\ bops'[j][s] = new
          /\ blockUses[new][j][s] = 0
      BY <1>0, <1>2, <2>1, <2>2, <2>3
    <3>2. /\ blockUses'[c][j][s] = IF c = old THEN 0
                                   ELSE IF c = new THEN 1 ELSE blockUses[c][j][s]
          /\ old # new
      BY <1>1, <2>3, <3>1
    <3> HIDE DEF GraphInv, GraphTypeOK, ReplaceAllBlockUsesWith
    <3> QED BY <1>3, <2>1, <2>2, <3>1, <3>2
  <2>4. CASE ~(blockUses[old][j][s] > 0)
    <3>1. bops'[j][s] = bops[j][s] /\ blockUses[old][j][s] = 0
      BY <1>2, <2>2, <2>4
    <3>2. blockUses'[c][j][s] = IF c = old THEN 0 ELSE blockUses[c][j][s]
      BY <1>1, <2>4
    <3>3. blockUses'[c][j][s] = blockUses[c][j][s]
      BY <3>1, <3>2
    <3> HIDE DEF GraphInv, GraphTypeOK, ReplaceAllBlockUsesWith
    <3> QED BY <1>3, <2>1, <3>1, <3>3
  <2> QED BY <2>3, <2>4
<1>7. OperandShape'
  <2> SUFFICES ASSUME NEW j \in live
               PROVE  /\ kind[j] = "plain" => bops'[j] = NoOperands
                      /\ kind[j] = "phi" =>
                           /\ \A s \in Slots : ops[j][s] = None <=> bops'[j][s] = None
                           /\ \A s \in idx[j]..MaxSlots : ops[j][s] = None
    BY DEF OperandShape
  <2>1. \A s \in Slots : bops'[j][s] = None <=> bops[j][s] = None
    BY <1>0, <1>2, SMTT(60)
  <2>2. /\ bops'[j] \in [Slots -> Blocks \cup {None}]
        /\ bops[j] \in [Slots -> Blocks \cup {None}]
    BY <1>2 DEF BlockOperands
  <2>3. ASSUME bops[j] = NoOperands PROVE bops'[j] = NoOperands
    BY <2>1, <2>2, <2>3 DEF NoOperands
  <2> QED BY <2>1, <2>3 DEF OperandShape
<1>8. NoDanglingOperand'
  BY <1>2, <1>3 DEF NoDanglingOperand, OperandsExist
<1> QED
  BY <1>4, <1>5, <1>6, <1>7, <1>8

LEMMA ReplaceBlockOperandGraph ==
  ASSUME GraphInv, NEW i \in Insts, NEW s \in Slots, NEW new \in Blocks,
         ReplaceBlockOperand(i, s, new)
  PROVE  GraphInv'
<1> USE DEF GraphInv, GraphTypeOK, ReplaceBlockOperand, defs, places
<1> DEFINE b == bops[i][s]
<1>0. b \in Blocks /\ Attached(i) /\ kind[i] = "phi" /\ None \notin Blocks
  BY DistinctKeys DEF BlockOperands
<1>1. /\ bops' \in [Insts -> BlockOperands]
      /\ \A j \in Insts, t \in Slots :
           bops'[j][t] = IF j = i /\ t = s THEN new ELSE bops[j][t]
  BY DEF BlockOperands
<1>2. /\ blockUses' \in UseLists(Blocks)
      /\ \A x \in Blocks, j \in Insts, t \in Slots :
           blockUses'[x][j][t] =
             IF j = i /\ t = s
             THEN IF x = new THEN (IF b = new THEN 0 ELSE blockUses[new][i][s]) + 1
                  ELSE IF x = b THEN 0 ELSE blockUses[x][j][t]
             ELSE blockUses[x][j][t]
  <2> DEFINE V == [blockUses EXCEPT ![b][i][s] = 0]
  <2>1. /\ V \in UseLists(Blocks)
        /\ \A x \in Blocks, j \in Insts, t \in Slots :
             V[x][j][t] = IF x = b /\ j = i /\ t = s THEN 0 ELSE blockUses[x][j][t]
    BY <1>0 DEF UseLists
  <2>2. blockUses' = [V EXCEPT ![new][i][s] = @ + 1]
    OBVIOUS
  <2> HIDE DEF V, b, GraphInv, GraphTypeOK, ReplaceBlockOperand
  <2>3. /\ blockUses' \in UseLists(Blocks)
        /\ \A x \in Blocks, j \in Insts, t \in Slots :
             blockUses'[x][j][t] = IF x = new /\ j = i /\ t = s
                                   THEN V[x][j][t] + 1 ELSE V[x][j][t]
    BY <2>1, <2>2 DEF UseLists
  <2> QED BY <2>1, <2>3
<1>3. \A j \in Insts : Attached(j)' <=> Attached(j)
  BY SMTT(60) DEF Attached
<1>4. GraphTypeOK'
  BY <1>1, <1>2 DEF UseLists
<1>5. ValueUsesExact'
  BY <1>3 DEF ValueUsesExact
<1>6. BlockUsesSound'
  <2> SUFFICES ASSUME NEW x \in Blocks, NEW j \in Insts, NEW t \in Slots
               PROVE  LET named == IF Attached(j)' /\ bops'[j][t] = x THEN 1 ELSE 0
                      IN /\ blockUses'[x][j][t] <= named
                         /\ kind[j] = "phi" => blockUses'[x][j][t] = named
    BY ZenonT(60) DEF BlockUsesSound
  <2>1. \A y \in Blocks :
          LET named == IF Attached(j) /\ bops[j][t] = y THEN 1 ELSE 0
          IN /\ blockUses[y][j][t] <= named
             /\ kind[j] = "phi" => blockUses[y][j][t] = named
    BY DEF BlockUsesSound
  <2>2. b = bops[i][s]
    OBVIOUS
  <2> HIDE DEF b, GraphInv, GraphTypeOK, ReplaceBlockOperand
  <2>3. CASE j = i /\ t = s
    <3>1. /\ bops'[j][t] = new /\ Attached(j)' /\ kind[j] = "phi"
          /\ blockUses[new][i][s] = IF b = new THEN 1 ELSE 0
          /\ blockUses[x][i][s] = IF b = x THEN 1 ELSE 0
      BY <1>0, <1>1, <1>3, <2>1, <2>2, <2>3
    <3>2. blockUses'[x][j][t] =
             IF x = new THEN (IF b = new THEN 0 ELSE blockUses[new][i][s]) + 1
             ELSE IF x = b THEN 0 ELSE blockUses[x][j][t]
      BY <1>2, <2>3
    <3> QED BY <2>3, <3>1, <3>2
  <2>4. CASE ~(j = i /\ t = s)
    <3>1. bops'[j][t] = bops[j][t] /\ blockUses'[x][j][t] = blockUses[x][j][t]
      BY <1>1, <1>2, <2>4
    <3> QED BY <1>3, <2>1, <3>1
  <2> QED BY <2>3, <2>4, SMTT(60)
<1> HIDE DEF b
<1>7. OperandShape'
  <2> SUFFICES ASSUME NEW j \in live
               PROVE  /\ kind[j] = "plain" => bops'[j] = NoOperands
                      /\ kind[j] = "phi" =>
                           /\ \A t \in Slots : ops[j][t] = None <=> bops'[j][t] = None
                           /\ \A t \in idx[j]..MaxSlots : ops[j][t] = None
    BY DEF OperandShape
  <2>0. b = bops[i][s]
    BY DEF b
  <2>1. \A t \in Slots : bops'[j][t] = None <=> bops[j][t] = None
    BY <1>0, <1>1, <2>0
  <2>2. kind[j] = "plain" => bops'[j] = bops[j]
    BY <1>0
  <2> QED BY <2>1, <2>2 DEF OperandShape
<1>8. NoDanglingOperand'
  BY <1>1, <1>3 DEF NoDanglingOperand, OperandsExist
<1> QED
  BY <1>4, <1>5, <1>6, <1>7, <1>8

LEMMA PhiAddGraph ==
  ASSUME GraphInv, NEW i \in Insts, NEW b \in Blocks, NEW v \in Values,
         PhiAddIncoming(i, b, v)
  PROVE  GraphInv'
<1> USE DEF GraphInv, GraphTypeOK, PhiAddIncoming, defs, places
<1> DEFINE n == idx[i]
<1>0. /\ Attached(i) /\ i \in live /\ kind[i] = "phi" /\ n \in Slots /\ n \in Int
      /\ None \notin Blocks /\ None \notin Values
      /\ ops[i][n] = None /\ bops[i][n] = None
  <2>1. /\ i \in live /\ kind[i] = "phi" /\ n \in Slots /\ n \in n..MaxSlots
    BY BoundsAssumption DEF Slots, Attached
  <2> QED BY <2>1, DistinctKeys, BoundsAssumption DEF OperandShape, Values, Slots
<1>1. /\ ops' \in [Insts -> Operands] /\ bops' \in [Insts -> BlockOperands]
      /\ idx' \in [Insts -> 1..(MaxSlots + 1)]
      /\ \A j \in Insts, t \in Slots :
           /\ ops'[j][t] = IF j = i /\ t = n THEN v ELSE ops[j][t]
           /\ bops'[j][t] = IF j = i /\ t = n THEN b ELSE bops[j][t]
      /\ \A j \in Insts : idx'[j] = IF j = i THEN n + 1 ELSE idx[j]
  <2>1. /\ ops' \in [Insts -> Operands]
        /\ \A j \in Insts, t \in Slots :
             ops'[j][t] = IF j = i /\ t = n THEN v ELSE ops[j][t]
    BY <1>0 DEF Operands
  <2>2. /\ bops' \in [Insts -> BlockOperands]
        /\ \A j \in Insts, t \in Slots :
             bops'[j][t] = IF j = i /\ t = n THEN b ELSE bops[j][t]
    BY <1>0 DEF BlockOperands
  <2>3. n + 1 \in 1..(MaxSlots + 1)
    BY <1>0, BoundsAssumption DEF Slots
  <2>4. /\ idx' \in [Insts -> 1..(MaxSlots + 1)]
        /\ \A j \in Insts : idx'[j] = IF j = i THEN n + 1 ELSE idx[j]
    BY <2>3
  <2> QED BY <2>1, <2>2, <2>4
<1>2. /\ uses' \in UseLists(Values)
      /\ \A x \in Values, j \in Insts, t \in Slots :
           uses'[x][j][t] = IF x = v /\ j = i /\ t = n THEN uses[x][j][t] + 1
                            ELSE uses[x][j][t]
  BY <1>0 DEF UseLists
<1>3. /\ blockUses' \in UseLists(Blocks)
      /\ \A x \in Blocks, j \in Insts, t \in Slots :
           blockUses'[x][j][t] = IF x = b /\ j = i /\ t = n
                                 THEN blockUses[x][j][t] + 1 ELSE blockUses[x][j][t]
  BY <1>0 DEF UseLists
<1>4. \A j \in Insts : Attached(j)' <=> Attached(j)
  BY DEF Attached
<1>5. GraphTypeOK'
  BY <1>1, <1>2, <1>3 DEF UseLists
<1> HIDE DEF n
<1>6. ValueUsesExact'
  <2> SUFFICES ASSUME NEW x \in Values, NEW j \in Insts, NEW t \in Slots
               PROVE  uses'[x][j][t] = IF Attached(j)' /\ ops'[j][t] = x THEN 1 ELSE 0
    BY DEF ValueUsesExact
  <2>1. uses[x][j][t] = IF Attached(j) /\ ops[j][t] = x THEN 1 ELSE 0
    BY DEF ValueUsesExact
  <2> HIDE DEF GraphInv, GraphTypeOK, PhiAddIncoming
  <2> QED BY <1>0, <1>1, <1>2, <1>4, <2>1
<1>7. BlockUsesSound'
  <2> SUFFICES ASSUME NEW x \in Blocks, NEW j \in Insts, NEW t \in Slots
               PROVE  LET named == IF Attached(j)' /\ bops'[j][t] = x THEN 1 ELSE 0
                      IN /\ blockUses'[x][j][t] <= named
                         /\ kind[j] = "phi" => blockUses'[x][j][t] = named
    BY DEF BlockUsesSound
  <2>1. LET named == IF Attached(j) /\ bops[j][t] = x THEN 1 ELSE 0
        IN /\ blockUses[x][j][t] <= named
           /\ kind[j] = "phi" => blockUses[x][j][t] = named
    BY DEF BlockUsesSound
  <2>2. blockUses[x][j][t] \in Nat
    OBVIOUS
  <2> HIDE DEF GraphInv, GraphTypeOK, PhiAddIncoming
  <2> QED BY <1>0, <1>1, <1>3, <1>4, <2>1, <2>2
<1>8. OperandShape'
  <2> SUFFICES ASSUME NEW j \in live
               PROVE  /\ kind[j] = "plain" => bops'[j] = NoOperands
                      /\ kind[j] = "phi" =>
                           /\ \A t \in Slots : ops'[j][t] = None <=> bops'[j][t] = None
                           /\ \A t \in idx'[j]..MaxSlots : ops'[j][t] = None
    BY DEF OperandShape
  <2>1. CASE j # i
    <3>1. ops'[j] = ops[j] /\ bops'[j] = bops[j] /\ idx'[j] = idx[j]
      BY <2>1
    <3> QED BY <3>1 DEF OperandShape
  <2>2. CASE j = i
    <3>1. \A t \in Slots : ops'[j][t] = None <=> bops'[j][t] = None
      BY <1>0, <1>1, <2>2 DEF OperandShape
    <3>2. ASSUME NEW t \in idx'[j]..MaxSlots PROVE ops'[j][t] = None
      <4>1. t \in Slots /\ t # n /\ t \in idx[i]..MaxSlots
        BY <1>0, <1>1, <2>2, BoundsAssumption, SMTT(60) DEF Slots, n
      <4> QED BY <1>0, <1>1, <2>2, <4>1 DEF OperandShape
    <3> QED BY <1>0, <2>2, <3>1, <3>2
  <2> QED BY <2>1, <2>2
<1>9. NoDanglingOperand'
  BY <1>1, <1>4 DEF NoDanglingOperand, OperandsExist
<1> QED
  BY <1>5, <1>6, <1>7, <1>8, <1>9

LEMMA PhiRemoveGraph ==
  ASSUME GraphInv, NEW i \in Insts, NEW s \in Slots, PhiRemoveIncomingFrom(i, s)
  PROVE  GraphInv'
<1> USE DEF GraphInv, GraphTypeOK, PhiRemoveIncomingFrom, defs, places
<1> DEFINE v == ops[i][s]
           b == bops[i][s]
<1>0. /\ Attached(i) /\ i \in live /\ kind[i] = "phi" /\ v \in Values /\ b \in Blocks
      /\ None \notin Blocks /\ None \notin Values
  BY DistinctKeys DEF OperandShape, Attached, Operands, BlockOperands, Values
<1>1. /\ ops' \in [Insts -> Operands] /\ bops' \in [Insts -> BlockOperands]
      /\ \A j \in Insts, t \in Slots :
           /\ ops'[j][t] = IF j = i /\ t = s THEN None ELSE ops[j][t]
           /\ bops'[j][t] = IF j = i /\ t = s THEN None ELSE bops[j][t]
  BY DEF BlockOperands, Operands
<1>2. /\ uses' \in UseLists(Values)
      /\ \A x \in Values, j \in Insts, t \in Slots :
           uses'[x][j][t] = IF x = v /\ j = i /\ t = s THEN 0 ELSE uses[x][j][t]
  BY <1>0 DEF UseLists
<1>3. /\ blockUses' \in UseLists(Blocks)
      /\ \A x \in Blocks, j \in Insts, t \in Slots :
           blockUses'[x][j][t] = IF x = b /\ j = i /\ t = s THEN 0
                                 ELSE blockUses[x][j][t]
  BY <1>0 DEF UseLists
<1>4. \A j \in Insts : Attached(j)' <=> Attached(j)
  BY DEF Attached
<1>5. GraphTypeOK'
  BY <1>1, <1>2, <1>3 DEF UseLists
<1>6. ValueUsesExact'
  BY <1>0, <1>1, <1>2, <1>4 DEF ValueUsesExact
<1>7. BlockUsesSound'
  BY <1>0, <1>1, <1>3, <1>4 DEF BlockUsesSound
<1>8. OperandShape'
  <2> SUFFICES ASSUME NEW j \in live
               PROVE  /\ kind[j] = "plain" => bops'[j] = NoOperands
                      /\ kind[j] = "phi" =>
                           /\ \A t \in Slots : ops'[j][t] = None <=> bops'[j][t] = None
                           /\ \A t \in idx[j]..MaxSlots : ops'[j][t] = None
    BY DEF OperandShape
  <2>1. kind[j] = "plain" => bops'[j] = bops[j]
    BY <1>0
  <2>2. idx[j]..MaxSlots \subseteq Slots
    BY BoundsAssumption DEF Slots
  <2> QED BY <1>1, <2>1, <2>2 DEF OperandShape
<1>9. NoDanglingOperand'
  BY <1>1, <1>4 DEF NoDanglingOperand, OperandsExist
<1> QED
  BY <1>5, <1>6, <1>7, <1>8, <1>9

LEMMA EraseBlocksGraph ==
  ASSUME GraphInv, NEW Bs \in SUBSET Blocks, EraseBlocks(Bs)
  PROVE  GraphInv'
<1> DEFINE D == {i \in live : parent[i] \in Bs}
           InD(j, s) == ops[j][s] \in D /\ uses[ops[j][s]][j][s] > 0
           Drops(j, s) == j \notin D /\ kind[j] = "phi"
                          /\ \E b \in Bs : blockUses[b][j][s] > 0
<1>0. /\ None \notin Blocks /\ None \notin Values /\ Undef \in Values
      /\ Undef \notin Insts /\ live \subseteq Insts /\ D \subseteq live
      /\ Insts \subseteq Values /\ None \notin liveBlocks
  BY DistinctKeys DEF Values, GraphInv, GraphTypeOK
<1>1. /\ kind \in [Insts -> Kinds] /\ parent \in [Insts -> Blocks \cup {None}]
      /\ ops \in [Insts -> Operands] /\ bops \in [Insts -> BlockOperands]
      /\ idx \in [Insts -> 1..(MaxSlots + 1)] /\ liveBlocks \subseteq Blocks
      /\ uses \in UseLists(Values) /\ blockUses \in UseLists(Blocks)
  BY DEF GraphInv, GraphTypeOK, UseLists
<1>2. /\ live' = live \ D /\ liveBlocks' = liveBlocks \ Bs
      /\ kind' = [i \in Insts |-> IF i \in D THEN "plain" ELSE kind[i]]
      /\ idx' = [i \in Insts |-> IF i \in D THEN 1 ELSE idx[i]]
      /\ parent' = [i \in Insts |-> IF i \in D THEN None ELSE parent[i]]
      /\ ops' = [j \in Insts |-> IF j \in D THEN NoOperands ELSE
                  [s \in Slots |-> IF Drops(j, s) THEN None
                                   ELSE IF InD(j, s) THEN Undef ELSE ops[j][s]]]
      /\ bops' = [j \in Insts |-> IF j \in D THEN NoOperands ELSE
                   [s \in Slots |-> IF Drops(j, s) THEN None ELSE bops[j][s]]]
  BY DEF EraseBlocks, Dropped
<1>3. uses' = [v \in Values |-> [j \in Insts |-> [s \in Slots |->
                IF j \in D \/ v \in D \/ Drops(j, s) THEN 0
                ELSE IF v = Undef /\ InD(j, s) THEN uses[v][j][s] + 1
                ELSE uses[v][j][s]]]]
  BY DEF EraseBlocks
<1>4. blockUses' = [b \in Blocks |-> [j \in Insts |-> [s \in Slots |->
                     IF j \in D \/ b \in Bs \/ Drops(j, s) THEN 0
                     ELSE blockUses[b][j][s]]]]
  BY DEF EraseBlocks
<1>5. \A v \in Values, j \in Insts, s \in Slots :
         uses[v][j][s] = IF Attached(j) /\ ops[j][s] = v THEN 1 ELSE 0
  BY DEF GraphInv, ValueUsesExact
<1>6. \A b \in Blocks, j \in Insts, s \in Slots :
         /\ blockUses[b][j][s] > 0 => Attached(j) /\ bops[j][s] = b
         /\ kind[j] = "phi" /\ Attached(j) /\ bops[j][s] = b => blockUses[b][j][s] > 0
  BY <1>1 DEF GraphInv, BlockUsesSound, UseLists
<1>7. \A j \in Insts : /\ Attached(j)' <=> Attached(j) /\ j \notin D
                       /\ Attached(j)' => j \in live /\ parent'[j] = parent[j]
                                          /\ parent[j] \notin Bs
  BY <1>1, <1>2 DEF Attached
<1>8. \A j \in Insts, s \in Slots :
         /\ InD(j, s) <=> Attached(j) /\ ops[j][s] \in D
         /\ Drops(j, s) <=> /\ j \notin D /\ kind[j] = "phi" /\ Attached(j)
                            /\ bops[j][s] \in Bs
  BY <1>0, <1>5, <1>6
<1>9. \A j \in live \ D, s \in Slots :
         Attached(j) /\ kind[j] = "term" => bops[j][s] \notin Bs
  BY DEF EraseBlocks
<1>10. OperandShape /\ NoDanglingOperand
  BY DEF GraphInv
<1>11. \A j \in Insts, s \in Slots : j \notin D =>
         /\ ops'[j][s] = IF Drops(j, s) THEN None
                         ELSE IF InD(j, s) THEN Undef ELSE ops[j][s]
         /\ bops'[j][s] = IF Drops(j, s) THEN None ELSE bops[j][s]
  BY <1>2
<1> HIDE DEF InD, Drops, D
<1>12. GraphTypeOK'
  <2>1. NoOperands \in Operands /\ NoOperands \in BlockOperands
    BY DEF NoOperands, Operands, BlockOperands
  <2>2. ASSUME NEW j \in Insts
        PROVE  /\ [s \in Slots |-> IF Drops(j, s) THEN None
                    ELSE IF InD(j, s) THEN Undef ELSE ops[j][s]] \in Operands
               /\ [s \in Slots |-> IF Drops(j, s) THEN None
                                   ELSE bops[j][s]] \in BlockOperands
    BY <1>0, <1>1 DEF Operands, BlockOperands
  <2>3. ops' \in [Insts -> Operands] /\ bops' \in [Insts -> BlockOperands]
    BY <1>2, <2>1, <2>2
  <2>4. uses' \in [Values -> [Insts -> [Slots -> Nat]]]
    BY <1>1, <1>3 DEF UseLists
  <2>5. blockUses' \in [Blocks -> [Insts -> [Slots -> Nat]]]
    BY <1>1, <1>4 DEF UseLists
  <2>6. /\ kind' \in [Insts -> Kinds] /\ parent' \in [Insts -> Blocks \cup {None}]
        /\ idx' \in [Insts -> 1..(MaxSlots + 1)]
        /\ live' \subseteq Insts /\ liveBlocks' \subseteq Blocks
    BY <1>0, <1>1, <1>2, BoundsAssumption DEF Kinds
  <2> QED BY <2>3, <2>4, <2>5, <2>6 DEF GraphTypeOK
<1>13. ValueUsesExact'
  <2> SUFFICES ASSUME NEW v \in Values, NEW j \in Insts, NEW s \in Slots
               PROVE  uses'[v][j][s] = IF Attached(j)' /\ ops'[j][s] = v THEN 1 ELSE 0
    BY DEF ValueUsesExact
  <2>1. uses'[v][j][s] = IF j \in D \/ v \in D \/ Drops(j, s) THEN 0
                         ELSE IF v = Undef /\ InD(j, s) THEN uses[v][j][s] + 1
                         ELSE uses[v][j][s]
    BY <1>3
  <2>2. uses[v][j][s] = IF Attached(j) /\ ops[j][s] = v THEN 1 ELSE 0
    BY <1>5
  <2>3. Undef \notin D
    BY <1>0
  <2>4. CASE j \in D
    BY <1>7, <2>1, <2>4
  <2>5. CASE j \notin D
    <3>1. /\ ops'[j][s] = IF Drops(j, s) THEN None
                          ELSE IF InD(j, s) THEN Undef ELSE ops[j][s]
          /\ InD(j, s) <=> Attached(j) /\ ops[j][s] \in D
          /\ Attached(j)' <=> Attached(j)
      BY <1>7, <1>8, <1>11, <2>5
    <3> QED BY <1>0, <2>1, <2>2, <2>3, <2>5, <3>1
  <2> QED BY <2>4, <2>5
<1>14. BlockUsesSound'
  <2> SUFFICES ASSUME NEW c \in Blocks, NEW j \in Insts, NEW s \in Slots
               PROVE  LET named == IF Attached(j)' /\ bops'[j][s] = c THEN 1 ELSE 0
                      IN /\ blockUses'[c][j][s] <= named
                         /\ kind'[j] = "phi" => blockUses'[c][j][s] = named
    BY DEF BlockUsesSound
  <2>1. blockUses'[c][j][s] = IF j \in D \/ c \in Bs \/ Drops(j, s) THEN 0
                              ELSE blockUses[c][j][s]
    BY <1>4
  <2>2. LET named == IF Attached(j) /\ bops[j][s] = c THEN 1 ELSE 0
        IN /\ blockUses[c][j][s] <= named
           /\ kind[j] = "phi" => blockUses[c][j][s] = named
    BY DEF GraphInv, BlockUsesSound
  <2>3. CASE j \in D
    BY <1>7, <2>1, <2>3
  <2>4. CASE j \notin D
    <3>1. /\ bops'[j][s] = IF Drops(j, s) THEN None ELSE bops[j][s]
          /\ kind'[j] = kind[j]
          /\ Drops(j, s) <=> kind[j] = "phi" /\ Attached(j) /\ bops[j][s] \in Bs
          /\ Attached(j)' <=> Attached(j)
      BY <1>2, <1>7, <1>8, <1>11, <2>4
    <3> QED BY <1>0, <2>1, <2>2, <2>4, <3>1
  <2> QED BY <2>3, <2>4
<1>15. OperandShape'
  <2> SUFFICES ASSUME NEW j \in live'
               PROVE  /\ kind'[j] = "plain" => bops'[j] = NoOperands
                      /\ kind'[j] = "phi" =>
                           /\ \A s \in Slots : ops'[j][s] = None <=> bops'[j][s] = None
                           /\ \A s \in idx'[j]..MaxSlots : ops'[j][s] = None
    BY DEF OperandShape
  <2>1. j \in live /\ j \notin D /\ j \in Insts /\ kind'[j] = kind[j] /\ idx'[j] = idx[j]
    BY <1>0, <1>2
  <2>2. \A s \in Slots :
          /\ ops'[j][s] = IF Drops(j, s) THEN None
                          ELSE IF InD(j, s) THEN Undef ELSE ops[j][s]
          /\ bops'[j][s] = IF Drops(j, s) THEN None ELSE bops[j][s]
          /\ InD(j, s) => ops[j][s] # None
    BY <1>0, <1>8, <1>11, <2>1
  <2>3. ASSUME kind[j] = "plain" PROVE bops'[j] = NoOperands
    <3>1. bops[j] = NoOperands /\ \A s \in Slots : ~Drops(j, s)
      BY <1>8, <1>10, <2>1, <2>3 DEF OperandShape
    <3>2. bops'[j] = [s \in Slots |-> IF Drops(j, s) THEN None ELSE bops[j][s]]
      BY <1>2, <2>1
    <3> QED BY <3>1, <3>2 DEF NoOperands
  <2>4. ASSUME kind[j] = "phi"
        PROVE  \A s \in Slots : ops'[j][s] = None <=> bops'[j][s] = None
    BY <1>0, <1>10, <2>1, <2>2, <2>4 DEF OperandShape
  <2>5. ASSUME kind[j] = "phi", NEW s \in idx[j]..MaxSlots PROVE ops'[j][s] = None
    <3>1. s \in Slots
      BY <1>1, <2>1, BoundsAssumption DEF Slots
    <3>2. ops[j][s] = None
      BY <1>10, <2>1, <2>5 DEF OperandShape
    <3> QED BY <2>2, <3>1, <3>2
  <2> QED BY <2>1, <2>3, <2>4, <2>5
<1>16. NoDanglingOperand'
  <2> SUFFICES ASSUME NEW j \in Insts, Attached(j)', NEW s \in Slots
               PROVE  /\ parent'[j] \in liveBlocks'
                      /\ ops'[j][s] \in live' \cup Outer \cup {Undef, None}
                      /\ bops'[j][s] \in liveBlocks' \cup {None}
    BY BoundsAssumption DEF NoDanglingOperand, OperandsExist, Slots
  <2>1. Attached(j) /\ j \notin D /\ j \in live /\ parent'[j] = parent[j]
        /\ parent[j] \notin Bs
    BY <1>7
  <2>2. /\ parent[j] \in liveBlocks
        /\ ops[j][s] \in live \cup Outer \cup {Undef, None}
        /\ bops[j][s] \in liveBlocks \cup {None}
    BY <1>10, <2>1 DEF NoDanglingOperand, OperandsExist
  <2>3. /\ ops'[j][s] = IF Drops(j, s) THEN None
                        ELSE IF InD(j, s) THEN Undef ELSE ops[j][s]
        /\ bops'[j][s] = IF Drops(j, s) THEN None ELSE bops[j][s]
        /\ InD(j, s) <=> ops[j][s] \in D
        /\ Drops(j, s) <=> kind[j] = "phi" /\ bops[j][s] \in Bs
    BY <1>8, <1>11, <2>1
  <2>4. bops[j][s] \in Bs => kind[j] = "phi"
    <3>1. kind[j] \in {"phi", "plain", "term"}
      BY <1>1 DEF Kinds
    <3>2. kind[j] = "plain" => bops[j][s] = None
      BY <1>10, <2>1 DEF OperandShape, NoOperands
    <3> QED BY <1>0, <1>9, <2>1, <3>1, <3>2
  <2> QED BY <1>2, <2>1, <2>2, <2>3, <2>4
<1> QED
  BY <1>12, <1>13, <1>14, <1>15, <1>16 DEF GraphInv

-----------------------------------------------------------------------------
(* The placement part: which list an instruction stands in. *)

LEMMA IndexInProperties ==
  ASSUME NEW S, NEW s \in Seq(S), NEW i \in ToSet(s)
  PROVE  /\ IndexIn(s, i) \in 1..Len(s)
         /\ s[IndexIn(s, i)] = i
<1>1. \E p \in DOMAIN s : s[p] = i
  BY DEF ToSet
<1>2. DOMAIN s = 1..Len(s)
  OBVIOUS
<1> QED
  BY <1>1, <1>2 DEF IndexIn

LEMMA WithoutProperties ==
  ASSUME NEW S, NEW s \in Seq(S), NEW i \in ToSet(s), IsInjective(s)
  PROVE  /\ Without(s, i) \in Seq(S)
         /\ IsInjective(Without(s, i))
         /\ ToSet(Without(s, i)) = ToSet(s) \ {i}
<1>1. IndexIn(s, i) \in 1..Len(s) /\ s[IndexIn(s, i)] = i
  BY IndexInProperties
<1>2. Without(s, i) = RemoveAt(s, IndexIn(s, i))
  BY DEF Without
<1> HIDE DEF IndexIn, Without
<1> QED
  BY <1>1, <1>2, RemoveOne

\* No list, parent, kind or instruction changes: neither does the placement.
LEMMA SameLists ==
  ASSUME ListInv, UNCHANGED <<live, kind, parent, phis, insts, term>>
  PROVE  ListInv'
  BY DEF ListInv, ListTypeOK, PlacesExact, Members

LEMMA Leaves ==
  ASSUME NEW i \in Insts, GraphTypeOK, Attached(i),
         parent' = [parent EXCEPT ![i] = None], live' \in {live, live \ {i}},
         \A j \in Insts \ {i} : kind'[j] = kind[j]
  PROVE  \A k \in Kinds, c \in Blocks :
           Members(k, c)' = IF k = kind[i] /\ c = parent[i]
                            THEN Members(k, c) \ {i} ELSE Members(k, c)
  BY DistinctKeys DEF GraphTypeOK, Members, Attached

\* Attaching an instruction grows exactly the list its class is kept in.
LEMMA AttachLists ==
  ASSUME ListInv, GraphInv, NEW b \in Blocks, NEW i \in Insts, Attach(b, i),
         NEW P, NEW I,
         P \in Seq(Insts) /\ IsInjective(P) /\ I \in Seq(Insts) /\ IsInjective(I),
         ToSet(P) = Members("phi", b) \cup (IF kind[i] = "phi" THEN {i} ELSE {}),
         ToSet(I) = Members("plain", b) \cup (IF kind[i] = "plain" THEN {i} ELSE {}),
         phis' = [phis EXCEPT ![b] = P], insts' = [insts EXCEPT ![b] = I],
         term' = IF kind[i] = "term" THEN [term EXCEPT ![b] = i] ELSE term,
         kind[i] = "term" => term[b] = None
  PROVE  ListInv'
<1>1. /\ \A k \in Kinds, c \in Blocks :
           Members(k, c)' = IF k = kind[i] /\ c = b
                            THEN Members(k, c) \cup {i} ELSE Members(k, c)
      /\ kind[i] \in Kinds /\ {"phi", "plain", "term"} = Kinds /\ i # None
  <2>1. GraphTypeOK
    BY DEF GraphInv
  <2>2. i \in live /\ parent[i] = None /\ parent' = [parent EXCEPT ![i] = b]
    BY DEF Attach, CanInsert
  <2>3. kind' = kind /\ live' = live
    BY DEF Attach, defs
  <2>4. kind[i] \in Kinds /\ {"phi", "plain", "term"} = Kinds /\ i # None
    BY <2>1, DistinctKeys DEF GraphTypeOK, Kinds
  <2>5. \A k \in Kinds, c \in Blocks :
          Members(k, c)' = IF k = kind[i] /\ c = b
                           THEN Members(k, c) \cup {i} ELSE Members(k, c)
    BY <2>1, <2>2, <2>3, DistinctKeys DEF GraphTypeOK, Members
  <2> QED BY <2>4, <2>5
<1>2. /\ phis \in [Blocks -> Seq(Insts)] /\ insts \in [Blocks -> Seq(Insts)]
      /\ term \in [Blocks -> Insts \cup {None}]
      /\ \A c \in Blocks :
           /\ IsInjective(phis[c]) /\ ToSet(phis[c]) = Members("phi", c)
           /\ IsInjective(insts[c]) /\ ToSet(insts[c]) = Members("plain", c)
           /\ {term[c]} \ {None} = Members("term", c)
  BY DEF ListInv, ListTypeOK, PlacesExact
<1> HIDE DEF Members
<1>3. ListTypeOK'
  BY <1>2 DEF ListTypeOK
<1>4. PlacesExact'
  <2> SUFFICES ASSUME NEW c \in Blocks
               PROVE  /\ IsInjective(phis'[c]) /\ ToSet(phis'[c]) = Members("phi", c)'
                      /\ IsInjective(insts'[c]) /\ ToSet(insts'[c]) = Members("plain", c)'
                      /\ {term'[c]} \ {None} = Members("term", c)'
    BY DEF PlacesExact
  <2>1. /\ Members("phi", c)' = IF "phi" = kind[i] /\ c = b
                                THEN Members("phi", c) \cup {i} ELSE Members("phi", c)
        /\ Members("plain", c)' = IF "plain" = kind[i] /\ c = b
                                  THEN Members("plain", c) \cup {i} ELSE Members("plain", c)
        /\ Members("term", c)' = IF "term" = kind[i] /\ c = b
                                 THEN Members("term", c) \cup {i} ELSE Members("term", c)
    BY <1>1
  <2>2. CASE c # b
    <3>1. phis'[c] = phis[c] /\ insts'[c] = insts[c] /\ term'[c] = term[c]
      BY <1>2, <2>2
    <3> QED BY <1>2, <2>1, <2>2, <3>1
  <2>3. CASE c = b
    <3>1. phis'[c] = P /\ insts'[c] = I
          /\ term'[c] = IF kind[i] = "term" THEN i ELSE term[c]
      BY <1>2, <2>3
    <3>2. {term'[c]} \ {None} = Members("term", c)'
      BY <1>1, <1>2, <2>1, <2>3, <3>1
    <3> QED BY <1>1, <2>1, <2>3, <3>1, <3>2
  <2> QED BY <2>2, <2>3
<1> QED
  BY <1>3, <1>4 DEF ListInv

\* And taking one out shrinks exactly that list.
LEMMA UnplacedLists ==
  ASSUME ListInv, GraphInv, NEW i \in Insts, Attached(i), Unplaced(i),
         parent' = [parent EXCEPT ![i] = None], live' \in {live, live \ {i}},
         \A j \in Insts \ {i} : kind'[j] = kind[j]
  PROVE  ListInv'
<1> DEFINE b == parent[i]
<1>1. /\ \A k \in Kinds, c \in Blocks :
           Members(k, c)' = IF k = kind[i] /\ c = b
                            THEN Members(k, c) \ {i} ELSE Members(k, c)
      /\ kind[i] \in Kinds /\ {"phi", "plain", "term"} = Kinds /\ i # None
      /\ b \in Blocks /\ i \in Members(kind[i], b)
  <2>1. GraphTypeOK
    BY DEF GraphInv
  <2>2. /\ kind[i] \in Kinds /\ {"phi", "plain", "term"} = Kinds /\ i # None
        /\ b \in Blocks /\ i \in Members(kind[i], b)
    BY <2>1, DistinctKeys DEF GraphTypeOK, Kinds, Attached, Members
  <2> QED BY <2>1, <2>2, Leaves
<1>2. /\ phis \in [Blocks -> Seq(Insts)] /\ insts \in [Blocks -> Seq(Insts)]
      /\ term \in [Blocks -> Insts \cup {None}]
      /\ \A c \in Blocks :
           /\ IsInjective(phis[c]) /\ ToSet(phis[c]) = Members("phi", c)
           /\ IsInjective(insts[c]) /\ ToSet(insts[c]) = Members("plain", c)
           /\ {term[c]} \ {None} = Members("term", c)
  BY DEF ListInv, ListTypeOK, PlacesExact
<1>3. /\ phis' = IF kind[i] = "phi" THEN [phis EXCEPT ![b] = Without(@, i)] ELSE phis
      /\ insts' = IF kind[i] = "plain" THEN [insts EXCEPT ![b] = Without(@, i)] ELSE insts
      /\ term' = IF kind[i] = "term" THEN [term EXCEPT ![b] = None] ELSE term
  BY DEF Unplaced
<1> HIDE DEF Members, b, Without
<1>4. kind[i] = "phi" => LET t == Without(phis[b], i) IN
         t \in Seq(Insts) /\ IsInjective(t) /\ ToSet(t) = Members("phi", b) \ {i}
  BY <1>1, <1>2, WithoutProperties
<1>5. kind[i] = "plain" => LET t == Without(insts[b], i) IN
         t \in Seq(Insts) /\ IsInjective(t) /\ ToSet(t) = Members("plain", b) \ {i}
  BY <1>1, <1>2, WithoutProperties
<1>6. ListTypeOK'
  <2>1. phis' \in [Blocks -> Seq(Insts)]
    BY <1>1, <1>2, <1>3, <1>4
  <2>2. insts' \in [Blocks -> Seq(Insts)]
    BY <1>1, <1>2, <1>3, <1>5
  <2> QED BY <1>2, <1>3, <2>1, <2>2 DEF ListTypeOK
<1>7. PlacesExact'
  <2> SUFFICES ASSUME NEW c \in Blocks
               PROVE  /\ IsInjective(phis'[c]) /\ ToSet(phis'[c]) = Members("phi", c)'
                      /\ IsInjective(insts'[c]) /\ ToSet(insts'[c]) = Members("plain", c)'
                      /\ {term'[c]} \ {None} = Members("term", c)'
    BY DEF PlacesExact
  <2>1. /\ Members("phi", c)' = IF "phi" = kind[i] /\ c = b
                                THEN Members("phi", c) \ {i} ELSE Members("phi", c)
        /\ Members("plain", c)' = IF "plain" = kind[i] /\ c = b
                                  THEN Members("plain", c) \ {i} ELSE Members("plain", c)
        /\ Members("term", c)' = IF "term" = kind[i] /\ c = b
                                 THEN Members("term", c) \ {i} ELSE Members("term", c)
    BY <1>1
  <2>2. /\ phis'[c] = IF kind[i] = "phi" /\ c = b THEN Without(phis[b], i) ELSE phis[c]
        /\ insts'[c] = IF kind[i] = "plain" /\ c = b THEN Without(insts[b], i) ELSE insts[c]
        /\ term'[c] = IF kind[i] = "term" /\ c = b THEN None ELSE term[c]
    BY <1>2, <1>3
  <2>3. IsInjective(phis'[c]) /\ ToSet(phis'[c]) = Members("phi", c)'
    BY <1>2, <1>4, <2>1, <2>2
  <2>4. IsInjective(insts'[c]) /\ ToSet(insts'[c]) = Members("plain", c)'
    BY <1>2, <1>5, <2>1, <2>2
  <2>5. {term'[c]} \ {None} = Members("term", c)'
    BY <1>1, <1>2, <2>1, <2>2
  <2> QED BY <2>3, <2>4, <2>5
<1> QED
  BY <1>6, <1>7 DEF ListInv

-----------------------------------------------------------------------------
(* The placement part, one lemma per mutator that moves an instruction. *)

LEMMA InitLists == Init => ListInv
<1> SUFFICES ASSUME Init PROVE ListInv
  OBVIOUS
<1>1. /\ phis = [b \in Blocks |-> <<>>] /\ insts = [b \in Blocks |-> <<>>]
      /\ term = [b \in Blocks |-> None] /\ live = {}
  BY DEF Init
<1>2. IsInjective(<<>>) /\ ToSet(<<>>) = {}
  BY DEF IsInjective, ToSet
<1>3. \A k \in Kinds, b \in Blocks : Members(k, b) = {}
  BY <1>1 DEF Members
<1>4. ListTypeOK
  BY <1>1 DEF ListTypeOK
<1>5. PlacesExact
  <2> HIDE DEF Members
  <2> QED BY <1>1, <1>2, <1>3 DEF PlacesExact, Kinds
<1> QED
  BY <1>4, <1>5 DEF ListInv

\* The facts about block b that every insertion starts from.
LEMMA BeforeAttach ==
  ASSUME ListInv, GraphInv, NEW b \in Blocks, NEW i \in Insts, Attach(b, i)
  PROVE  /\ phis \in [Blocks -> Seq(Insts)] /\ insts \in [Blocks -> Seq(Insts)]
         /\ IsInjective(phis[b]) /\ ToSet(phis[b]) = Members("phi", b)
         /\ IsInjective(insts[b]) /\ ToSet(insts[b]) = Members("plain", b)
         /\ i \notin Members("phi", b) /\ i \notin Members("plain", b)
  BY DistinctKeys DEF ListInv, ListTypeOK, PlacesExact, Members, Attach, CanInsert,
     GraphInv, GraphTypeOK

\* Inserting a plain instruction anywhere in the list of its block.
LEMMA InsertPlainLists ==
  ASSUME ListInv, GraphInv, NEW b \in Blocks, NEW i \in Insts, Attach(b, i),
         kind[i] = "plain", NEW I,
         \/ I = Append(insts[b], i)
         \/ \E p \in 1..(Len(insts[b]) + 1) : I = InsertAt(insts[b], p, i),
         insts' = [insts EXCEPT ![b] = I], phis' = phis, term' = term
  PROVE  ListInv'
<1>1. /\ phis \in [Blocks -> Seq(Insts)] /\ insts \in [Blocks -> Seq(Insts)]
      /\ IsInjective(phis[b]) /\ ToSet(phis[b]) = Members("phi", b)
      /\ IsInjective(insts[b]) /\ ToSet(insts[b]) = Members("plain", b)
      /\ i \notin Members("phi", b) /\ i \notin Members("plain", b)
  BY BeforeAttach
<1>2. /\ insts[b] \in Seq(Insts) /\ IsInjective(insts[b]) /\ i \notin ToSet(insts[b])
      /\ phis[b] \in Seq(Insts)
  BY <1>1
<1>3. I \in Seq(Insts) /\ IsInjective(I) /\ ToSet(I) = Members("plain", b) \cup {i}
  <2>1. CASE I = Append(insts[b], i)
    <3>1. /\ I \in Seq(Insts) /\ IsInjective(I)
          /\ ToSet(I) = ToSet(insts[b]) \cup {i}
      BY <1>2, <2>1, AppendNew
    <3> QED BY <1>1, <3>1
  <2>2. CASE \E p \in 1..(Len(insts[b]) + 1) : I = InsertAt(insts[b], p, i)
    <3>1. PICK p \in 1..(Len(insts[b]) + 1) : I = InsertAt(insts[b], p, i)
      BY <2>2
    <3>2. /\ I \in Seq(Insts) /\ IsInjective(I)
          /\ ToSet(I) = ToSet(insts[b]) \cup {i}
      BY <1>2, <3>1, InsertNew
    <3> QED BY <1>1, <3>2
  <2> QED BY <2>1, <2>2
<1> HIDE DEF ListInv, GraphInv, Attach, Members
<1>4. phis' = [phis EXCEPT ![b] = phis[b]]
  BY <1>1
<1>5. /\ ToSet(phis[b]) = Members("phi", b) \cup (IF kind[i] = "phi" THEN {i} ELSE {})
      /\ ToSet(I) = Members("plain", b) \cup (IF kind[i] = "plain" THEN {i} ELSE {})
      /\ term' = IF kind[i] = "term" THEN [term EXCEPT ![b] = i] ELSE term
      /\ kind[i] = "term" => term[b] = None
  BY <1>1, <1>3
<1> QED
  BY <1>1, <1>2, <1>3, <1>4, <1>5, AttachLists

\* The same for a phi.
LEMMA InsertPhiLists ==
  ASSUME ListInv, GraphInv, NEW b \in Blocks, NEW i \in Insts, Attach(b, i),
         kind[i] = "phi", NEW P,
         \/ P = Append(phis[b], i)
         \/ \E p \in 1..(Len(phis[b]) + 1) : P = InsertAt(phis[b], p, i),
         phis' = [phis EXCEPT ![b] = P], insts' = insts, term' = term
  PROVE  ListInv'
<1>1. /\ phis \in [Blocks -> Seq(Insts)] /\ insts \in [Blocks -> Seq(Insts)]
      /\ IsInjective(phis[b]) /\ ToSet(phis[b]) = Members("phi", b)
      /\ IsInjective(insts[b]) /\ ToSet(insts[b]) = Members("plain", b)
      /\ i \notin Members("phi", b) /\ i \notin Members("plain", b)
  BY BeforeAttach
<1>2. /\ phis[b] \in Seq(Insts) /\ IsInjective(phis[b]) /\ i \notin ToSet(phis[b])
      /\ insts[b] \in Seq(Insts)
  BY <1>1
<1>3. P \in Seq(Insts) /\ IsInjective(P) /\ ToSet(P) = Members("phi", b) \cup {i}
  <2>1. CASE P = Append(phis[b], i)
    <3>1. /\ P \in Seq(Insts) /\ IsInjective(P)
          /\ ToSet(P) = ToSet(phis[b]) \cup {i}
      BY <1>2, <2>1, AppendNew
    <3> QED BY <1>1, <3>1
  <2>2. CASE \E p \in 1..(Len(phis[b]) + 1) : P = InsertAt(phis[b], p, i)
    <3>1. PICK p \in 1..(Len(phis[b]) + 1) : P = InsertAt(phis[b], p, i)
      BY <2>2
    <3>2. /\ P \in Seq(Insts) /\ IsInjective(P)
          /\ ToSet(P) = ToSet(phis[b]) \cup {i}
      BY <1>2, <3>1, InsertNew
    <3> QED BY <1>1, <3>2
  <2> QED BY <2>1, <2>2
<1> HIDE DEF ListInv, GraphInv, Attach, Members
<1>4. insts' = [insts EXCEPT ![b] = insts[b]]
  BY <1>1
<1>5. /\ ToSet(P) = Members("phi", b) \cup (IF kind[i] = "phi" THEN {i} ELSE {})
      /\ ToSet(insts[b]) = Members("plain", b) \cup (IF kind[i] = "plain" THEN {i} ELSE {})
      /\ term' = IF kind[i] = "term" THEN [term EXCEPT ![b] = i] ELSE term
      /\ kind[i] = "term" => term[b] = None
  BY <1>1, <1>3
<1> QED
  BY <1>1, <1>2, <1>3, <1>4, <1>5, AttachLists

LEMMA SetTerminatorLists ==
  ASSUME ListInv, GraphInv, NEW b \in Blocks, NEW i \in Insts, SetTerminator(b, i)
  PROVE  ListInv'
<1>1. Attach(b, i) /\ kind[i] = "term" /\ term[b] = None
      /\ term' = [term EXCEPT ![b] = i] /\ phis' = phis /\ insts' = insts
  BY DEF SetTerminator
<1>2. /\ phis \in [Blocks -> Seq(Insts)] /\ insts \in [Blocks -> Seq(Insts)]
      /\ IsInjective(phis[b]) /\ ToSet(phis[b]) = Members("phi", b)
      /\ IsInjective(insts[b]) /\ ToSet(insts[b]) = Members("plain", b)
  BY <1>1, BeforeAttach
<1> HIDE DEF ListInv, GraphInv, Attach, Members
<1>3. /\ phis' = [phis EXCEPT ![b] = phis[b]] /\ insts' = [insts EXCEPT ![b] = insts[b]]
      /\ phis[b] \in Seq(Insts) /\ insts[b] \in Seq(Insts)
  BY <1>1, <1>2
<1>4. /\ ToSet(phis[b]) = Members("phi", b) \cup (IF kind[i] = "phi" THEN {i} ELSE {})
      /\ ToSet(insts[b]) = Members("plain", b) \cup (IF kind[i] = "plain" THEN {i} ELSE {})
      /\ term' = IF kind[i] = "term" THEN [term EXCEPT ![b] = i] ELSE term
  BY <1>1, <1>2
<1> QED
  BY <1>1, <1>2, <1>3, <1>4, AttachLists

LEMMA InsertAroundLists ==
  ASSUME ListInv, GraphInv, NEW anchor \in Insts, NEW i \in Insts, NEW d \in {0, 1},
         InsertAround(anchor, i, d)
  PROVE  ListInv'
<1> DEFINE b == parent[anchor]
<1>1. /\ Attached(anchor) /\ b \in Blocks /\ Attach(b, i)
      /\ anchor \in Members(kind[anchor], b)
  BY DistinctKeys DEF InsertAround, Attached, GraphInv, GraphTypeOK, Members
<1>2. /\ phis \in [Blocks -> Seq(Insts)] /\ insts \in [Blocks -> Seq(Insts)]
      /\ ToSet(phis[b]) = Members("phi", b) /\ ToSet(insts[b]) = Members("plain", b)
      /\ phis[b] \in Seq(Insts) /\ insts[b] \in Seq(Insts)
  BY <1>1, BeforeAttach
<1> HIDE DEF ListInv, GraphInv, Attach, Members, IndexIn
<1>3. CASE /\ kind[anchor] = "phi" /\ kind[i] = "phi"
           /\ phis' = [phis EXCEPT ![b] = InsertAt(@, IndexIn(@, anchor) + d, i)]
           /\ UNCHANGED <<insts, term>>
  <2>1. IndexIn(phis[b], anchor) + d \in 1..(Len(phis[b]) + 1)
    <3>1. IndexIn(phis[b], anchor) \in 1..Len(phis[b])
      BY <1>1, <1>2, <1>3, IndexInProperties
    <3>2. Len(phis[b]) \in Nat
      BY <1>2
    <3> QED BY <3>1, <3>2
  <2>2. phis' = [phis EXCEPT ![b] = InsertAt(phis[b], IndexIn(phis[b], anchor) + d, i)]
    BY <1>3
  <2> QED BY <1>1, <1>3, <2>1, <2>2, InsertPhiLists
<1>4. CASE /\ kind[anchor] = "plain" /\ kind[i] = "plain"
           /\ insts' = [insts EXCEPT ![b] = InsertAt(@, IndexIn(@, anchor) + d, i)]
           /\ UNCHANGED <<phis, term>>
  <2>1. IndexIn(insts[b], anchor) + d \in 1..(Len(insts[b]) + 1)
    <3>1. IndexIn(insts[b], anchor) \in 1..Len(insts[b])
      BY <1>1, <1>2, <1>4, IndexInProperties
    <3>2. Len(insts[b]) \in Nat
      BY <1>2
    <3> QED BY <3>1, <3>2
  <2>2. insts' = [insts EXCEPT ![b] = InsertAt(insts[b], IndexIn(insts[b], anchor) + d, i)]
    BY <1>4
  <2> QED BY <1>1, <1>4, <2>1, <2>2, InsertPlainLists
<1>5. CASE /\ kind[anchor] = "term" /\ kind[i] = "plain" /\ d = 0
           /\ insts' = [insts EXCEPT ![b] = Append(@, i)]
           /\ UNCHANGED <<phis, term>>
  <2>1. insts' = [insts EXCEPT ![b] = Append(insts[b], i)]
    BY <1>5
  <2> QED BY <1>1, <1>5, <2>1, InsertPlainLists
<1> QED
  BY <1>3, <1>4, <1>5 DEF InsertAround

LEMMA NewInstLists ==
  ASSUME ListInv, GraphInv, NEW i \in Insts, NEW k \in Kinds, NEW o, NEW bo, NEW n,
         NewInst(i, k, o, bo, n)
  PROVE  ListInv'
<1>1. /\ i \notin live /\ live' = live \cup {i}
      /\ kind' = [kind EXCEPT ![i] = k] /\ parent' = [parent EXCEPT ![i] = None]
      /\ phis' = phis /\ insts' = insts /\ term' = term
  BY DEF NewInst
<1>2. kind \in [Insts -> Kinds] /\ parent \in [Insts -> Blocks \cup {None}]
      /\ live \subseteq Insts
  BY DEF GraphInv, GraphTypeOK
<1>3. \A l \in Kinds, c \in Blocks : Members(l, c)' = Members(l, c)
  BY <1>1, <1>2, DistinctKeys DEF Members
<1> HIDE DEF Members
<1> QED
  BY <1>1, <1>3 DEF ListInv, ListTypeOK, PlacesExact, Kinds

LEMMA AppendBlockLists ==
  ASSUME ListInv, GraphInv, NEW b \in Blocks, AppendBlock(b)
  PROVE  ListInv'
<1>1. /\ b \notin liveBlocks /\ live' = live /\ kind' = kind /\ parent' = parent
      /\ phis' = [phis EXCEPT ![b] = <<>>] /\ insts' = [insts EXCEPT ![b] = <<>>]
      /\ term' = [term EXCEPT ![b] = None]
  BY DEF AppendBlock, defs
<1>2. \A k \in Kinds, c \in Blocks : Members(k, c)' = Members(k, c)
  BY <1>1 DEF Members
<1>3. \A k \in Kinds : Members(k, b) = {}
  BY <1>1, DistinctKeys DEF Members, GraphInv, GraphTypeOK, NoDanglingOperand, Attached
<1>4. IsInjective(<<>>) /\ ToSet(<<>>) = {}
  BY DEF IsInjective, ToSet
<1> HIDE DEF Members
<1>5. ListTypeOK'
  BY <1>1 DEF ListInv, ListTypeOK
<1>6. PlacesExact'
  BY <1>1, <1>2, <1>3, <1>4 DEF ListInv, ListTypeOK, PlacesExact, Kinds
<1> QED
  BY <1>5, <1>6 DEF ListInv

LEMMA OverwriteLists ==
  ASSUME ListInv, GraphInv, NEW old \in Insts, NEW new \in Insts,
         OverwriteInst(old, new)
  PROVE  ListInv'
<1> DEFINE b == parent[old]
<1>1. /\ old # new /\ new # None /\ old # None /\ new \in live /\ old \in live
      /\ b \in Blocks /\ kind[old] = "term" /\ kind[new] = "term" /\ parent[new] = None
      /\ parent \in [Insts -> Blocks \cup {None}] /\ kind \in [Insts -> Kinds]
      /\ live \subseteq Insts
  BY DistinctKeys DEF OverwriteInst, Attached, GraphInv, GraphTypeOK
<1>2. /\ term' = [term EXCEPT ![b] = new] /\ phis' = phis /\ insts' = insts
      /\ parent' = [j \in Insts |-> IF j = old THEN None
                                    ELSE IF j = new THEN b ELSE parent[j]]
      /\ live' = live \ {old}
      /\ kind' = [j \in Insts |-> IF j = old THEN "plain" ELSE kind[j]]
  BY <1>1 DEF OverwriteInst, Dropped
<1>3. \A k \in Kinds, c \in Blocks :
        Members(k, c)' = IF k = "term" /\ c = b
                         THEN (Members(k, c) \ {old}) \cup {new} ELSE Members(k, c)
  <2> HIDE DEF b
  <2> SUFFICES ASSUME NEW k \in Kinds, NEW c \in Blocks
               PROVE  Members(k, c)' = IF k = "term" /\ c = b
                        THEN (Members(k, c) \ {old}) \cup {new} ELSE Members(k, c)
    OBVIOUS
  <2>1. parent[old] = b /\ c # None
    BY DistinctKeys DEF b
  <2> QED BY <1>1, <1>2, <2>1 DEF Members
<1>4. Members("term", b) = {old}
  <2>1. old \in Members("term", b)
    BY <1>1 DEF Members
  <2>2. {term[b]} \ {None} = Members("term", b)
    BY <1>1 DEF ListInv, PlacesExact
  <2> QED BY <2>1, <2>2
<1> HIDE DEF Members, b
<1>5. ListTypeOK'
  BY <1>1, <1>2 DEF ListInv, ListTypeOK
<1>6. PlacesExact'
  <2> SUFFICES ASSUME NEW c \in Blocks
               PROVE  /\ IsInjective(phis'[c]) /\ ToSet(phis'[c]) = Members("phi", c)'
                      /\ IsInjective(insts'[c]) /\ ToSet(insts'[c]) = Members("plain", c)'
                      /\ {term'[c]} \ {None} = Members("term", c)'
    BY DEF PlacesExact
  <2>1. /\ IsInjective(phis[c]) /\ ToSet(phis[c]) = Members("phi", c)
        /\ IsInjective(insts[c]) /\ ToSet(insts[c]) = Members("plain", c)
        /\ {term[c]} \ {None} = Members("term", c)
    BY DEF ListInv, PlacesExact
  <2>2. Members("phi", c)' = Members("phi", c) /\ Members("plain", c)' = Members("plain", c)
    BY <1>3 DEF Kinds
  <2>3. {term'[c]} \ {None} = Members("term", c)'
    <3>1. term'[c] = IF c = b THEN new ELSE term[c]
      BY <1>2 DEF ListInv, ListTypeOK
    <3>2. Members("term", c)' = IF c = b THEN {new} ELSE Members("term", c)
      BY <1>3, <1>4 DEF Kinds
    <3> QED BY <1>1, <2>1, <3>1, <3>2
  <2> QED BY <1>2, <2>1, <2>2, <2>3
<1> QED
  BY <1>5, <1>6 DEF ListInv

LEMMA EraseBlocksLists ==
  ASSUME ListInv, GraphInv, NEW Bs \in SUBSET Blocks, EraseBlocks(Bs)
  PROVE  ListInv'
<1> DEFINE D == {i \in live : parent[i] \in Bs}
<1>1. /\ live' = live \ D
      /\ kind' = [i \in Insts |-> IF i \in D THEN "plain" ELSE kind[i]]
      /\ parent' = [i \in Insts |-> IF i \in D THEN None ELSE parent[i]]
      /\ phis' = [b \in Blocks |-> IF b \in Bs THEN <<>> ELSE phis[b]]
      /\ insts' = [b \in Blocks |-> IF b \in Bs THEN <<>> ELSE insts[b]]
      /\ term' = [b \in Blocks |-> IF b \in Bs THEN None ELSE term[b]]
  BY DEF EraseBlocks, Dropped
<1>2. live \subseteq Insts
  BY DEF GraphInv, GraphTypeOK
<1>3. \A k \in Kinds, c \in Blocks :
        Members(k, c)' = IF c \in Bs THEN {} ELSE Members(k, c)
  BY <1>1, <1>2 DEF Members
<1>4. IsInjective(<<>>) /\ ToSet(<<>>) = {}
  BY DEF IsInjective, ToSet
<1> HIDE DEF Members, D
<1>5. ListTypeOK'
  BY <1>1 DEF ListInv, ListTypeOK
<1>6. PlacesExact'
  <2> SUFFICES ASSUME NEW c \in Blocks
               PROVE  /\ IsInjective(phis'[c]) /\ ToSet(phis'[c]) = Members("phi", c)'
                      /\ IsInjective(insts'[c]) /\ ToSet(insts'[c]) = Members("plain", c)'
                      /\ {term'[c]} \ {None} = Members("term", c)'
    BY DEF PlacesExact
  <2>1. CASE c \in Bs
    BY <1>1, <1>3, <1>4, <2>1 DEF Kinds
  <2>2. CASE c \notin Bs
    BY <1>1, <1>3, <2>2 DEF ListInv, PlacesExact, Kinds
  <2> QED BY <2>1, <2>2
<1> QED
  BY <1>5, <1>6 DEF ListInv

-----------------------------------------------------------------------------
(* Every step. *)

LEMMA StepGraph ==
  ASSUME GraphInv, Next
  PROVE  GraphInv'
<1>1. ASSUME NEW i \in Insts, NEW k \in Kinds, NEW o \in Operands,
             NEW bo \in BlockOperands, NEW n \in 1..(MaxSlots + 1),
             NewInst(i, k, o, bo, n)
      PROVE  GraphInv'
  BY <1>1, NewInstGraph
<1>2. ASSUME NEW b \in Blocks, AppendBlock(b) PROVE GraphInv'
  BY <1>2, AppendBlockGraph
<1>3. ASSUME NEW b \in Blocks, NEW i \in Insts,
             \/ AppendInst(b, i) \/ PushFrontInst(b, i)
             \/ AppendPhi(b, i) \/ SetTerminator(b, i)
      PROVE  GraphInv'
  <2>1. Attach(b, i)
    BY <1>3 DEF AppendInst, PushFrontInst, AppendPhi, SetTerminator
  <2> QED BY <2>1, AttachGraph
<1>4. ASSUME NEW anchor \in Insts, NEW i \in Insts, NEW d \in {0, 1},
             InsertAround(anchor, i, d)
      PROVE  GraphInv'
  <2>1. parent[anchor] \in Blocks /\ Attach(parent[anchor], i)
    BY <1>4, DistinctKeys DEF InsertAround, Attached, GraphInv, GraphTypeOK
  <2> QED BY <2>1, AttachGraph
<1>5. ASSUME NEW i \in Insts, DetachInst(i) PROVE GraphInv'
  BY <1>5, DetachGraph
<1>6. ASSUME NEW i \in Insts, EraseInstFromParent(i) PROVE GraphInv'
  BY <1>6, EraseGraph
<1>7. ASSUME NEW i \in Insts, EraseInstFromParentForcely(i) PROVE GraphInv'
  BY <1>7, EraseForcelyGraph
<1>8. ASSUME NEW old \in Insts, NEW new \in Insts, OverwriteInst(old, new)
      PROVE  GraphInv'
  BY <1>8, OverwriteGraph
<1>9. ASSUME NEW Bs \in SUBSET Blocks, EraseBlocks(Bs) PROVE GraphInv'
  BY <1>9, EraseBlocksGraph
<1>10. ASSUME NEW old \in Insts, NEW new \in Values, ReplaceAllUsesWith(old, new)
       PROVE  GraphInv'
  BY <1>10, ReplaceAllUsesGraph
<1>11. ASSUME NEW old \in Blocks, NEW new \in Blocks, ReplaceAllBlockUsesWith(old, new)
       PROVE  GraphInv'
  BY <1>11, ReplaceAllBlockUsesGraph
<1>12. ASSUME NEW i \in Insts, NEW s \in Slots, NEW b \in Blocks,
              ReplaceBlockOperand(i, s, b)
       PROVE  GraphInv'
  BY <1>12, ReplaceBlockOperandGraph
<1>13. ASSUME NEW i \in Insts, NEW b \in Blocks, NEW v \in Values,
              PhiAddIncoming(i, b, v)
       PROVE  GraphInv'
  BY <1>13, PhiAddGraph
<1>14. ASSUME NEW i \in Insts, NEW s \in Slots, PhiRemoveIncomingFrom(i, s)
       PROVE  GraphInv'
  BY <1>14, PhiRemoveGraph
<1> QED
  BY <1>1, <1>2, <1>3, <1>4, <1>5, <1>6, <1>7, <1>8, <1>9, <1>10, <1>11, <1>12,
     <1>13, <1>14 DEF Next, FreshOperands

LEMMA StepLists ==
  ASSUME GraphInv, ListInv, Next
  PROVE  ListInv'
<1>1. ASSUME NEW i \in Insts, NEW k \in Kinds, NEW o \in Operands,
             NEW bo \in BlockOperands, NEW n \in 1..(MaxSlots + 1),
             NewInst(i, k, o, bo, n)
      PROVE  ListInv'
  BY <1>1, NewInstLists
<1>2. ASSUME NEW b \in Blocks, AppendBlock(b) PROVE ListInv'
  BY <1>2, AppendBlockLists
<1>3. ASSUME NEW b \in Blocks, NEW i \in Insts, AppendInst(b, i) PROVE ListInv'
  <2>1. /\ Attach(b, i) /\ kind[i] = "plain" /\ phis' = phis /\ term' = term
        /\ insts' = [insts EXCEPT ![b] = Append(insts[b], i)]
    BY <1>3 DEF AppendInst
  <2> QED BY <2>1, InsertPlainLists
<1>4. ASSUME NEW b \in Blocks, NEW i \in Insts, PushFrontInst(b, i) PROVE ListInv'
  <2>1. /\ Attach(b, i) /\ kind[i] = "plain" /\ phis' = phis /\ term' = term
        /\ insts' = [insts EXCEPT ![b] = InsertAt(insts[b], 1, i)]
    BY <1>4 DEF PushFrontInst
  <2>2. 1 \in 1..(Len(insts[b]) + 1)
    BY <2>1, BeforeAttach
  <2> QED BY <2>1, <2>2, InsertPlainLists
<1>5. ASSUME NEW b \in Blocks, NEW i \in Insts, AppendPhi(b, i) PROVE ListInv'
  <2>1. /\ Attach(b, i) /\ kind[i] = "phi" /\ insts' = insts /\ term' = term
        /\ phis' = [phis EXCEPT ![b] = Append(phis[b], i)]
    BY <1>5 DEF AppendPhi
  <2> QED BY <2>1, InsertPhiLists
<1>6. ASSUME NEW b \in Blocks, NEW i \in Insts, SetTerminator(b, i) PROVE ListInv'
  BY <1>6, SetTerminatorLists
<1>7. ASSUME NEW anchor \in Insts, NEW i \in Insts, NEW d \in {0, 1},
             InsertAround(anchor, i, d)
      PROVE  ListInv'
  BY <1>7, InsertAroundLists
<1>8. ASSUME NEW i \in Insts, DetachInst(i) PROVE ListInv'
  <2>1. /\ Attached(i) /\ Unplaced(i) /\ parent' = [parent EXCEPT ![i] = None]
        /\ live' = live /\ kind' = kind
    BY <1>8 DEF DetachInst, defs
  <2> QED BY <2>1, UnplacedLists
<1>9. ASSUME NEW i \in Insts, EraseInstFromParent(i) \/ EraseInstFromParentForcely(i)
      PROVE  ListInv'
  <2>1. /\ Attached(i) /\ Unplaced(i) /\ parent' = [parent EXCEPT ![i] = None]
        /\ live' = live \ {i} /\ \A j \in Insts \ {i} : kind'[j] = kind[j]
    BY <1>9 DEF EraseInstFromParent, EraseInstFromParentForcely, Dropped
  <2> QED BY <2>1, UnplacedLists
<1>10. ASSUME NEW old \in Insts, NEW new \in Insts, OverwriteInst(old, new)
       PROVE  ListInv'
  BY <1>10, OverwriteLists
<1>11. ASSUME NEW Bs \in SUBSET Blocks, EraseBlocks(Bs) PROVE ListInv'
  BY <1>11, EraseBlocksLists
<1> QED
  <2>1. CASE \/ \E old \in Insts, new \in Values : ReplaceAllUsesWith(old, new)
             \/ \E old, new \in Blocks : ReplaceAllBlockUsesWith(old, new)
             \/ \E i \in Insts, s \in Slots, b \in Blocks : ReplaceBlockOperand(i, s, b)
             \/ \E i \in Insts, b \in Blocks, v \in Values : PhiAddIncoming(i, b, v)
             \/ \E i \in Insts, s \in Slots : PhiRemoveIncomingFrom(i, s)
    <3>1. UNCHANGED <<live, kind, parent, phis, insts, term>>
      BY <2>1, ZenonT(60) DEF ReplaceAllUsesWith, ReplaceAllBlockUsesWith, ReplaceBlockOperand,
         PhiAddIncoming, PhiRemoveIncomingFrom, defs, places
    <3> QED BY <3>1, SameLists, SMTT(60)
  <2> QED BY <1>1, <1>2, <1>3, <1>4, <1>5, <1>6, <1>7, <1>8, <1>9, <1>10, <1>11,
             <2>1 DEF Next, FreshOperands

LEMMA StutterInv == IInv /\ UNCHANGED vars => IInv'
<1> SUFFICES ASSUME IInv, UNCHANGED vars PROVE IInv'
  OBVIOUS
<1> USE DEF vars
<1>1. GraphTypeOK' /\ ListTypeOK'
  BY DEF IInv, GraphInv, ListInv, GraphTypeOK, ListTypeOK
<1>2. ValueUsesExact' /\ BlockUsesSound'
  BY DEF IInv, GraphInv, ValueUsesExact, BlockUsesSound, Attached
<1>3. OperandShape' /\ NoDanglingOperand'
  BY DEF IInv, GraphInv, OperandShape, NoDanglingOperand, OperandsExist, Attached
<1>4. PlacesExact'
  BY DEF IInv, ListInv, PlacesExact, Members
<1> QED
  BY <1>1, <1>2, <1>3, <1>4 DEF IInv, GraphInv, ListInv

-----------------------------------------------------------------------------
(* The theorems. *)

\* Every reachable state satisfies the strengthened invariant.
THEOREM Invariance == Spec => []IInv
<1>1. Init => IInv
  BY InitGraph, InitLists DEF IInv
<1>2. IInv /\ [Next]_vars => IInv'
  <2> SUFFICES ASSUME IInv, [Next]_vars PROVE IInv'
    OBVIOUS
  <2>1. CASE Next
    BY <2>1, StepGraph, StepLists DEF IInv
  <2>2. CASE UNCHANGED vars
    BY <2>2, StutterInv
  <2> QED BY <2>1, <2>2
<1> QED
  BY <1>1, <1>2, PTL DEF Spec

\* The mutators keep every field of ModuleCore well typed.
THEOREM TypeCorrect == Spec => []TypeOK
<1>1. IInv => TypeOK
  BY DEF IInv, GraphInv, ListInv, TypeOK
<1> QED
  BY <1>1, Invariance, PTL

\* The use lists of values answer "who uses v" exactly, for every function and
\* every order in which the passes call the mutators.
THEOREM UseListsExact == Spec => []ValueUsesExact
<1>1. IInv => ValueUsesExact
  BY DEF IInv, GraphInv
<1> QED
  BY <1>1, Invariance, PTL

\* The use lists of blocks never claim a use that is not there and are exact
\* for phis.
THEOREM BlockUseListsSound == Spec => []BlockUsesSound
<1>1. IInv => BlockUsesSound
  BY DEF IInv, GraphInv
<1> QED
  BY <1>1, Invariance, PTL

\* No operand and no parent link of an attached instruction dangles.
THEOREM NoDangling == Spec => []NoDanglingOperand
<1>1. IInv => NoDanglingOperand
  BY DEF IInv, GraphInv
<1> QED
  BY <1>1, Invariance, PTL

\* An instruction stands exactly where its parent link says.
THEOREM PlacedOnce == Spec => []PlacesExact
<1>1. IInv => PlacesExact
  BY SMTT(60) DEF IInv, ListInv
<1> QED
  BY <1>1, Invariance, PTL

\* For one value v, a step either leaves every operand that reads v alone (or
\* clears it), or leaves no attached instruction reading v.
KeptOrGone(v) ==
  \/ \A j \in Insts, s \in Slots :
       Attached(j) /\ Attached(j)' /\ ops[j][s] = v => ops'[j][s] \in {v, None}
  \/ \A j \in Insts, s \in Slots : Attached(j)' => ops'[j][s] # v

LEMMA StepReplaces ==
  ASSUME IInv, Next, NEW v \in Insts
  PROVE  KeptOrGone(v)
<1>0. /\ ops \in [Insts -> Operands] /\ idx \in [Insts -> 1..(MaxSlots + 1)]
      /\ Undef \notin Insts /\ None \notin Insts /\ v \in Values
      /\ \A x \in Values, j \in Insts, s \in Slots :
           uses[x][j][s] = IF Attached(j) /\ ops[j][s] = x THEN 1 ELSE 0
  BY DistinctKeys DEF IInv, GraphInv, GraphTypeOK, ValueUsesExact, Values
<1>1. ASSUME \A j \in Insts, s \in Slots : Attached(j) /\ Attached(j)' => ops'[j] = ops[j]
      PROVE  KeptOrGone(v)
  BY <1>1 DEF KeptOrGone
<1>2. ASSUME NEW i \in Insts, NEW k \in Kinds, NEW o \in Operands,
             NEW bo \in BlockOperands, NEW n, NewInst(i, k, o, bo, n)
      PROVE  KeptOrGone(v)
  <2>1. \A j \in Insts : Attached(j) => ops'[j] = ops[j]
    BY <1>0, <1>2 DEF NewInst, Attached
  <2> QED BY <1>1, <2>1
<1>3. ASSUME UNCHANGED ops PROVE KeptOrGone(v)
  BY <1>1, <1>3
<1>4. ASSUME NEW i \in Insts, EraseInstFromParent(i) PROVE KeptOrGone(v)
  <2>1. \A j \in Insts : Attached(j)' => ops'[j] = ops[j]
    BY <1>4 DEF EraseInstFromParent, Dropped, Attached
  <2> QED BY <1>1, <2>1
<1>5. ASSUME NEW i \in Insts, EraseInstFromParentForcely(i) PROVE KeptOrGone(v)
  <2>1. /\ \A j \in Insts : Attached(j)' => j # i /\ Attached(j)
        /\ \A j \in Insts \ {i} : ops'[j] = Rewritten(ops, uses, i, Undef)[j]
    BY <1>5 DEF EraseInstFromParentForcely, Dropped, Attached
  <2>2. \A j \in Insts, s \in Slots : Attached(j)' =>
          ops'[j][s] = IF ops[j][s] = i THEN Undef ELSE ops[j][s]
    <3> SUFFICES ASSUME NEW j \in Insts, NEW s \in Slots, Attached(j)'
                 PROVE  ops'[j][s] = IF ops[j][s] = i THEN Undef ELSE ops[j][s]
      OBVIOUS
    <3>1. i \in Values /\ Attached(j) /\ j \in Insts \ {i}
      BY <2>1 DEF Values
    <3>2. uses[i][j][s] > 0 <=> ops[j][s] = i
      BY <1>0, <3>1
    <3>3. ops'[j] = Rewritten(ops, uses, i, Undef)[j]
      BY <2>1, <3>1
    <3> QED BY <3>2, <3>3 DEF Rewritten
  <2> QED BY <1>0, <2>1, <2>2 DEF KeptOrGone
<1>6. ASSUME NEW old \in Insts, NEW new \in Insts, OverwriteInst(old, new)
      PROVE  KeptOrGone(v)
  <2>1. \A j \in Insts : j # old => ops'[j] = ops[j]
    BY <1>6 DEF OverwriteInst, Dropped
  <2>2. ~Attached(old)'
    BY <1>6 DEF OverwriteInst, Dropped, Attached
  <2> QED BY <1>1, <2>1, <2>2
<1>7. ASSUME NEW Bs \in SUBSET Blocks, EraseBlocks(Bs) PROVE KeptOrGone(v)
  <2> DEFINE D == {i \in live : parent[i] \in Bs}
             InD(j, s) == ops[j][s] \in D /\ uses[ops[j][s]][j][s] > 0
             Drops(j, s) == j \notin D /\ kind[j] = "phi"
                            /\ \E b \in Bs : blockUses[b][j][s] > 0
  <2>1. /\ live' = live \ D
        /\ parent' = [i \in Insts |-> IF i \in D THEN None ELSE parent[i]]
        /\ ops' = [j \in Insts |-> IF j \in D THEN NoOperands ELSE
                    [s \in Slots |-> IF Drops(j, s) THEN None
                                     ELSE IF InD(j, s) THEN Undef ELSE ops[j][s]]]
    BY <1>7 DEF EraseBlocks, Dropped
  <2>2. D \subseteq Insts
    BY DEF IInv, GraphInv, GraphTypeOK
  <2> HIDE DEF D, Drops
  <2>3. \A j \in Insts : Attached(j)' => Attached(j) /\ j \notin D
    BY <2>1 DEF Attached
  <2>4. \A j \in Insts, s \in Slots : Attached(j)' =>
          ops'[j][s] = IF Drops(j, s) THEN None
                       ELSE IF ops[j][s] \in D THEN Undef ELSE ops[j][s]
    BY <1>0, <2>1, <2>2, <2>3 DEF Values
  <2> QED BY <1>0, <2>3, <2>4 DEF KeptOrGone
<1>8. ASSUME NEW old \in Insts, NEW new \in Values, ReplaceAllUsesWith(old, new)
      PROVE  KeptOrGone(v)
  <2>1. ops' = Rewritten(ops, uses, old, new) /\ old # new
        /\ \A j \in Insts : Attached(j)' <=> Attached(j)
    BY <1>8 DEF ReplaceAllUsesWith, defs, places, Attached
  <2>2. \A j \in Insts, s \in Slots : Attached(j) =>
          ops'[j][s] = IF ops[j][s] = old THEN new ELSE ops[j][s]
    BY <1>0, <2>1 DEF Rewritten, Values
  <2> QED BY <1>0, <2>1, <2>2 DEF KeptOrGone
<1>9. ASSUME NEW i \in Insts, NEW b \in Blocks, NEW w \in Values,
             PhiAddIncoming(i, b, w)
      PROVE  KeptOrGone(v)
  <2>1. idx[i] \in Slots /\ idx[i] \in idx[i]..MaxSlots /\ i \in live /\ kind[i] = "phi"
    BY <1>0, <1>9, BoundsAssumption DEF PhiAddIncoming, Attached, Slots
  <2>2. ops[i][idx[i]] = None
    BY <2>1 DEF IInv, GraphInv, OperandShape
  <2>3. ops' = [ops EXCEPT ![i][idx[i]] = w]
    BY <1>9 DEF PhiAddIncoming
  <2>4. \A j \in Insts, s \in Slots : ops[j][s] = v => ops'[j][s] = v
    BY <1>0, <2>1, <2>2, <2>3 DEF Operands
  <2> QED BY <2>4 DEF KeptOrGone
<1>10. ASSUME NEW i \in Insts, NEW s \in Slots, PhiRemoveIncomingFrom(i, s)
       PROVE  KeptOrGone(v)
  <2>1. ops' = [ops EXCEPT ![i][s] = None]
    BY <1>10 DEF PhiRemoveIncomingFrom
  <2>2. \A j \in Insts, t \in Slots : ops'[j][t] \in {ops[j][t], None}
    BY <1>0, <2>1 DEF Operands
  <2> QED BY <2>2 DEF KeptOrGone
<1> HIDE DEF KeptOrGone
<1> QED
  BY <1>2, <1>3, <1>4, <1>5, <1>6, <1>7, <1>8, <1>9, <1>10,
  ZenonT(60) DEF Next, FreshOperands, AppendBlock, AppendInst, PushFrontInst, AppendPhi, SetTerminator,
      InsertAround, Attach, DetachInst, ReplaceAllBlockUsesWith, ReplaceBlockOperand

\* No mutator redirects some of the uses of a value and leaves others behind.
THEOREM ReplacesAll == Spec => ReplacementIsTotal
<1> DEFINE Total ==
      \A v \in Insts :
        (\E j \in Insts, s \in Slots : /\ Attached(j) /\ Attached(j)'
                                       /\ ops[j][s] = v
                                       /\ ops'[j][s] \notin {v, None})
          => \A j \in Insts : Attached(j)' => v \notin Range(ops'[j])
<1>1. IInv /\ IInv' /\ [Next]_vars => [Total]_vars
  <2> SUFFICES ASSUME IInv, IInv', Next PROVE Total
    BY DEF vars
  <2>1. \A j \in Insts : DOMAIN ops'[j] = Slots
    BY DEF IInv, GraphInv, GraphTypeOK, Operands
  <2>2. \A v \in Insts : KeptOrGone(v)
    BY StepReplaces
  <2> QED BY <2>1, <2>2 DEF KeptOrGone, Range
<1> QED
  BY <1>1, Invariance, PTL DEF Spec, ReplacementIsTotal

=============================================================================
