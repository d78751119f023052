------------------------------ MODULE Programs ------------------------------
(***************************************************************************)
(* Programs under rewriting: what a pattern may ask about the values of a  *)
(* program, and how the rewriter changes it.  The rewriter and the greedy  *)
(* driver belong to MLIR; they are modelled by what the patterns of        *)
(* transforms/ use of them.                                                *)
(***************************************************************************)
EXTENDS Interpreter, OpInterfaces

OpOf(name, ins, attrs, outs) ==
    [name |-> name, ins |-> ins, attrs |-> attrs, regions |-> << >>, outs |-> outs]
ConstantOp(value, tensor) ==
    OpOf("constant", << >>, [value |-> tensor, type |-> tensor.type], <<value>>)
BlockOf(args, ops, rets) == [args |-> args, ops |-> ops, rets |-> rets]
NoAttrs == [none |-> 0]

-----------------------------------------------------------------------------
(* The ops and values of a block and of the regions in it.                 *)

RECURSIVE blocksOf(_)
blocksOf(b) == {b} \cup UNION {UNION {blocksOf(o.regions[k]) : k \in DOMAIN o.regions} :
                               o \in SeqToSet(b.ops)}
opsOf(b) == UNION {SeqToSet(c.ops) : c \in blocksOf(b)}

IdsOf(values) == {values[i].id : i \in DOMAIN values}
idsOf(b) == UNION {IdsOf(o.outs) : o \in opsOf(b)} \cup UNION {IdsOf(c.args) : c \in blocksOf(b)}
\* A value that the program does not have yet.
Fresh(b, k, type) == Value(Max(idsOf(b)) + k, type)

CountIn(values, v) == Cardinality({i \in DOMAIN values : values[i].id = v.id})
numUses(b, v) == MapThenSumSet(LAMBDA o : CountIn(o.ins, v), opsOf(b))
                    + MapThenSumSet(LAMBDA c : CountIn(c.rets, v), blocksOf(b))
use_empty(b, v) == numUses(b, v) = 0
hasOneUse(b, v) == numUses(b, v) = 1

\* getDefiningOp: the op that has v as a result, if it is not an argument.
definers(b, v) == {o \in opsOf(b) : v.id \in IdsOf(o.outs)}
definedBy(b, v, name) == \E o \in definers(b, v) : o.name = name
definingOp(b, v) == CHOOSE o \in definers(b, v) : TRUE

\* matchPattern(v, m_Constant): << >>, or the one attribute.
m_Constant(b, v) == IF definedBy(b, v, "constant") THEN <<definingOp(b, v).attrs.value>> ELSE << >>
areConstants(b, vs) == \A i \in DOMAIN vs : m_Constant(b, vs[i]) # << >>
constantsOf(b, vs) == [i \in DOMAIN vs |-> m_Constant(b, vs[i])[1]]
isSplat(x) == x.data # << >> /\ \A k \in DOMAIN x.data : x.data[k] = x.data[1]
resizeSplat(x, type) == makeSplat(type, x.data[1])

\* hlo::matchInts on a constant of integers.
matchInts(b, v) == LET c == m_Constant(b, v)
                   IN  IF c = << >> \/ c[1].type.et.k \notin {"i", "ui"} THEN << >> ELSE <<makeSizes(c[1])>>

\* The op as its interfaces see it: types, and the shape operands it knows.
viewOf(b, o) ==
    [name |-> o.name, operands |-> TypesOf(o.ins), attrs |-> o.attrs,
     values |-> [i \in DOMAIN o.ins |->
                    LET ints == matchInts(b, o.ins[i]) IN IF ints = << >> THEN Unknown ELSE ints[1]],
     regions |-> [k \in DOMAIN o.regions |-> BlockType(o.regions[k])],
     results |-> TypesOf(o.outs)]

-----------------------------------------------------------------------------
(* What a pattern does to an op: the ops that take its place, and the      *)
(* values that take the place of its results.                              *)

NoMatch == [ops |-> << >>, values |-> << >>]
ReplaceWith(values) == [ops |-> << >>, values |-> values]
ReplaceWithOp(o) == [ops |-> <<o>>, values |-> o.outs]
When(condition, rewrite) == IF condition THEN rewrite ELSE NoMatch
\* replaceOpWithNewOp<ConstantOp>
ReplaceWithConstant(b, tensor) == ReplaceWithOp(ConstantOp(Fresh(b, 1, tensor.type), tensor))

SubstituteIn(values, f) ==
    ListOf([i \in DOMAIN values |-> IF values[i].id \in DOMAIN f THEN f[values[i].id] ELSE values[i]])
RECURSIVE substitute(_, _)
substitute(b, f) ==
    [b EXCEPT !.rets = SubstituteIn(@, f),
              !.ops = ListOf([i \in DOMAIN @ |->
                         [@[i] EXCEPT !.ins = SubstituteIn(@, f),
                                      !.regions = ListOf([k \in DOMAIN @ |-> substitute(@[k], f)])]])]

RECURSIVE replaceIn(_, _, _)
replaceIn(b, o, news) ==
    [b EXCEPT !.ops = FlattenSeq([i \in DOMAIN @ |->
        IF @[i] = o THEN news
        ELSE <<[@[i] EXCEPT !.regions = ListOf([k \in DOMAIN @ |-> replaceIn(@[k], o, news)])]>>])]

applied(b, o, rewrite) ==
    substitute(replaceIn(b, o, rewrite.ops),
               [n \in IdsOf(o.outs) |->
                  rewrite.values[CHOOSE i \in DOMAIN o.outs : o.outs[i].id = n]])

\* A value gets another type, where it is defined and where it is used.
RetypeIn(values, f) ==
    ListOf([i \in DOMAIN values |->
              IF values[i].id \in DOMAIN f THEN Value(values[i].id, f[values[i].id]) ELSE values[i]])
RECURSIVE retype(_, _)
retype(b, f) ==
    [b EXCEPT !.args = RetypeIn(@, f), !.rets = RetypeIn(@, f),
              !.ops = ListOf([i \in DOMAIN @ |->
                         [@[i] EXCEPT !.ins = RetypeIn(@, f), !.outs = RetypeIn(@, f),
                                      !.regions = ListOf([k \in DOMAIN @ |-> retype(@[k], f)])]])]

\* isOpTriviallyDead: nothing uses its results, and it does nothing else.
\* An op without the effect interface may do anything.
declaresEffects(o) == \/ o.name \in {"outfeed", "infeed", "send", "recv"}
                      \/ o.name = "custom_call" /\ o.attrs.hasSideEffect
Undeclared == {"call", "composite", "rng", "all_gather", "all_reduce", "reduce_scatter", "all_to_all",
               "collective_broadcast", "collective_reduce", "collective_permute", "async_start", "async_done"}
hasOwnEffects(o) == declaresEffects(o) \/ o.name \in Undeclared
RECURSIVE hasEffects(_)
hasEffects(o) == \/ hasOwnEffects(o)
                 \/ \E k \in DOMAIN o.regions :
                       \E i \in DOMAIN o.regions[k].ops : hasEffects(o.regions[k].ops[i])
isOpTriviallyDead(b, o) ==
    (\A i \in DOMAIN o.outs : use_empty(b, o.outs[i])) /\ ~ hasEffects(o)
erase(b, o) == replaceIn(b, o, << >>)

-----------------------------------------------------------------------------
(* Well-formed programs.                                                   *)

\* Every value is defined once, before its uses, with the type of its uses.
RECURSIVE wellFormed(_, _)
wellFormed(b, outer) ==
    LET before(i) == SeqToSet(b.args) \cup outer \cup UNION {SeqToSet(b.ops[j].outs) : j \in 1..(i - 1)}
    IN  /\ \A i \in DOMAIN b.ops :
             /\ SeqToSet(b.ops[i].ins) \subseteq before(i)
             /\ \A k \in DOMAIN b.ops[i].regions : wellFormed(b.ops[i].regions[k], before(i))
        /\ SeqToSet(b.rets) \subseteq before(Len(b.ops) + 1)
definedOnce(b) == Cardinality(idsOf(b)) =
    MapThenSumSet(LAMBDA o : Len(o.outs), opsOf(b)) + MapThenSumSet(LAMBDA c : Len(c.args), blocksOf(b))

isStaticProgram(b) ==
    /\ \A o \in opsOf(b) : \A i \in DOMAIN o.outs : hasStaticType(o.outs[i].type)
    /\ \A i \in DOMAIN b.args : hasStaticType(b.args[i].type)
============================================================================
