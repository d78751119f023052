------------------------------ MODULE Rewriting ------------------------------
(***************************************************************************)
(* The passes that rewrite a StableHLO program, over all orders in which   *)
(* the greedy pattern driver may apply their patterns: the pipeline that   *)
(* makes a program static for the interpreter (RefineArguments,            *)
(* RefineShapes, CanonicalizeDynamism), the check of shape assertions,     *)
(* TargetIndependentOptimization (folding and simplification) and          *)
(* CompatibilityExpander for an old target.                                *)
(*                                                                         *)
(* RefineShapes refines the functions that the program calls while it      *)
(* visits the calls: the stack holds the functions being refined.  The     *)
(* driver visits the ops of a function from the top: a call is visited     *)
(* when there is nothing left to do for the ops before it.                 *)
(***************************************************************************)
EXTENDS ShapeRefinement

CONSTANTS Instances   \* records [funcs, types, inputs, reference, pipeline, holds]

ShapeFolder == INSTANCE AggressiveFolder WITH optimizeFloat <- FALSE, foldOpElementLimit <- 2147483647

VARIABLES instance,   \* the program that is compiled
          funcs,      \* the functions as they are now
          passes,     \* the passes that are left, the running one first
          stack,      \* functionsBeingRefined, with the call and the key of each
          contexts,   \* refinementContexts: the key each function was refined for
          error       \* a diagnostic has been emitted
vars == <<instance, funcs, passes, stack, contexts, error>>

NoContexts == [f \in {} |-> << >>]

-----------------------------------------------------------------------------
(* Api.cpp and PassPipelines.cpp                                           *)

createStablehloRemoveDynamismPipeline == <<"refine_arguments", "refine_shapes", "canonicalize_dynamism">>
\* Nothing is to be done when the arguments are static.
removeDynamism(i) ==
    LET args == i.funcs.main.body.args
    IN  IF \A k \in DOMAIN args : isStaticShape(args[k].type) THEN << >>
        ELSE createStablehloRemoveDynamismPipeline
PassesOf(i) ==
    CASE i.pipeline = "interpret" -> removeDynamism(i)
      [] i.pipeline \in {"check_assertions", "ignore_assertions"} ->
            <<"refine_arguments", "refine_shapes", "check_shape_assertions">>
      [] OTHER -> <<i.pipeline>>

validateEntrySignature(main, inputs) ==
    /\ Len(main.args) = Len(inputs)
    /\ \A k \in DOMAIN inputs : main.args[k].type = inputs[k].type
evalModule(program, inputs) ==
    IF validateEntrySignature(program.main.body, inputs)
    THEN eval(program.main.body, inputs, Environment(<< >>, [f \in DOMAIN program |-> program[f].body]))
    ELSE Failure

-----------------------------------------------------------------------------
(* One step of the driver on the body b of a function.  Values have no     *)
(* identity beyond their place: they are numbered in program order.        *)

RECURSIVE definitions(_)
definitions(b) ==
    [i \in DOMAIN b.args |-> b.args[i].id] \o
    FlattenSeq([i \in DOMAIN b.ops |->
        [k \in DOMAIN b.ops[i].outs |-> b.ops[i].outs[k].id] \o
        FlattenSeq([k \in DOMAIN b.ops[i].regions |-> definitions(b.ops[i].regions[k])])])
RenameIn(values, f) == ListOf([i \in DOMAIN values |-> Value(f[values[i].id], values[i].type)])
RECURSIVE rename(_, _)
rename(b, f) ==
    [b EXCEPT !.args = RenameIn(@, f), !.rets = RenameIn(@, f),
              !.ops = ListOf([i \in DOMAIN @ |->
                         [@[i] EXCEPT !.ins = RenameIn(@, f), !.outs = RenameIn(@, f),
                                      !.regions = ListOf([k \in DOMAIN @ |-> rename(@[k], f)])]])]
numbered(b) == LET order == definitions(b)
               IN  rename(b, [id \in SeqToSet(order) |-> CHOOSE i \in DOMAIN order : order[i] = id])

applyPatterns(b, o, rewrites) == {numbered(applied(b, o, r)) : r \in rewrites \ {NoMatch}} \ {b}

\* Constants move out of the regions, to the start of the function.
hoistConstant(b, o) ==
    IF o.name = "constant" /\ ~ \E i \in DOMAIN b.ops : b.ops[i] = o
    THEN {numbered(prepend(erase(b, o), <<o>>))} ELSE {}
RefinePatternSteps(b, o) ==
    ({numbered(r.body) : r \in RefineShapesPatterns(b, o)}
        \cup applyPatterns(b, o, ShapeFolder!ShapeFolderPatterns(b, o))) \ {b}
PatternsOf(pass, b, o) ==
    CASE pass = "canonicalize_dynamism" -> CanonicalizeDynamismPatterns(b, o)
      [] pass = "optimize" -> AggressiveFolderPatterns(b, o) \cup CanonicalizationPatterns(b, o)
      [] pass = "hlo_import" -> HloImportCanonicalizationPatterns(b, o)
      [] pass = "compatibility" -> CompatibilityExpanderPatterns(b, o)
\* A dead op is erased before a pattern sees it.
StepsAt(b, o, patternSteps) ==
    IF isOpTriviallyDead(b, o) THEN {numbered(erase(b, o))} ELSE hoistConstant(b, o) \cup patternSteps
RefineSteps(b) == [o \in opsOf(b) |-> StepsAt(b, o, RefinePatternSteps(b, o))]
PassSteps(pass, b) == [o \in opsOf(b) |-> StepsAt(b, o, applyPatterns(b, o, PatternsOf(pass, b, o)))]

-----------------------------------------------------------------------------
Init == /\ instance \in Instances
        /\ funcs = instance.funcs
        /\ passes = PassesOf(instance)
        /\ stack = << >>
        /\ contexts = NoContexts
        /\ error = FALSE

Running(pass) == passes # << >> /\ Head(passes) = pass
EndPass == passes' = Tail(passes)

RefineArguments ==
    /\ Running("refine_arguments")
    /\ LET refined == refineArguments(funcs.main.body, instance.types)
       IN  IF refined = Failure
           THEN error' = TRUE /\ passes' = << >> /\ UNCHANGED funcs
           ELSE EndPass /\ funcs' = [funcs EXCEPT !.main.body = refined[1]] /\ UNCHANGED error
    /\ UNCHANGED <<instance, stack, contexts>>

Rewrite(f, b) == funcs' = [funcs EXCEPT ![f].body = b] /\ UNCHANGED <<instance, passes, stack, contexts, error>>

\* The passes over every function of the program.  steps are what the driver
\* can make of each function, op by op.
FunctionPasses == {"canonicalize_dynamism", "optimize", "hlo_import", "compatibility"}
RewriteFunction(steps) ==
    \E f \in DOMAIN funcs : \E o \in DOMAIN steps[f] : \E b \in steps[f][o] : Rewrite(f, b)
EndFunctionPass(steps) ==
    /\ \A f \in DOMAIN funcs : \A o \in DOMAIN steps[f] : steps[f][o] = {}
    /\ EndPass
    /\ UNCHANGED <<instance, funcs, stack, contexts, error>>
FunctionPass ==
    \E pass \in FunctionPasses : Running(pass) /\
        \E steps \in {[f \in DOMAIN funcs |-> PassSteps(pass, funcs[f].body)]} :
            RewriteFunction(steps) \/ EndFunctionPass(steps)

-----------------------------------------------------------------------------
(* RefineShapes                                                            *)

top == stack[Len(stack)]
current == funcs[top.func].body
Frame_(f, call, key) == [func |-> f, call |-> call, key |-> key]

\* refineEntryFunction
RefineEntryFunction ==
    /\ Running("refine_shapes") /\ stack = << >>
    /\ LET key == [leadingTokenOperands |-> 0, globalConstants |-> << >>,
                   functionalArgumentTypes |-> TypesOf(funcs.main.body.args)]
       IN  stack' = <<Frame_("main", << >>, key)>> /\ contexts' = [f \in {"main"} |-> key]
    /\ UNCHANGED <<instance, funcs, passes, error>>

\* A pattern of RefineShapes or of the shape folder is applied.  steps are what
\* the driver can make of the function on top of the stack, op by op.
RefineOp(steps) == \E o \in DOMAIN steps : \E b \in steps[o] : Rewrite(top.func, b)

\* The return op is visited when there is nothing left to do before it.
UpdateFunctionType ==
    /\ stack # << >> /\ needsUpdate(funcs[top.func])
    /\ LET f == UpdateFunctionTypePattern(funcs[top.func])
       IN  funcs' = [funcs EXCEPT ![top.func] = [f EXCEPT !.body = numbered(@)]]
    /\ UNCHANGED <<instance, passes, stack, contexts, error>>

isBeingRefined(f) == \E k \in DOMAIN stack : stack[k].func = f
\* FunctionEffectAnalysis, of the program before the pass.  A function that is
\* met again while it is being visited, along any cycle of calls, may have effects.
RECURSIVE computeFunctionEffects(_, _, _)
computeFunctionEffects(program, f, visiting) ==
    /\ f \notin visiting
    /\ \A o \in opsOf(program[f].body) :
          IF o.name = "call" THEN computeFunctionEffects(program, o.attrs.callee, visiting \cup {f})
          ELSE ~ hasOwnEffects(o)
isMemoryEffectFree(program, f) == computeFunctionEffects(program, f, {})
calls(b) == {o \in opsOf(b) : o.name = "call"}

\* validateFunctionRefinement: NOT_ALREADY_REFINED, ALREADY_REFINED or an error.
isNew(o) == o.attrs.callee \notin DOMAIN contexts
isAlreadyRefined(o) ==
    /\ ~ isNew(o) /\ sameContext(RefinementKey(current, o), contexts[o.attrs.callee])
    /\ ~ isBeingRefined(o.attrs.callee)
refinedCall(b, o, key) ==
    refineCall(b, o, key, funcs[o.attrs.callee], isMemoryEffectFree(instance.funcs, o.attrs.callee))

\* Ops are visited from the top: nothing is left to do for the ones before.
hasNoMore(steps, o) ==
    /\ steps[o] = {}
    /\ o.name = "call" =>
          /\ ~ isNew(o)
          /\ IF isAlreadyRefined(o) THEN refinedCall(current, o, RefinementKey(current, o)).body = current
             ELSE error
isVisited(steps, o) == \E i \in DOMAIN current.ops : /\ current.ops[i] = o
                                                   /\ \A j \in 1..(i - 1) : hasNoMore(steps, current.ops[j])
visitedCalls(steps) == {o \in calls(current) : isVisited(steps, o)}

\* refineFunction for the callee of a call; its own calls come on top.
EnterFunction(o, callee, key, entered) ==
    /\ funcs' = [funcs EXCEPT ![callee] = [entered EXCEPT !.body = numbered(@)]]
    /\ contexts' = contexts @@ [f \in {callee} |-> key]
    /\ IF TypesOf(entered.body.args) = getAllNonGlobalConstantArgumentTypes(key)
       THEN stack' = Append(stack, Frame_(callee, o, key)) /\ UNCHANGED error
       ELSE error' = TRUE /\ UNCHANGED stack
    /\ UNCHANGED <<instance, passes>>
EnterCallee(o) ==
    /\ isNew(o)
    /\ \E key \in {RefinementKey(current, o)} :
          EnterFunction(o, o.attrs.callee, key, enterFunction(funcs[o.attrs.callee], key))

RefineCallAgain(o) ==
    /\ isAlreadyRefined(o)
    /\ \E r \in {refinedCall(current, o, RefinementKey(current, o))} :
          r.body # current /\ Rewrite(top.func, numbered(r.body))

\* Another key than before, or a function that calls itself.
RefuseCall(o) ==
    /\ ~ error /\ ~ isNew(o) /\ ~ isAlreadyRefined(o)
    /\ error' = TRUE
    /\ UNCHANGED <<instance, funcs, passes, stack, contexts>>

isRefined(steps) == ~ needsUpdate(funcs[top.func]) /\ \A o \in opsOf(current) : hasNoMore(steps, o)

\* The callee is done: the rest of RefineCallOpPattern, in the caller.
ReturnToCaller ==
    /\ Len(stack) > 1
    /\ LET caller == stack[Len(stack) - 1].func
       IN  funcs' = [funcs EXCEPT ![caller].body =
                        numbered(refinedCall(@, top.call, top.key).body)]
    /\ stack' = SubSeq(stack, 1, Len(stack) - 1)
    /\ UNCHANGED <<instance, passes, contexts, error>>

EndRefineShapes ==
    /\ Len(stack) = 1
    /\ EndPass /\ stack' = << >>
    /\ UNCHANGED <<instance, funcs, contexts, error>>

\* A step of the driver in the function on top of the stack.
RefineFunction ==
    /\ stack # << >>
    /\ \E steps \in {RefineSteps(current)} :
          \/ RefineOp(steps)
          \/ \E o \in visitedCalls(steps) : EnterCallee(o) \/ RefineCallAgain(o) \/ RefuseCall(o)
          \/ isRefined(steps) /\ (ReturnToCaller \/ EndRefineShapes)

-----------------------------------------------------------------------------
(* CheckShapeAssertions                                                    *)

\* Whether shape assertions may generate errors: an option of the pass.
enable_shape_assertions == instance.pipeline # "ignore_assertions"
isErased(b, o) == enable_shape_assertions => assertionHolds(b, o)
assertions(b) == {o \in opsOf(b) : o.name = "custom_call" /\ o.attrs.target = shapeAssertionName}
CheckShapeAssertions ==
    /\ Running("check_shape_assertions")
    /\ funcs' = [f \in DOMAIN funcs |->
                   [funcs[f] EXCEPT !.body = FoldSet(LAMBDA o, b : IF isErased(b, o) THEN erase(b, o) ELSE b,
                                                     @, assertions(@))]]
    /\ error' = (error \/ \E f \in DOMAIN funcs' : assertions(funcs'[f].body) # {})
    /\ EndPass
    /\ UNCHANGED <<instance, stack, contexts>>

Done == passes = << >> /\ UNCHANGED vars

Next == \/ RefineArguments \/ FunctionPass
        \/ RefineEntryFunction \/ UpdateFunctionType \/ RefineFunction
        \/ CheckShapeAssertions \/ Done

\* The driver keeps going as long as a pattern applies: WF_vars(Next), with its
\* ENABLED written out (no other state has no next step).
Fairness == []<>(passes = << >>) \/ []<><<Next>>_vars
Spec == Init /\ [][Next]_vars /\ Fairness

-----------------------------------------------------------------------------
\* Ops the interpreter does not run, and types it does not know.
isEvaluable(program) ==
    \A f \in DOMAIN program :
        /\ isStaticProgram(program[f].body)
        /\ \A o \in opsOf(program[f].body) :
              o.name \notin {"custom_call", "unrealized_conversion_cast", "real_dynamic_slice", "set_dimension_size"}

\* Whatever patterns have been applied in whatever order, the program computes
\* what it computed before: for a dynamic program, what it computes when it is
\* written for the sizes of the inputs.
MeaningPreserved ==
    [][isEvaluable(funcs') /\ ~ error' /\ stack' = << >> =>
          \A inputs \in instance.inputs :
              evalModule(funcs', inputs) = evalModule(instance.reference, inputs)]_vars

\* Every program in between is one that the verifier accepts: a pattern may
\* leave no value undefined or defined twice, no op with types that its
\* verifier refuses, and no function that returns other types than its
\* signature says.  Calls agree with their callees when no function is being
\* refined.  No fold meets an element that it cannot compute, such as a quotient
\* by zero: the compiler would stop.
StaysValid ==
    /\ \A f \in DOMAIN funcs :
          LET b == funcs[f].body
          IN  /\ wellFormed(b, {}) /\ definedOnce(b)
              /\ TypesOf(b.rets) = funcs[f].results
              /\ \A o \in opsOf(b) : o.name = "constant" => Defined(o.attrs.value)
              /\ \A o \in opsOf(b) : o.name \in {"call", "unrealized_conversion_cast"} \/ Valid(viewOf(b, o))
    /\ stack = << >> /\ ~ error =>
          \A f \in DOMAIN funcs : \A o \in calls(funcs[f].body) :
              LET callee == funcs[o.attrs.callee]
              IN  TypesOf(o.ins) = TypesOf(callee.body.args) /\ TypesOf(o.outs) = callee.results

\* The patterns do not undo each other: every pass comes to its end.
Terminates == <>(passes = << >>)

\* A dynamic program comes out of the pipeline for the interpreter with static
\* types only and without a dynamic op, or with a diagnostic.
isDynamicOp(o) ==
    \/ o.name \in {"dynamic_broadcast_in_dim", "dynamic_conv", "dynamic_gather", "dynamic_iota", "dynamic_pad",
                   "dynamic_reshape", "real_dynamic_slice", "unrealized_conversion_cast"}
    \/ o.name = "custom_call" /\ o.attrs.indicesOfShapeOperands # << >>
Specialized ==
    instance.pipeline = "interpret" /\ passes = << >> /\ ~ error =>
        \A f \in DOMAIN funcs : isStaticProgram(funcs[f].body)
                                  /\ \A o \in opsOf(funcs[f].body) : ~ isDynamicOp(o)

\* A diagnostic is emitted exactly for the programs whose shape assertions are
\* ill-formed or do not hold for the sizes of the arguments, unless assertions
\* are to be ignored, and for those whose calls need a function in two versions
\* or come back to a function being refined: no assertion is lost and none is
\* checked before it is known.
DiagnosedIffBroken == passes = << >> => (error <=> ~ instance.holds)
============================================================================
