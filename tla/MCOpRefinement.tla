--------------------------- MODULE MCOpRefinement ---------------------------
(***************************************************************************)
(* The run-time ops for TLC: every op with at least one instance, most     *)
(* with an instance whose sizes agree and one whose sizes do not (accepted *)
(* as long as the sizes are unknown).                                      *)
(***************************************************************************)
EXTENDS OpRefinement

T(sizes) == Tensor(F(32), sizes)
IT(sizes) == Tensor(I(32), sizes)
PT(sizes) == Tensor(I(1), sizes)
S == T(<< >>)
\* The reducer of the tests: adds two scalars.
AddBlock == Block(<<S, S>>, <<S>>)
CompareBlock == Block(<<S, S>>, <<PT(<< >>)>>)

MCSlack == 1

DimsOf(side, types, which) ==
    UNION {{Place(side, i, d) : d \in DOMAIN types[i].dims} : i \in which \cap DOMAIN types}
\* hides the dimensions of the operands in ins and of the results in outs, and
\* the values of the operands in vals.  All of the operands may be bounded, or
\* only the first one, or none.
Hide(o, ins, outs, vals) ==
    LET operands == DimsOf("operand", o.operands, ins)
    IN  [op |-> o,
         hide |-> operands \cup DimsOf("result", o.results, outs)
                     \cup {Place("value", i, NoDim) : i \in vals},
         bounds |-> {{}, operands, DimsOf("operand", o.operands, ins \cap {1})}]
WithValues(o, values) == [o EXCEPT !.values = values]
WithRegions(o, regions) == [o EXCEPT !.regions = regions]
NoAttrs == [none |-> 0]

-----------------------------------------------------------------------------
Elementwise ==
    {Hide(Op("add", <<T(<<2, 3>>), T(<<2, n>>)>>, NoAttrs, <<T(<<2, 3>>)>>), {1, 2}, {1}, {}) :
        n \in {3, 4}}
    \cup {Hide(Op(name, <<T(<<2>>), T(<<n>>)>>, NoAttrs, <<T(<<2>>)>>), {1, 2}, {1}, {}) :
        name \in BinaryOps \ {"add"}, n \in {2, 3}}
    \cup {Hide(Op(name, <<T(<<2, 3>>)>>, NoAttrs, <<T(<<2, r>>)>>), {1}, {1}, {}) :
        name \in {"negate", "not", "sine", "abs", "convert"}, r \in {3, 4}}
    \cup {Hide(Op("exponential", <<T(<<2>>)>>, [resultAccuracy |->
                  [atol |-> 0, rtol |-> 0, ulps |-> ulps, mode |-> mode]], <<T(<<2>>)>>), {1}, {1}, {}) :
            ulps \in {0, 2}, mode \in {"DEFAULT", "TOLERANCE"}}
    \cup {Hide(Op("is_finite", <<T(<<2>>)>>, NoAttrs, <<PT(<<2>>)>>), {1}, {1}, {}),
          Hide(Op("real", <<Tensor(C(32), <<2>>)>>, NoAttrs, <<T(<<2>>)>>), {1}, {1}, {}),
          Hide(Op("imag", <<Tensor(C(32), <<2>>)>>, NoAttrs, <<T(<<2>>)>>), {1}, {1}, {}),
          Hide(Op("complex", <<T(<<2>>), T(<<2>>)>>, NoAttrs, <<Tensor(C(32), <<2>>)>>),
               {1, 2}, {1}, {}),
          Hide(Op("complex", <<T(<<2>>), T(<<3>>)>>, NoAttrs, <<Tensor(C(32), <<2>>)>>),
               {1, 2}, {1}, {})}
    \cup {Hide(Op("compare", <<T(<<2, 3>>), T(<<r, 3>>)>>, NoAttrs, <<PT(<<2, 3>>)>>),
               {1, 2}, {1}, {}) : r \in {2, 3}}
    \cup {Hide(Op("clamp", <<T(m), T(<<2, 3>>), S>>, NoAttrs, <<T(<<2, 3>>)>>), {1, 2}, {1}, {}) :
               m \in {<< >>, <<2, 3>>, <<2, 4>>}}
    \cup {Hide(Op("select", <<PT(p), T(<<3>>), T(<<r>>)>>, NoAttrs, <<T(<<3>>)>>),
               {1, 2, 3}, {1}, {}) : p \in {<< >>, <<3>>}, r \in {3, 4}}
    \* Each operand has a bound in a dimension of its own.
    \cup {[Hide(Op(name, <<T(<<2, 3>>), T(<<2, 3>>)>>, NoAttrs, <<T(<<2, 3>>)>>), {1, 2}, {}, {})
              EXCEPT !.bounds = {{Place("operand", 1, 1), Place("operand", 2, 2)}}] :
               name \in {"add", "maximum"}}

Q(scales, zeroPoints, axis) == Quant(I(8), -128, 127, F(32), scales, zeroPoints, axis)
QT(scales, zeroPoints, axis, sizes) == Tensor(Q(scales, zeroPoints, axis), sizes)

DotDn(lb, rb, lc, rc) ==
    [dn |-> [lhsBatching |-> lb, rhsBatching |-> rb, lhsContracting |-> lc, rhsContracting |-> rc],
     isDefaultPrecisionConfig |-> TRUE, algorithm |-> << >>]
Algorithm(acc, components) ==
    [lhs |-> F(19), rhs |-> F(19), acc |-> acc, lhsComponents |-> components,
     rhsComponents |-> components, ops |-> 3, imprecise |-> FALSE]

Quantized ==
    {Hide(Op("add", <<QT(<<1>>, <<0>>, kDynamic, <<2>>), QT(<<1>>, <<0>>, kDynamic, <<2>>)>>,
             NoAttrs, <<QT(<<2>>, <<0>>, kDynamic, <<2>>)>>), {1, 2}, {1}, {}),
     Hide(Op("add", <<QT(<<1, 1>>, <<0, 0>>, 0, <<2>>), QT(<<1>>, <<0>>, kDynamic, <<2>>)>>,
             NoAttrs, <<QT(<<2>>, <<0>>, kDynamic, <<2>>)>>), {1, 2}, {1}, {}),
     Hide(Op("uniform_dequantize", <<QT(<<1, 1>>, <<0, 0>>, 0, <<2>>)>>, NoAttrs, <<T(<<2>>)>>),
          {}, {1}, {}),
     Hide(Op("uniform_quantize", <<T(<<2>>)>>, NoAttrs, <<QT(<<1>>, <<0>>, kDynamic, <<2>>)>>),
          {1}, {1}, {}),
     Hide(Op("transpose", <<QT(<<1, 1>>, <<0, 0>>, 0, <<2, 3>>)>>, [permutation |-> <<1, 0>>],
             <<QT(<<1, 1>>, <<0, 0>>, 1, <<3, 2>>)>>), {1}, {}, {}),
     Hide(Op("reshape", <<QT(<<1, 1>>, <<0, 0>>, 0, <<2, 3>>)>>, NoAttrs,
             <<QT(<<1, 1>>, <<0, 0>>, 1, <<3, 2>>)>>), {1}, {}, {}),
     Hide(Op("reshape", <<QT(<<1, 1>>, <<0, 0>>, 0, <<2, 3>>)>>, NoAttrs,
             <<QT(<<1, 1>>, <<0, 0>>, 0, <<2, 3>>)>>), {1}, {}, {}),
     Hide(Op("broadcast_in_dim", <<QT(<<1, 1>>, <<0, 0>>, 0, <<2>>)>>,
             [broadcastDimensions |-> <<1>>], <<QT(<<1, 1>>, <<0, 0>>, 1, <<3, 2>>)>>),
          {1}, {}, {}),
     Hide(Op("dot_general", <<T(<<2, 3>>), QT(<<1, 1>>, <<0, 0>>, 1, <<3, 2>>)>>,
             DotDn(<< >>, << >>, <<1>>, <<0>>), <<T(<<2, 2>>)>>), {1}, {1}, {})}

-----------------------------------------------------------------------------
Dots ==
    {Hide(Op("dot", <<T(<<2, 3>>), T(<<k, 4>>)>>, NoAttrs, <<T(<<2, 4>>)>>), {1, 2}, {1}, {}) :
        k \in {3, 5}}
    \cup {Hide(Op("dot", <<T(<<2>>), T(<<2>>)>>, NoAttrs, <<S>>), {1, 2}, {1}, {})}
    \cup {Hide(Op("dot_general", <<T(<<b, 2, 3>>), T(<<3, 2>>)>>, DotDn(<<0>>, <<1>>, <<2>>, <<0>>),
                  <<T(<<b, 2>>)>>), {1, 2}, {}, {}) : b \in {2, 3}}
    \cup {Hide(Op("dot_general", <<T(<<2, 3>>), T(<<4, k>>)>>, DotDn(<< >>, << >>, <<1>>, <<1>>),
                  <<T(<<2, r>>)>>), {1, 2}, {1}, {}) : k \in {3, 2}, r \in {4, 2}}
    \cup {Hide(Op("dot_general", <<T(<<2>>), T(<<2>>)>>,
                  [DotDn(<< >>, << >>, <<0>>, <<0>>) EXCEPT !.isDefaultPrecisionConfig = default,
                                                            !.algorithm = <<a>>], <<S>>),
               {1, 2}, {}, {}) :
            default \in BOOLEAN, a \in {Algorithm(F(32), 1), Algorithm(F(64), 1), Algorithm(F(32), 2)}}

ConvAttrs(fgc, bgc, pad) ==
    [dn |-> [inputBatch |-> 0, inputFeature |-> 1, inputSpatial |-> <<2>>,
             kernelInputFeature |-> 1, kernelOutputFeature |-> 0, kernelSpatial |-> <<2>>,
             outputBatch |-> 0, outputFeature |-> 1, outputSpatial |-> <<2>>],
     featureGroupCount |-> fgc, batchGroupCount |-> bgc, windowStrides |-> <<2>>,
     padding |-> pad, lhsDilation |-> <<2>>, rhsDilation |-> << >>, windowReversal |-> << >>]
Convolutions ==
    {Hide(Op("convolution", <<T(<<2, f, 4>>), T(<<2, 1, 3>>)>>, ConvAttrs(fgc, bgc, <<<<1, 1>>>>),
             <<T(<<2 \div bgc, 2, r>>)>>), {1, 2}, {}, {}) :
        f \in {1, 2}, fgc \in {1, 2}, bgc \in {1}, r \in {4}}
    \cup {Hide(Op("convolution", <<T(<<2, 1, 4>>), T(<<2, 1, 3>>)>>, ConvAttrs(1, bgc, <<<<1, 1>>>>),
             <<T(<<b, 2, r>>)>>), {1}, {1}, {}) : bgc \in {1, 2}, b \in {1, 2}, r \in {3, 4}}
    \cup {Hide(WithValues(Op("dynamic_conv", <<T(<<2, 1, 4>>), T(<<2, 1, 3>>), IT(<<1, 2>>)>>,
             ConvAttrs(1, 1, << >>), <<T(<<2, 2, 4>>)>>), <<Unknown, Unknown, <<1, 1>>>>),
             {1}, {1}, {3})}

-----------------------------------------------------------------------------
GatherDn == [offsetDims |-> <<1>>, collapsedSliceDims |-> <<0>>, operandBatchingDims |-> << >>,
             startIndicesBatchingDims |-> << >>, startIndexMap |-> <<0>>, indexVectorDim |-> 1]
BatchGatherDn == [offsetDims |-> <<1>>, collapsedSliceDims |-> << >>, operandBatchingDims |-> <<0>>,
             startIndicesBatchingDims |-> <<0>>, startIndexMap |-> <<1>>, indexVectorDim |-> 1]
ScatterDn == [updateWindowDims |-> <<1>>, insertedWindowDims |-> <<0>>, inputBatchingDims |-> << >>,
              scatterIndicesBatchingDims |-> << >>, scatterDimsToOperandDims |-> <<0>>,
              indexVectorDim |-> 1]
Gathers ==
    {Hide(Op("gather", <<T(<<3, 2>>), IT(<<4, 1>>)>>,
             [dn |-> GatherDn, sliceSizes |-> <<1, n>>, indicesAreSorted |-> sorted],
             <<T(<<4, n>>)>>), {1, 2}, {1}, {}) : n \in {2, 3}, sorted \in BOOLEAN}
    \cup {Hide(Op("gather", <<T(<<m, 2>>), IT(<<3>>)>>,
             [dn |-> BatchGatherDn, sliceSizes |-> <<1, 2>>, indicesAreSorted |-> FALSE],
             <<T(<<3, 2>>)>>), {1, 2}, {1}, {}) : m \in {2, 3}}
    \cup {Hide(WithValues(Op("dynamic_gather", <<T(<<3, 2>>), IT(<<4, 1>>), IT(<<2>>)>>,
             [dn |-> GatherDn], <<T(<<4, 2>>)>>), <<Unknown, Unknown, <<1, n>>>>),
             {1, 2}, {}, {3}) : n \in {2, 3}}
    \cup {Hide(WithRegions(Op("scatter", <<T(<<3, 2>>), IT(<<4, 1>>), T(<<4, n>>)>>,
             [dn |-> ScatterDn, uniqueIndices |-> unique, indicesAreSorted |-> FALSE],
             <<T(<<3, 2>>)>>), <<AddBlock>>), {1, 3}, {}, {}) : n \in {2, 3}, unique \in BOOLEAN}

-----------------------------------------------------------------------------
Window(sizes, strides, padding) ==
    [windowDimensions |-> sizes, windowStrides |-> strides, padding |-> padding,
     baseDilations |-> <<2, 1>>, windowDilations |-> << >>]
Shapes ==
    {Hide(Op("cholesky", <<T(<<2, n>>)>>, NoAttrs, <<T(<<2, n>>)>>), {1}, {1}, {}) : n \in {2, 3}}
    \cup {Hide(Op("fft", <<t>>, [fftType |-> "FFT", fftLength |-> <<3>>], <<t>>), {1}, {1}, {}) :
            t \in {Tensor(C(32), <<2, 3>>)}}
    \cup {Hide(Op("fft", <<T(<<2, n>>)>>, [fftType |-> "RFFT", fftLength |-> <<4>>],
                  <<Tensor(C(32), <<2, 3>>)>>), {1}, {1}, {}) : n \in {4, 5}}
    \cup {Hide(Op("fft", <<Tensor(C(32), <<2, n>>)>>, [fftType |-> "IRFFT", fftLength |-> <<4>>],
                  <<T(<<2, 4>>)>>), {1}, {1}, {}) : n \in {3, 4}}
    \cup {Hide(Op("get_dimension_size", <<T(<<2>>)>>, [dimension |-> d], <<IT(<< >>)>>), {1}, {}, {}) :
            d \in {0, 1}}
    \cup {Hide(Op("iota", << >>, [iotaDimension |-> d], <<IT(<<2>>)>>), {}, {}, {}) : d \in {0, 1}}
    \cup {Hide(WithValues(Op("dynamic_iota", <<IT(<<1>>)>>, [iotaDimension |-> 0], <<IT(<<n>>)>>),
                  <<<<2>>>>), {}, {1}, {1}) : n \in {2, 3}}
    \cup {Hide(Op("dynamic_update_slice", <<T(<<3, 2>>), T(<<u, 1>>), IT(<< >>), IT(<< >>)>>,
                  NoAttrs, <<T(<<3, 2>>)>>), {1, 2}, {1}, {}) : u \in {2, 4}}
    \cup {Hide(Op("dynamic_slice", <<T(<<3, 2>>), IT(<< >>), IT(<< >>)>>,
                  [sliceSizes |-> <<u, 1>>], <<T(<<u, 1>>)>>), {1}, {1}, {}) : u \in {2, 4}}
    \cup {Hide(Op("bitcast_convert", <<T(<<2, 4>>)>>, NoAttrs, <<Tensor(I(32), <<2, n>>)>>),
               {1}, {1}, {}) : n \in {4, 3}}
    \cup {Hide(Op("bitcast_convert", <<T(<<2>>)>>, NoAttrs, <<Tensor(I(8), <<2, 4>>)>>),
               {1}, {1}, {}),
          Hide(Op("bitcast_convert", <<Tensor(I(8), <<2, 4>>)>>, NoAttrs, <<T(<<2>>)>>),
               {1}, {1}, {})}
    \cup {Hide(Op("broadcast", <<T(<<2>>)>>, [broadcastSizes |-> <<3>>], <<T(<<3, 2>>)>>),
               {1}, {1}, {})}
    \cup {Hide(Op("broadcast_in_dim", <<T(<<n>>)>>, [broadcastDimensions |-> <<1>>], <<T(<<3, 2>>)>>),
               {1}, {}, {}) : n \in {1, 2, 3}}
    \cup {Hide(WithValues(Op("dynamic_broadcast_in_dim", <<T(<<n>>), IT(<<2>>)>>,
                  [broadcastDimensions |-> <<1>>, knownExpanding |-> << >>,
                   knownNonexpanding |-> << >>], <<T(<<3, r>>)>>), <<Unknown, <<3, 2>>>>),
               {1}, {1}, {2}) : n \in {1, 2, 3}, r \in {2, 3}}
    \cup {Hide(Op("concatenate", <<T(<<2, 3>>), T(<<n, 4>>)>>, [dimension |-> 1], <<T(<<2, 7>>)>>),
               {1, 2}, {1}, {}) : n \in {2, 3}}
    \cup {Hide(WithValues(Op("dynamic_reshape", <<T(<<2, n>>), IT(<<1>>)>>, NoAttrs, <<T(<<6>>)>>),
                  <<Unknown, <<6>>>>), {1}, {1}, {2}) : n \in {3, 4}}
    \cup {Hide(Op("reshape", <<T(<<2, n>>)>>, NoAttrs, <<T(<<3, 2>>)>>), {1}, {}, {}) : n \in {3, 4}}
    \cup {Hide(WithValues(Op("real_dynamic_slice", <<T(<<4>>), IT(<<1>>), IT(<<1>>), IT(<<1>>)>>,
                  NoAttrs, <<T(<<2>>)>>), <<Unknown, <<0>>, <<3>>, <<2>>>>), {1}, {1}, {2, 3, 4})}
    \cup {Hide(Op("reverse", <<T(<<2, 3>>)>>, [dimensions |-> dims], <<T(<<2, 3>>)>>), {1}, {1}, {}) :
            dims \in {<<0>>, <<0, 0>>}}
    \cup {Hide(WithValues(Op("rng", <<S, S, IT(<<2>>)>>, [isUniform |-> TRUE], <<T(<<2, 3>>)>>),
                  <<Unknown, Unknown, <<2, n>>>>), {}, {1}, {3}) : n \in {3, 4}}
    \cup {Hide(Op("rng_bit_generator", <<IT(<<n>>)>>, NoAttrs, <<IT(<<2>>), T(<<3>>)>>), {1}, {1}, {}) :
            n \in {2, 3}}
    \cup {Hide(WithValues(Op("set_dimension_size", <<T(<<2, 3>>), IT(<< >>)>>, [dimension |-> 1],
                  <<T(<<2, n>>)>>), <<Unknown, <<3>>>>), {1}, {1}, {2}) : n \in {3, 4}}
    \cup {Hide(Op("transpose", <<T(<<2, 3>>)>>, [permutation |-> p], <<T(<<n, 2>>)>>), {1}, {1}, {}) :
            p \in {<<1, 0>>, <<0, 1>>}, n \in {3, 4}}
    \cup {Hide(Op("pad", <<T(<<2, 3>>), S>>, [low |-> <<1, 0>>, high |-> <<0, 1>>,
                  interior |-> <<1, 2>>], <<T(<<4, n>>)>>), {1}, {1}, {}) : n \in {8, 9}}
    \cup {Hide(Op("pad", <<T(<<0, 1>>), S>>, [low |-> <<0, 0>>, high |-> <<1, 0>>,
                  interior |-> <<1, 1>>], <<T(<<1, 1>>)>>), {1}, {1}, {}),
          Hide(Op("pad", <<T(<<1, 1>>), S>>, [low |-> <<-2, 0>>, high |-> <<0, 0>>,
                  interior |-> <<0, 0>>], <<T(<<1, 1>>)>>), {1}, {1}, {})}
    \cup {Hide(WithValues(Op("dynamic_pad", <<T(<<n>>), S, IT(<<1>>), IT(<<1>>), IT(<<1>>)>>,
                  NoAttrs, <<T(<<n + 1 + Max({n - 1, 0})>>)>>), <<Unknown, Unknown, <<1>>, <<0>>, <<1>>>>),
               {1}, {1}, {3, 4, 5}) : n \in {0, 2}}
    \cup {Hide(Op("slice", <<T(<<4, 3>>)>>, [start |-> <<0, 1>>, limit |-> <<m, 3>>,
                  strides |-> <<2, 1>>], <<T(<<2, 2>>)>>), {1}, {1}, {}) : m \in {3, 4, 5}}
    \cup {Hide(Op("triangular_solve", <<T(<<2, n>>), T(<<2, 3>>)>>, [leftSide |-> TRUE,
                  unitDiagonal |-> unit], <<T(<<2, 3>>)>>), {1, 2}, {}, {}) :
            n \in {2, 3}, unit \in BOOLEAN}

-----------------------------------------------------------------------------
Regions ==
    {Hide(WithRegions(Op("map", <<T(<<2>>), T(<<n>>)>>, [dimensions |-> <<0>>], <<T(<<2>>)>>),
          <<AddBlock>>), {1, 2}, {1}, {}) : n \in {2, 3}}
    \cup {Hide(WithRegions(Op("reduce", <<T(<<2, 3>>), S>>, [dimensions |-> <<0>>], <<T(<<n>>)>>),
          <<AddBlock>>), {1}, {1}, {}) : n \in {3, 2}}
    \cup {Hide(WithRegions(Op("reduce", <<T(<<2, 3>>), IT(<<2, n>>), S, IT(<< >>)>>,
                  [dimensions |-> <<1>>], <<T(<<2>>), IT(<<2>>)>>),
          <<Block(<<S, IT(<< >>), S, IT(<< >>)>>, <<S, IT(<< >>)>>)>>), {1, 2}, {1}, {}) :
            n \in {3, 2}}
    \cup {Hide(WithRegions(Op("reduce_window", <<T(<<2, 3>>), S>>,
                  Window(<<2, 2>>, <<1, 2>>, <<<<0, 0>>, <<1, 0>>>>), <<T(<<2, n>>)>>),
          <<AddBlock>>), {1}, {1}, {}) : n \in {2, 3}}
    \cup {Hide(WithRegions(Op("select_and_scatter", <<T(<<4, 2>>), T(<<2, 2>>), S>>,
                  [windowDimensions |-> <<2, 1>>, windowStrides |-> <<2, 1>>, padding |-> << >>],
                  <<T(<<n, 2>>)>>), <<CompareBlock, AddBlock>>), {1}, {1}, {}) : n \in {4, 3}}
    \cup {Hide(WithRegions(Op("sort", <<T(<<2, 3>>)>>, [dimension |-> d], <<T(<<2, 3>>)>>),
          <<CompareBlock>>), {1}, {1}, {}) : d \in {-1, 1, 2}}
    \cup {Hide(WithRegions(Op(name, <<IF name = "if" THEN PT(<< >>) ELSE IT(<< >>)>>, NoAttrs,
                  <<T(<<2>>)>>), <<Block(<< >>, <<T(<<2>>)>>), Block(<< >>, <<T(<<n>>)>>)>>),
               {}, {1}, {}) : name \in {"if", "case"}, n \in {2, 3}}
    \cup {Hide(WithRegions(Op("while", <<T(<<2>>)>>, NoAttrs, <<T(<<2>>)>>),
          <<Block(<<T(<<2>>)>>, <<PT(<< >>)>>), Block(<<T(<<2>>)>>, <<T(<<2>>)>>)>>), {1}, {1}, {})}
    \cup {Hide(Op("batch_norm_training", <<T(<<2, 3>>), T(<<n>>), T(<<3>>)>>, [featureIndex |-> 1],
                  <<T(<<2, 3>>), T(<<3>>), T(<<3>>)>>), {1, 2}, {2}, {}) : n \in {3, 2}}
    \cup {Hide(Op("batch_norm_inference", <<T(<<2, 3>>), T(<<3>>), T(<<3>>), T(<<n>>), T(<<3>>)>>,
                  [featureIndex |-> 1], <<T(<<2, 3>>)>>), {1, 4}, {1}, {}) : n \in {3, 2}}
    \cup {Hide(Op("batch_norm_grad", <<T(<<2, 3>>), T(<<3>>), T(<<3>>), T(<<3>>), T(<<2, n>>)>>,
                  [featureIndex |-> 1], <<T(<<2, 3>>), T(<<3>>), T(<<3>>)>>), {1, 5}, {2}, {}) :
            n \in {3, 2}}

-----------------------------------------------------------------------------
Groups == <<<<0, 1>>, <<2, 3>>>>
CollectiveAttrs == [dim |-> 0, replicaGroups |-> Groups, channelId |-> 1,
    useGlobalDeviceIds |-> TRUE, hasDynamicRoot |-> FALSE, splitDimension |-> 0,
    concatDimension |-> 1, splitCount |-> 2, sourceTargetPairs |-> <<<<0, 1>>, <<1, 0>>>>]
Collectives ==
    {Hide(Op("all_gather", <<T(<<2, 3>>), T(<<2, n>>)>>, CollectiveAttrs, <<T(<<4, 3>>), T(<<4, 3>>)>>),
          {1, 2}, {1}, {}) : n \in {3, 2}}
    \cup {Hide(WithRegions(Op("all_reduce", <<T(<<2>>)>>, CollectiveAttrs, <<T(<<n>>)>>), <<AddBlock>>),
               {1}, {1}, {}) : n \in {2, 3}}
    \cup {Hide(WithRegions(Op("reduce_scatter", <<T(<<4, 3>>)>>, CollectiveAttrs, <<T(<<r, n>>)>>),
               <<AddBlock>>), {1}, {1}, {}) : r \in {2, 3}, n \in {3, 2}}
    \cup {Hide(Op("all_to_all", <<T(<<n, 3>>)>>, CollectiveAttrs, <<T(<<2, 6>>)>>), {1}, {1}, {}) :
               n \in {4, 5}}
    \cup {Hide(Op("collective_broadcast", <<T(<<2>>)>>, CollectiveAttrs, <<T(<<2>>)>>), {1}, {1}, {}),
          Hide(Op("collective_broadcast", <<T(<<2>>), IT(<<1>>)>>,
                  [CollectiveAttrs EXCEPT !.hasDynamicRoot = TRUE], <<T(<<2>>)>>), {1}, {1}, {})}
    \cup {Hide(WithRegions(Op("collective_reduce", <<T(<<2>>)>>, CollectiveAttrs, <<T(<<n>>)>>),
               <<AddBlock>>), {1}, {1}, {}) : n \in {2, 3}}
    \cup {Hide(Op("collective_permute", <<T(<<2>>)>>, [CollectiveAttrs EXCEPT !.sourceTargetPairs = p],
               <<T(<<2>>)>>), {1}, {1}, {}) : p \in {<<<<0, 1>>, <<1, 0>>>>, <<<<0, 1>>, <<0, 2>>>>}}

TokensAndTuples ==
    {Hide(Op(name, << >>, NoAttrs, <<TokenType>>), {}, {}, {}) :
        name \in {"after_all", "create_token", "outfeed"}}
    \cup {Hide(Op(name, << >>, NoAttrs, <<Tensor(U(32), << >>)>>), {}, {}, {}) :
        name \in {"replica_id", "partition_id"}}
    \cup {Hide(Op("constant", << >>, [type |-> T(<<2>>)], <<T(<<2>>)>>), {}, {}, {})}
    \cup {Hide(Op("infeed", <<TokenType>>, [layout |-> << >>], <<T(<<2>>), TokenType>>), {}, {}, {}),
          Hide(Op("infeed", <<TokenType>>, [layout |-> << >>], <<TokenType, T(<<2>>)>>), {}, {}, {})}
    \cup {Hide(Op("send", <<T(<<2>>), TokenType>>, [channelType |-> t, isHostTransfer |-> h],
                  <<TokenType>>), {1}, {}, {}) : t \in 1..3, h \in BOOLEAN}
    \cup {Hide(Op("recv", <<TokenType>>, [channelType |-> t, isHostTransfer |-> h],
                  <<T(<<2>>), TokenType>>), {}, {1}, {}) : t \in 1..3, h \in BOOLEAN}
    \cup {Hide(Op("optimization_barrier", <<T(<<2>>), TokenType>>, NoAttrs, <<T(<<2>>), TokenType>>),
               {}, {}, {})}
    \cup {Hide(Op("get_tuple_element", <<T(<<2>>), T(<<3>>)>>, [index |-> n], <<T(<<3>>)>>),
               {2}, {1}, {}) : n \in 0..2}
    \cup {Hide(Op("tuple", <<T(<<2>>), TokenType>>, NoAttrs, <<T(<<2>>), TokenType>>), {1}, {1}, {})}
    \cup {Hide(Op("composite", <<T(<<2>>)>>, [nameIsValid |-> TRUE,
                  decomposition |-> <<Block(<<T(<<2>>)>>, <<T(<<n>>)>>)>>], <<T(<<2>>)>>), {}, {}, {}) :
               n \in {2, 3}}
    \cup {Hide(WithRegions(Op("async_start", <<T(<<2>>)>>, [bodyIsOneAsyncOp |-> b], <<T(<<2>>)>>),
               <<Block(<<T(<<2>>)>>, <<T(<<2>>)>>)>>), {}, {1}, {}) : b \in BOOLEAN}
    \cup {Hide(Op("async_done", <<T(<<2>>)>>, NoAttrs, <<T(<<2>>)>>), {}, {1}, {})}
    \cup {Hide(Op("custom_call", <<T(<<2, 3>>)>>,
                  [operandLayouts |-> <<<<l>>>>, resultLayouts |-> <<<<<<0, 1>>>>>>,
                   aliases |-> <<[operand |-> a, output |-> 0]>>, backendConfig |-> "dictionary",
                   isTypedFfi |-> ffi], <<T(<<2, 3>>)>>), {}, {}, {}) :
               l \in {<<1, 0>>, <<0, 0>>}, a \in {0, 1}, ffi \in BOOLEAN}

MCRuntimeOps == Elementwise \cup Quantized \cup Dots \cup Convolutions \cup Gathers \cup Shapes
                   \cup Regions \cup Collectives \cup TokensAndTuples

============================================================================
