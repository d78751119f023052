------------------------ MODULE CompatibilityExpander ------------------------
(***************************************************************************)
(* StablehloCompatibilityExpander.cpp for a target before 1.1.0, which has *)
(* gather and scatter without batching dimensions: a batching dimension    *)
(* becomes a collapsed one, and its index comes from an iota that is put   *)
(* before the indices.                                                     *)
(***************************************************************************)
EXTENDS AggressiveSimplification

mergeSortedDims(dims1, dims2) == SortSeq(dims1 \o dims2, <)

\* llvm::isUIntN, llvm::isIntN; sizes are below 2^31.
fitsInIntegralType(size, et) ==
    LET bits == IF et.k = "ui" THEN et.w ELSE et.w - 1 IN bits >= 31 \/ size < 2 ^ bits
promoteTypeForSize(et, size) ==
    IF et.k \notin {"i", "ui"} \/ fitsInIntegralType(size, et) THEN et
    ELSE IF fitsInIntegralType(size, I(32)) THEN I(32) ELSE I(64)

getUpdatedIndicesAreSorted(indicesAreSorted, indicesBatchingDims, updatedIndexMap) ==
    indicesAreSorted /\ is_sorted(indicesBatchingDims) /\ is_sorted(updatedIndexMap)

\* The ops that compute the new indices; the last one has them as its result.
createConcatIndices(b, indices, indexVectorDim, batchingDims) ==
    LET et == FoldLeft(LAMBDA t, d : promoteTypeForSize(t, SizeAt(indices.type, d)), indices.type.et, batchingDims)
        shape == Sizes(indices.type)
        onLastDim == indexVectorDim = Len(shape)
        iotaType == Tensor(et, IF onLastDim THEN Append(shape, 1) ELSE [shape EXCEPT ![indexVectorDim + 1] = 1])
        converted == IF et = indices.type.et THEN << >>
                     ELSE <<OpOf("convert", <<indices>>, NoAttrs, <<Fresh(b, 1, Tensor(et, shape))>>)>>
        promoted == IF converted = << >> THEN indices ELSE converted[1].outs[1]
        reshaped == IF onLastDim THEN <<OpOf("reshape", <<promoted>>, NoAttrs, <<Fresh(b, 2, iotaType)>>)>> ELSE << >>
        last == IF onLastDim THEN reshaped[1].outs[1] ELSE promoted
        iotas == [i \in DOMAIN batchingDims |->
                    OpOf("iota", << >>, [iotaDimension |-> batchingDims[i]], <<Fresh(b, 3 + i, iotaType)>>)]
        toConcat == Append([i \in DOMAIN iotas |-> iotas[i].outs[1]], last)
    IN  converted \o reshaped \o iotas
          \o <<Inferred(b, 3, "concatenate", toConcat, [dimension |-> indexVectorDim])>>

GatherWithBatchingDimsExpander(b, o) ==
    LET dn == o.attrs.dn
        newStartIndexMap == dn.operandBatchingDims \o dn.startIndexMap
        ops == createConcatIndices(b, o.ins[2], dn.indexVectorDim, dn.startIndicesBatchingDims)
        attrs == [o.attrs EXCEPT
            !.dn = [dn EXCEPT !.collapsedSliceDims = mergeSortedDims(dn.operandBatchingDims, @),
                              !.operandBatchingDims = << >>, !.startIndicesBatchingDims = << >>,
                              !.startIndexMap = newStartIndexMap],
            !.indicesAreSorted = getUpdatedIndicesAreSorted(@, dn.startIndicesBatchingDims, newStartIndexMap)]
    IN  When(dn.operandBatchingDims # << >> /\ isStaticShape(o.ins[2].type),
             ReplaceWithOps(Append(ops, Inferred(b, 4 + Len(dn.operandBatchingDims), "gather",
                                                 <<o.ins[1], Last(ops).outs[1]>>, attrs))))

ScatterWithBatchingDimsExpander(b, o) ==
    LET dn == o.attrs.dn
        indices == (Len(o.ins) + 1) \div 2
        newScatterDimsToOperandDims == dn.inputBatchingDims \o dn.scatterDimsToOperandDims
        ops == createConcatIndices(b, o.ins[indices], dn.indexVectorDim, dn.scatterIndicesBatchingDims)
        attrs == [o.attrs EXCEPT
            !.dn = [dn EXCEPT !.insertedWindowDims = mergeSortedDims(dn.inputBatchingDims, @),
                              !.inputBatchingDims = << >>, !.scatterIndicesBatchingDims = << >>,
                              !.scatterDimsToOperandDims = newScatterDimsToOperandDims],
            !.indicesAreSorted =
                getUpdatedIndicesAreSorted(@, dn.scatterIndicesBatchingDims, newScatterDimsToOperandDims)]
    IN  When(dn.inputBatchingDims # << >> /\ isStaticShape(o.ins[indices].type),
             ReplaceWithOps(Append(ops, [o EXCEPT !.ins[indices] = Last(ops).outs[1], !.attrs = attrs])))

CompatibilityExpanderPatterns(b, o) ==
    CASE o.name = "gather" -> {GatherWithBatchingDimsExpander(b, o)}
      [] o.name = "scatter" -> {ScatterWithBatchingDimsExpander(b, o)}
      [] OTHER -> {}
============================================================================
