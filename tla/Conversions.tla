----------------------------- MODULE Conversions -----------------------------
(***************************************************************************)
(* What a document becomes, and how much of it: the documents before the   *)
(* books (Pipelines) and the receipts and returns against the lines of     *)
(* those in the books (Fulfilment).  They share no table that either locks *)
(* or reads, so a step of the whole is a step of one of them.              *)
(***************************************************************************)
EXTENDS Pipelines, Fulfilment

ConversionInit == PipelineInit /\ FulfilmentInit
ConversionNext ==
    \/ PipelineNext /\ UNCHANGED fulfilment
    \/ FulfilmentNext /\ UNCHANGED pipeline
ConversionSpec == ConversionInit /\ [][ConversionNext]_<<pipeline, fulfilment>>

\* What becomes of a quotation or an order happens once, the goods that left match the
\* bills, and receipts and returns stay within their source lines.
PipelineInOrder == OneOfEach /\ GoodsMatchBill /\ WithinSource
=============================================================================
