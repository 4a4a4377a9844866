--------------------------- MODULE SequenceProofs ---------------------------
(***************************************************************************)
(* GenerateID hands out no id twice, for any maxMessageSequence (0         *)
(* included), any number of calls and any number of scripts that ran       *)
(* twice.                                                                  *)
(***************************************************************************)
EXTENDS Sequence, TLAPS

SeqInv == SequenceTypeOK /\ BehindCounters /\ UniqueIds

\* The id a run of nextSeqScript returns lies ahead of all earlier ones.
LEMMA ScriptMovesOn ==
    ASSUME SequenceTypeOK, BehindCounters, nextSeqScript
    PROVE  /\ seq' \in 0..MaxSeq /\ epoch' \in Nat
           /\ \/ epoch < epoch'
              \/ epoch = epoch' /\ seq < seq'
           /\ \A c \in Calls : got[c] # <<epoch', seq'>>
<1>1. /\ seq' \in 0..MaxSeq /\ epoch' \in Nat
      /\ \/ epoch < epoch'
         \/ epoch = epoch' /\ seq < seq'
    BY SequenceAssumption DEF SequenceTypeOK, nextSeqScript
<1>2. ASSUME NEW c \in Calls, got[c] = <<epoch', seq'>>
      PROVE  FALSE
    <2>1. got[c] # NoId
        BY <1>1, <1>2 DEF NoId
    <2>2. \/ epoch' < epoch
          \/ epoch' = epoch /\ seq' <= seq
        BY <1>2, <2>1 DEF BehindCounters
    <2> QED  BY <1>1, <2>2 DEF SequenceTypeOK
<1> QED  BY <1>1, <1>2

LEMMA SeqInit == SequenceInit => SeqInv
<1> SUFFICES ASSUME SequenceInit PROVE SeqInv
    OBVIOUS
<1>1. SequenceTypeOK
    BY SequenceAssumption DEF SequenceInit, SequenceTypeOK, NoId
<1> QED  BY <1>1 DEF SequenceInit, SeqInv, BehindCounters, UniqueIds

LEMMA GenerateIDInv ==
    ASSUME SeqInv, NEW c \in Calls, GenerateID(c)
    PROVE  SeqInv'
<1> USE DEF SeqInv
<1> DEFINE new == <<epoch', seq'>>
<1>1. /\ seq' \in 0..MaxSeq /\ epoch' \in Nat
      /\ \/ epoch < epoch'
         \/ epoch = epoch' /\ seq < seq'
      /\ \A d \in Calls : got[d] # new
    BY ScriptMovesOn DEF GenerateID
<1>2. CASE got' = [got EXCEPT ![c] = new] /\ UNCHANGED lost
    <2>1. new \in AllIds /\ new # NoId
        BY <1>1, SequenceAssumption DEF AllIds, NoId
    <2>2. SequenceTypeOK'
        BY <1>1, <1>2, <2>1 DEF SequenceTypeOK
    <2>3. BehindCounters'
        BY <1>1, <1>2, SequenceAssumption DEF SequenceTypeOK, BehindCounters, AllIds, NoId
    <2>4. UniqueIds'
        BY <1>1, <1>2 DEF SequenceTypeOK, UniqueIds
    <2> QED  BY <2>2, <2>3, <2>4
<1>3. CASE lost' = lost + 1 /\ UNCHANGED got
    <2>1. SequenceTypeOK'
        BY <1>1, <1>3 DEF SequenceTypeOK
    <2>2. BehindCounters'
        BY <1>1, <1>3, SequenceAssumption DEF SequenceTypeOK, BehindCounters, AllIds, NoId
    <2>3. UniqueIds'
        BY <1>3 DEF UniqueIds
    <2> QED  BY <2>1, <2>2, <2>3
<1> QED  BY <1>2, <1>3 DEF GenerateID

LEMMA SeqNextInv == SeqInv /\ [SequenceNext]_seqVars => SeqInv'
<1> SUFFICES ASSUME SeqInv, [SequenceNext]_seqVars PROVE SeqInv'
    OBVIOUS
<1>1. CASE SequenceNext
    BY <1>1, GenerateIDInv DEF SequenceNext
<1>2. CASE UNCHANGED seqVars
    BY <1>2 DEF seqVars, SeqInv, SequenceTypeOK, BehindCounters, UniqueIds
<1> QED  BY <1>1, <1>2

\* No two calls of GenerateID on a channel get one id, across every restart of
\* the sequence at maxMessageSequence and every script that ran twice.
THEOREM IdsUnique == SequenceSpec => [](SequenceTypeOK /\ UniqueIds)
<1>1. SeqInv => SequenceTypeOK /\ UniqueIds
    BY DEF SeqInv
<1> QED  BY <1>1, SeqInit, SeqNextInv, PTL DEF SequenceSpec
=============================================================================
