------------------------------ MODULE Sequence ------------------------------
(***************************************************************************)
(* Message ids: RedisDriver.GenerateID and nextSeqScript.                  *)
(*                                                                         *)
(* An id is md5("<channel>:<epoch>:<seq>").  Two such texts are equal only *)
(* if channel, epoch and number are: the last two parts hold digits only,  *)
(* and tostring prints numbers of up to 14 digits in full, which is more   *)
(* than maxMessageSequence has.  md5 is taken to be free of collisions, so *)
(* an id of one channel is the pair <<epoch, seq>>.  A counter key that    *)
(* does not exist counts as 0, which is what INCR and `if not epoch' make  *)
(* of it.                                                                  *)
(***************************************************************************)
EXTENDS Integers

CONSTANTS
    Calls,      \* calls of GenerateID, by any number of producers
    MaxSeq,     \* maxMessageSequence
    MaxLost     \* how many replies are lost at most (a bound for TLC)

ASSUME SequenceAssumption == MaxSeq \in Nat /\ MaxLost \in Nat

VARIABLES
    seq,        \* SequenceKey
    epoch,      \* SequenceEpoch
    got,        \* call -> the id it returned
    lost        \* history: replies lost so far

seqVars == <<seq, epoch, got, lost>>

NoId == <<-1, -1>>
AllIds == Nat \X Nat

SequenceInit ==
    /\ seq = 0
    /\ epoch = 0
    /\ got = [c \in Calls |-> NoId]
    /\ lost = 0

\* Mutant: the sequence starts again in the same epoch.
nextSeqSameEpoch ==
    /\ seq' = IF seq + 1 > MaxSeq THEN 0 ELSE seq + 1
    /\ UNCHANGED epoch

\* Mutant: the limit is passed by one before the sequence starts again.
nextSeqPastLimit ==
    IF seq > MaxSeq
    THEN seq' = 0       /\ epoch' = epoch + 1
    ELSE seq' = seq + 1 /\ UNCHANGED epoch

nextSeqScript ==
    IF seq + 1 > MaxSeq
    THEN seq' = 0       /\ epoch' = epoch + 1
    ELSE seq' = seq + 1 /\ UNCHANGED epoch

\* The script runs; its reply arrives, or it is lost and go-redis sends the
\* script once more.
GenerateID(c) ==
    /\ got[c] = NoId
    /\ nextSeqScript
    /\ \/ got' = [got EXCEPT ![c] = <<epoch', seq'>>] /\ UNCHANGED lost
       \/ lost < MaxLost /\ lost' = lost + 1 /\ UNCHANGED got

SequenceNext == \E c \in Calls : GenerateID(c)

SequenceSpec == SequenceInit /\ [][SequenceNext]_seqVars

-----------------------------------------------------------------------------
(* Properties. *)

\* The number never passes maxMessageSequence.
SequenceTypeOK ==
    /\ seq \in 0..MaxSeq /\ epoch \in Nat /\ lost \in Nat
    /\ got \in [Calls -> AllIds \cup {NoId}]

\* No two calls get one id, however often the sequence starts over at
\* maxMessageSequence and however many scripts ran twice.
UniqueIds == \A c, d \in Calls : got[c] = got[d] /\ got[c] # NoId => c = d

\* Why: the counters only move on, and what was handed out lies behind them.
BehindCounters ==
    \A c \in Calls : got[c] # NoId =>
        \/ got[c][1] < epoch
        \/ got[c][1] = epoch /\ got[c][2] <= seq
=============================================================================
