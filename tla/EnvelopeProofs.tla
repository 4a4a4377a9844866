--------------------------- MODULE EnvelopeProofs ---------------------------
(***************************************************************************)
(* A handler gets the payload of its own message, for any set of calls and *)
(* fields, any number of rewrites by scripts, of resent pushes and of      *)
(* Retry calls with an old body.  The proof rests on the ids being unique  *)
(* (module SequenceProofs): a key of the store names one call.             *)
(***************************************************************************)
EXTENDS Envelope, SequenceProofs

\* Every key that holds a payload is an id some call was given.
Keyed ==
    /\ claims \subseteq DOMAIN stored
    /\ \A id \in DOMAIN stored \cup DOMAIN held : id # NoId /\ \E c \in Calls : got[c] = id
    /\ delivered = [c \in Calls |-> delivered[c]]

EnvelopeInv == SeqInv /\ Keyed /\ CopiesOwn /\ DeliversOwn

-----------------------------------------------------------------------------
(* The operators. *)

\* The second rewrite of an entity by cjson changes nothing.
LEMMA RoundTripIdempotent ==
    ASSUME NEW p
    PROVE  cjsonRoundTrip(cjsonRoundTrip(p)) = cjsonRoundTrip(p)
<1> DEFINE q == cjsonRoundTrip(p)
<1>1. \A f \in Fields : q[f] # "emptylist" /\ q[f] # "long"
    BY DEF cjsonRoundTrip
<1>2. q = [f \in Fields |-> q[f]]
    BY DEF cjsonRoundTrip
<1>3. cjsonRoundTrip(q) = [f \in Fields |-> q[f]]
    <2> HIDE DEF q
    <2> QED  BY <1>1 DEF cjsonRoundTrip
<1> QED  BY <1>2, <1>3

LEMMA RewriteKeepsOwn ==
    ASSUME NEW p, NEW c \in Calls, IsPayloadOf(p, c)
    PROVE  IsPayloadOf(cjsonRoundTrip(p), c)
BY RoundTripIdempotent DEF IsPayloadOf

-----------------------------------------------------------------------------
(* Steps. *)

LEMMA EnvelopeInit == Init => EnvelopeInv
<1> SUFFICES ASSUME Init PROVE EnvelopeInv
    OBVIOUS
<1>1. SeqInv
    BY SeqInit DEF Init
<1>2. DOMAIN stored = {} /\ DOMAIN held = {}
    BY DEF Init
<1>3. Keyed
    BY <1>2 DEF Init, Keyed
<1>4. CopiesOwn
    BY <1>2 DEF CopiesOwn
<1>5. DeliversOwn
    BY DEF Init, DeliversOwn
<1> QED  BY <1>1, <1>3, <1>4, <1>5 DEF EnvelopeInv

\* The id a call gets is not the key of anything yet.
LEMMA IssueInv ==
    ASSUME EnvelopeInv, NEW c \in Calls, Issue(c)
    PROVE  EnvelopeInv'
<1> USE DEF EnvelopeInv
<1>1. SeqInv'
    BY GenerateIDInv DEF Issue
<1>2. UNCHANGED <<payload, acked, stored, claims, held, delivered>>
    BY DEF Issue, envelopeVars
<1>3. got[c] = NoId /\ \A d \in Calls : d # c => got'[d] = got[d]
    BY DEF Issue, GenerateID, SeqInv, SequenceTypeOK
<1>4. got'[c] # NoId => got'[c] \notin DOMAIN stored \cup DOMAIN held
    <2> SUFFICES ASSUME got'[c] # NoId, got'[c] \in DOMAIN stored \cup DOMAIN held
                 PROVE  FALSE
        OBVIOUS
    <2>1. PICK d \in Calls : got[d] = got'[c] /\ got[d] # NoId
        BY DEF Keyed
    <2>2. d # c /\ got'[d] = got'[c]
        BY <1>3, <2>1
    <2> QED  BY <1>1, <2>1, <2>2 DEF SeqInv, UniqueIds
<1>5. Keyed'
    BY <1>2, <1>3 DEF Keyed
<1>6. CopiesOwn'
    BY <1>2, <1>3, <1>4, <1>5 DEF Keyed, CopiesOwn, IsPayloadOf
<1>7. DeliversOwn'
    BY <1>2 DEF DeliversOwn, IsPayloadOf
<1> QED  BY <1>1, <1>5, <1>6, <1>7

\* A payload written to one key, which is its call's own, keeps the copies in
\* the right places.
LEMMA WriteInv ==
    ASSUME EnvelopeInv, NEW c \in Calls, NEW p, got[c] # NoId, IsPayloadOf(p, c),
           stored' = Set(stored, got[c], p),
           UNCHANGED <<seq, epoch, got, payload, delivered>>, lost' \in Nat,
           claims' \subseteq claims \cup {got[c]},
           DOMAIN held' \subseteq DOMAIN held, \A i \in DOMAIN held' : held'[i] = held[i]
    PROVE  EnvelopeInv'
<1> USE DEF EnvelopeInv
<1>1. SeqInv'
    BY DEF SeqInv, SequenceTypeOK, BehindCounters, UniqueIds
<1>2. /\ DOMAIN stored' = DOMAIN stored \cup {got[c]}
      /\ stored'[got[c]] = p
      /\ \A i \in DOMAIN stored : i # got[c] => stored'[i] = stored[i]
    BY DEF Set
<1>3. Keyed'
    BY <1>2 DEF Keyed
<1>4. CopiesOwn'
    <2>1. ASSUME NEW d \in Calls, got[d] # NoId, got[d] \in DOMAIN stored'
          PROVE  IsPayloadOf(stored'[got[d]], d)
        <3>1. CASE d = c
            BY <1>2, <3>1
        <3>2. CASE d # c
            <4>1. got[d] # got[c]
                BY <2>1, <3>2 DEF SeqInv, UniqueIds
            <4> QED  BY <1>2, <2>1, <4>1 DEF CopiesOwn
        <3> QED  BY <3>1, <3>2
    <2>2. ASSUME NEW d \in Calls, got[d] # NoId, got[d] \in DOMAIN held'
          PROVE  IsPayloadOf(held'[got[d]], d)
        BY <2>2 DEF CopiesOwn
    <2> QED  BY <1>3, <2>1, <2>2 DEF CopiesOwn, Keyed, IsPayloadOf
<1>5. DeliversOwn'
    BY DEF DeliversOwn, IsPayloadOf
<1> QED  BY <1>1, <1>3, <1>4, <1>5

LEMMA StoreInv ==
    ASSUME EnvelopeInv, NEW c \in Calls, Store(c)
    PROVE  EnvelopeInv'
<1>1. IsPayloadOf(payload[c], c)
    BY DEF IsPayloadOf
<1>2. lost' \in Nat
    BY DEF Store, EnvelopeInv, SeqInv, SequenceTypeOK
<1> QED  BY <1>1, <1>2, WriteInv DEF Store

\* A key of the store, and the call it belongs to.
LEMMA KeyHasCall ==
    ASSUME EnvelopeInv, NEW id \in DOMAIN stored
    PROVE  \E c \in Calls : got[c] = id /\ got[c] # NoId /\ IsPayloadOf(stored[id], c)
BY DEF EnvelopeInv, Keyed, CopiesOwn

LEMMA RewriteInv ==
    ASSUME EnvelopeInv, NEW id \in DOMAIN stored, PopRewrite(id) \/ StatusRewrite(id)
    PROVE  EnvelopeInv'
<1>1. PICK c \in Calls : got[c] = id /\ got[c] # NoId /\ IsPayloadOf(stored[id], c)
    BY KeyHasCall
<1> DEFINE p == cjsonRoundTrip(stored[id])
<1>2. IsPayloadOf(p, c)
    BY <1>1, RewriteKeepsOwn
<1>3. /\ stored' = Set(stored, got[c], p)
      /\ UNCHANGED <<seq, epoch, got, lost, payload, delivered, held>>
      /\ claims' \subseteq claims \cup {got[c]}
    BY <1>1 DEF PopRewrite, StatusRewrite, seqVars
<1>4. lost' \in Nat
    BY <1>3 DEF EnvelopeInv, SeqInv, SequenceTypeOK
<1> HIDE DEF p
<1> QED  BY <1>1, <1>2, <1>3, <1>4, WriteInv

LEMMA RetryLoadInv ==
    ASSUME EnvelopeInv, NEW id \in DOMAIN stored, RetryLoad(id)
    PROVE  EnvelopeInv'
<1> USE DEF EnvelopeInv
<1>1. UNCHANGED <<seq, epoch, got, lost, payload, acked, stored, claims, delivered>>
    BY DEF RetryLoad, seqVars
<1>2. /\ DOMAIN held' = DOMAIN held \cup {id}
      /\ held'[id] = stored[id]
      /\ \A i \in DOMAIN held : i # id => held'[i] = held[i]
    BY DEF RetryLoad, Set
<1>3. SeqInv'
    BY <1>1 DEF SeqInv, SequenceTypeOK, BehindCounters, UniqueIds
<1>4. Keyed'
    BY <1>1, <1>2 DEF Keyed
<1>5. CopiesOwn'
    BY <1>1, <1>2 DEF CopiesOwn, IsPayloadOf
<1>6. DeliversOwn'
    BY <1>1 DEF DeliversOwn, IsPayloadOf
<1> QED  BY <1>3, <1>4, <1>5, <1>6

\* What Retry writes back is an older copy of the same call.
LEMMA RetryWriteInv ==
    ASSUME EnvelopeInv, NEW id \in DOMAIN stored, RetryWrite(id)
    PROVE  EnvelopeInv'
<1>1. PICK c \in Calls : got[c] = id /\ got[c] # NoId
    BY KeyHasCall
<1>2. IsPayloadOf(held[id], c)
    BY <1>1 DEF RetryWrite, EnvelopeInv, CopiesOwn
<1>3. /\ stored' = Set(stored, got[c], held[id])
      /\ UNCHANGED <<seq, epoch, got, lost, payload, delivered, claims>>
    BY <1>1 DEF RetryWrite, seqVars
<1>4. DOMAIN held' \subseteq DOMAIN held /\ \A i \in DOMAIN held' : held'[i] = held[i]
    BY DEF RetryWrite
<1>5. lost' \in Nat
    BY <1>3 DEF EnvelopeInv, SeqInv, SequenceTypeOK
<1> QED  BY <1>1, <1>2, <1>3, <1>4, <1>5, WriteInv

LEMMA DeliverInv ==
    ASSUME EnvelopeInv, NEW c \in Calls, Deliver(c)
    PROVE  EnvelopeInv'
<1> USE DEF EnvelopeInv
<1>1. UNCHANGED <<seq, epoch, got, lost, payload, acked, stored, held>>
    BY DEF Deliver, seqVars
<1>2. claims' \subseteq claims /\ delivered' = [delivered EXCEPT ![c] = stored[got[c]]]
    BY DEF Deliver
<1>3. SeqInv'
    BY <1>1 DEF SeqInv, SequenceTypeOK, BehindCounters, UniqueIds
<1>4. Keyed'
    <2>1. delivered' = [d \in Calls |-> delivered'[d]]
        BY <1>2 DEF Keyed
    <2> QED  BY <1>1, <1>2, <2>1 DEF Keyed
<1>5. CopiesOwn'
    BY <1>1 DEF CopiesOwn, IsPayloadOf
<1>6. IsPayloadOf(stored[got[c]], c)
    BY DEF Deliver, Keyed, CopiesOwn
<1>7. delivered'[c] = stored[got[c]] /\ \A d \in Calls : d # c => delivered'[d] = delivered[d]
    BY <1>2 DEF Keyed
<1>8. DeliversOwn'
    BY <1>1, <1>6, <1>7 DEF DeliversOwn, IsPayloadOf
<1> QED  BY <1>3, <1>4, <1>5, <1>8

LEMMA EnvelopeNextInv == EnvelopeInv /\ [Next]_vars => EnvelopeInv'
<1> SUFFICES ASSUME EnvelopeInv, [Next]_vars PROVE EnvelopeInv'
    OBVIOUS
<1>1. CASE \E c \in Calls : Issue(c) \/ Store(c) \/ Deliver(c)
    BY <1>1, IssueInv, StoreInv, DeliverInv
<1>2. CASE \E id \in DOMAIN stored : PopRewrite(id) \/ StatusRewrite(id)
                                     \/ RetryLoad(id) \/ RetryWrite(id)
    BY <1>2, RewriteInv, RetryLoadInv, RetryWriteInv
<1>3. CASE UNCHANGED vars
    BY <1>3 DEF vars, EnvelopeInv, SeqInv, SequenceTypeOK, BehindCounters, UniqueIds, Keyed,
        CopiesOwn, DeliversOwn, IsPayloadOf
<1> QED  BY <1>1, <1>2, <1>3 DEF Next

-----------------------------------------------------------------------------

\* A handler never gets the payload of another message, and every delivery of
\* one message sees the payload as it was pushed or as the first cjson rewrite
\* left it, however scripts, resent pushes and Retry calls interleave.
THEOREM HandlersGetTheirOwn == Spec => []DeliversOwn
<1>1. EnvelopeInv => DeliversOwn
    BY DEF EnvelopeInv
<1> QED  BY <1>1, EnvelopeInit, EnvelopeNextInv, PTL DEF Spec

\* The ids stay unique, and the number within maxMessageSequence, while their
\* messages are pushed, rewritten and delivered.
THEOREM EnvelopeIdsUnique == Spec => [](SequenceTypeOK /\ UniqueIds)
<1>1. EnvelopeInv => SequenceTypeOK /\ UniqueIds
    BY DEF EnvelopeInv, SeqInv
<1> QED  BY <1>1, EnvelopeInit, EnvelopeNextInv, PTL DEF Spec
=============================================================================
