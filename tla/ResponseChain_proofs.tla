------------------------- MODULE ResponseChain_proofs -------------------------
(***************************************************************************)
(* Proofs about RWSet and ResponseChain, for sets, chains and responses of *)
(* any length and any number of calls.                                     *)
(***************************************************************************)
EXTENDS ResponseChain, InvocationChain_proofs, SequenceTheorems

(* Conversions.                                                              *)

LEMMA EveryIsValue ==
  ASSUME NEW f, NEW v, DOMAIN f = DOMAIN v, v = [i \in DOMAIN v |-> v[i]],
         \A i \in DOMAIN f : f[i] = Value(v[i])
  PROVE  Every(f) = Value(v)
<1>1. \A i \in DOMAIN f : f[i].err = FALSE /\ f[i].value = v[i]
  BY DEF Value
<1>2. ~ \E i \in DOMAIN f : f[i].err
  BY <1>1
<1>3. [i \in DOMAIN f |-> f[i].value] = v
  BY <1>1
<1> QED BY <1>2, <1>3 DEF Every

LEMMA EveryFails ==
  ASSUME NEW f, NEW i \in DOMAIN f, f[i] = Failure
  PROVE  Every(f) = Failure
<1>1. f[i].err = TRUE
  BY DEF Failure
<1> QED BY <1>1 DEF Every

CollMsg(c) == [name |-> c.name, hash |-> c.hash, hashed |-> Bytes(c.hashed)]
NsMsg(n) ==
  [ns |-> n.ns, kv |-> Bytes(n.kv), colls |-> [i \in DOMAIN n.colls |-> CollMsg(n.colls[i])]]
SetMsg(s) == [i \in DOMAIN s |-> NsMsg(s[i])]

LEMMA DataRoundTrip ==
  ASSUME NEW d \in Data
  PROVE  Marshal(d) = Value(Bytes(d)) /\ Unmarshal(Bytes(d)) = Value(d)
BY NilIsNoData DEF Marshal, Unmarshal, Bytes

LEMMA BytesRoundTrip ==
  ASSUME NEW m
  PROVE  Unmarshal(Bytes(m)) = Value(m)
BY DEF Unmarshal, Bytes

LEMMA CollRoundTrip ==
  ASSUME NEW c \in PublicColls
  PROVE  /\ CollHashedToProtoMsg(c) = Value(CollMsg(c))
         /\ CollHashedFromProtoMsg(CollMsg(c)) = Value(c)
<1>1. Marshal(c.hashed) = Value(Bytes(c.hashed)) /\ Unmarshal(Bytes(c.hashed)) = Value(c.hashed)
  BY DataRoundTrip DEF PublicColls
<1>2. CollHashedToProtoMsg(c) = Value(CollMsg(c))
  BY <1>1 DEF CollHashedToProtoMsg, Unless, Value, CollMsg
<1>3. CollMsg(c).hashed = Bytes(c.hashed) /\ CollMsg(c).name = c.name /\ CollMsg(c).hash = c.hash
  BY DEF CollMsg
<1>4. c = [name |-> c.name, hash |-> c.hash, hashed |-> c.hashed]
  BY DEF PublicColls
<1>5. CollHashedFromProtoMsg(CollMsg(c)) = Value(c)
  <2>1. CollHashedFromProtoMsg(CollMsg(c)) = Unless(Value(c.hashed), Value(c.hashed),
          [name |-> c.name, hash |-> c.hash, hashed |-> Value(c.hashed).value])
    BY <1>1, <1>3 DEF CollHashedFromProtoMsg
  <2> QED BY <1>4, <2>1 DEF Unless, Value
<1> QED BY <1>2, <1>5

LEMMA NsRoundTrip ==
  ASSUME NEW n \in PublicSpaces
  PROVE  NsToProtoMsg(n) = Value(NsMsg(n)) /\ NsFromProtoMsg(NsMsg(n)) = Value(n)
<1>0. /\ n.kv \in Data /\ n.colls \in Seq(PublicColls)
      /\ \A i \in DOMAIN n.colls : n.colls[i] \in PublicColls
      /\ n.colls = [i \in DOMAIN n.colls |-> n.colls[i]]
      /\ n = [ns |-> n.ns, kv |-> n.kv, colls |-> n.colls]
  BY DEF PublicSpaces
<1> DEFINE msgs == [i \in DOMAIN n.colls |-> CollMsg(n.colls[i])]
           there == [i \in DOMAIN n.colls |-> CollHashedToProtoMsg(n.colls[i])]
           back == [i \in DOMAIN msgs |-> CollHashedFromProtoMsg(msgs[i])]
<1>1. Marshal(n.kv) = Value(Bytes(n.kv)) /\ Unmarshal(Bytes(n.kv)) = Value(n.kv)
  BY <1>0, DataRoundTrip
<1>2. Every(there) = Value(msgs)
  <2>1. \A i \in DOMAIN there : there[i] = Value(msgs[i])
    BY <1>0, CollRoundTrip
  <2>2. DOMAIN there = DOMAIN msgs /\ msgs = [i \in DOMAIN msgs |-> msgs[i]]
    OBVIOUS
  <2> HIDE DEF there, msgs
  <2> QED BY <2>1, <2>2, EveryIsValue
<1>3. Every(back) = Value(n.colls)
  <2>1. \A i \in DOMAIN back : back[i] = Value(n.colls[i])
    BY <1>0, CollRoundTrip
  <2>2. DOMAIN back = DOMAIN n.colls
    OBVIOUS
  <2> HIDE DEF back, msgs
  <2> QED BY <1>0, <2>1, <2>2, EveryIsValue
<1>4. NsToProtoMsg(n) = Value(NsMsg(n))
  <2>1. NsMsg(n) = [ns |-> n.ns, kv |-> Bytes(n.kv), colls |-> msgs]
    BY DEF NsMsg
  <2>2. NsToProtoMsg(n) = Unless(Value(Bytes(n.kv)), Value(msgs),
          [ns |-> n.ns, kv |-> Value(Bytes(n.kv)).value, colls |-> Value(msgs).value])
    BY <1>1, <1>2 DEF NsToProtoMsg
  <2> HIDE DEF msgs
  <2> QED BY <2>1, <2>2 DEF Unless, Value
<1>5. NsFromProtoMsg(NsMsg(n)) = Value(n)
  <2>1. NsMsg(n).ns = n.ns /\ NsMsg(n).kv = Bytes(n.kv) /\ NsMsg(n).colls = msgs
    BY DEF NsMsg
  <2>2. NsFromProtoMsg(NsMsg(n)) = Unless(Value(n.kv), Value(n.colls),
          [ns |-> n.ns, kv |-> Value(n.kv).value, colls |-> Value(n.colls).value])
    BY <1>1, <1>3, <2>1 DEF NsFromProtoMsg
  <2> QED BY <1>0, <2>2 DEF Unless, Value
<1> QED BY <1>4, <1>5

\* A public set that is converted to bytes and back is the same set
\* (rwset_proto_util.go:78-100 and 124-209).
THEOREM PublicRoundTrip ==
  ASSUME NEW s \in PublicSets
  PROVE  /\ ToProtoBytes(s) = Value(Bytes(SetMsg(s)))
         /\ FromProtoBytes(ToProtoBytes(s).value) = Value(s)
<1>0. /\ \A i \in DOMAIN s : s[i] \in PublicSpaces
      /\ s = [i \in DOMAIN s |-> s[i]]
  BY DEF PublicSets
<1> DEFINE msgs == SetMsg(s)
           there == [i \in DOMAIN s |-> NsToProtoMsg(s[i])]
           back == [i \in DOMAIN msgs |-> NsFromProtoMsg(msgs[i])]
<1>1. Every(there) = Value(msgs)
  <2>1. \A i \in DOMAIN there : there[i] = Value(msgs[i])
    BY <1>0, NsRoundTrip DEF SetMsg
  <2>2. DOMAIN there = DOMAIN msgs /\ msgs = [i \in DOMAIN msgs |-> msgs[i]]
    BY DEF SetMsg
  <2> HIDE DEF there, msgs
  <2> QED BY <2>1, <2>2, EveryIsValue
<1>2. Every(back) = Value(s)
  <2>1. \A i \in DOMAIN back : back[i] = Value(s[i])
    BY <1>0, NsRoundTrip DEF SetMsg
  <2>2. DOMAIN back = DOMAIN s
    BY DEF SetMsg
  <2> HIDE DEF back, msgs
  <2> QED BY <1>0, <2>1, <2>2, EveryIsValue
<1>3. ToProtoBytes(s) = Value(Bytes(msgs))
  <2>1. ToProtoBytes(s) = Unless(Value(msgs), Value(msgs), Bytes(Value(msgs).value))
    BY <1>1 DEF ToProtoBytes
  <2> HIDE DEF msgs
  <2> QED BY <2>1 DEF Unless, Value
<1>4. FromProtoBytes(Bytes(msgs)) = Value(s)
  <2>1. Unmarshal(Bytes(msgs)) = Value(msgs)
    BY BytesRoundTrip
  <2>2. Value(msgs).value = msgs /\ Value(msgs).err = FALSE
    BY DEF Value
  <2> QED BY <1>2, <2>1, <2>2 DEF FromProtoBytes
<1>5. Value(Bytes(msgs)).value = Bytes(msgs)
  BY DEF Value
<1> QED BY <1>3, <1>4, <1>5

CollPvtMsg(c) == [name |-> c.name, kv |-> Bytes(c.kv)]
NsPvtMsg(n) == [ns |-> n.ns, colls |-> [i \in DOMAIN n.colls |-> CollPvtMsg(n.colls[i])]]
PvtMsg(s) == [i \in DOMAIN s |-> NsPvtMsg(s[i])]

LEMMA CollPvtRoundTrip ==
  ASSUME NEW c \in PrivateColls
  PROVE  /\ c.kv = Nil => CollPvtToProtoMsg(c) = Failure
         /\ c.kv # Nil => /\ CollPvtToProtoMsg(c) = Value(CollPvtMsg(c))
                          /\ CollPvtFromProtoMsg(CollPvtMsg(c)) = Value(c)
<1>1. CASE c.kv = Nil
  <2>1. Marshal(c.kv) = Failure
    BY <1>1 DEF Marshal
  <2> QED BY <1>1, <2>1 DEF CollPvtToProtoMsg, Unless, Failure
<1>2. CASE c.kv # Nil
  <2>1. Marshal(c.kv) = Value(Bytes(c.kv)) /\ Unmarshal(Bytes(c.kv)) = Value(c.kv)
    BY <1>2, DataRoundTrip DEF PrivateColls
  <2>2. CollPvtMsg(c).kv = Bytes(c.kv) /\ CollPvtMsg(c).name = c.name
    BY DEF CollPvtMsg
  <2>3. c = [name |-> c.name, kv |-> c.kv]
    BY DEF PrivateColls
  <2>4. CollPvtToProtoMsg(c) = Value(CollPvtMsg(c))
    BY <2>1 DEF CollPvtToProtoMsg, Unless, Value, CollPvtMsg
  <2>5. CollPvtFromProtoMsg(CollPvtMsg(c)) =
          Unless(Value(c.kv), Value(c.kv), [name |-> c.name, kv |-> Value(c.kv).value])
    BY <2>1, <2>2 DEF CollPvtFromProtoMsg
  <2>6. CollPvtFromProtoMsg(CollPvtMsg(c)) = Value(c)
    BY <2>3, <2>5 DEF Unless, Value
  <2> QED BY <1>2, <2>4, <2>6
<1> QED BY <1>1, <1>2

LEMMA NsPvtFails ==
  ASSUME NEW n \in PrivateSpaces, NEW j \in DOMAIN n.colls, n.colls[j].kv = Nil
  PROVE  NsPvtToProtoMsg(n) = Failure
<1> DEFINE there == [i \in DOMAIN n.colls |-> CollPvtToProtoMsg(n.colls[i])]
<1>1. n.colls[j] \in PrivateColls
  BY DEF PrivateSpaces
<1>2. j \in DOMAIN there /\ there[j] = Failure
  BY <1>1, CollPvtRoundTrip
<1>3. NsPvtToProtoMsg(n) = Unless(Every(there), Every(there), [ns |-> n.ns, colls |-> Every(there).value])
  BY DEF NsPvtToProtoMsg
<1> HIDE DEF there
<1>4. Every(there) = Failure
  BY <1>2, EveryFails
<1> QED BY <1>3, <1>4 DEF Unless, Failure

LEMMA NsPvtRoundTrip ==
  ASSUME NEW n \in PrivateSpaces, \A j \in DOMAIN n.colls : n.colls[j].kv # Nil
  PROVE  NsPvtToProtoMsg(n) = Value(NsPvtMsg(n)) /\ NsPvtFromProtoMsg(NsPvtMsg(n)) = Value(n)
<1>0. /\ \A i \in DOMAIN n.colls : n.colls[i] \in PrivateColls
      /\ n.colls = [i \in DOMAIN n.colls |-> n.colls[i]]
      /\ n = [ns |-> n.ns, colls |-> n.colls]
  BY DEF PrivateSpaces
<1> DEFINE msgs == [i \in DOMAIN n.colls |-> CollPvtMsg(n.colls[i])]
           there == [i \in DOMAIN n.colls |-> CollPvtToProtoMsg(n.colls[i])]
           back == [i \in DOMAIN msgs |-> CollPvtFromProtoMsg(msgs[i])]
<1>1. Every(there) = Value(msgs)
  <2>1. \A i \in DOMAIN there : there[i] = Value(msgs[i])
    BY <1>0, CollPvtRoundTrip
  <2>2. DOMAIN there = DOMAIN msgs /\ msgs = [i \in DOMAIN msgs |-> msgs[i]]
    OBVIOUS
  <2> HIDE DEF there, msgs
  <2> QED BY <2>1, <2>2, EveryIsValue
<1>2. Every(back) = Value(n.colls)
  <2>1. \A i \in DOMAIN back : back[i] = Value(n.colls[i])
    BY <1>0, CollPvtRoundTrip
  <2>2. DOMAIN back = DOMAIN n.colls
    OBVIOUS
  <2> HIDE DEF back, msgs
  <2> QED BY <1>0, <2>1, <2>2, EveryIsValue
<1>3. NsPvtToProtoMsg(n) = Value(NsPvtMsg(n))
  <2>1. NsPvtMsg(n) = [ns |-> n.ns, colls |-> msgs]
    BY DEF NsPvtMsg
  <2>2. NsPvtToProtoMsg(n) = Unless(Value(msgs), Value(msgs), [ns |-> n.ns, colls |-> Value(msgs).value])
    BY <1>1 DEF NsPvtToProtoMsg
  <2> HIDE DEF msgs
  <2> QED BY <2>1, <2>2 DEF Unless, Value
<1>4. NsPvtFromProtoMsg(NsPvtMsg(n)) = Value(n)
  <2>1. NsPvtMsg(n).ns = n.ns /\ NsPvtMsg(n).colls = msgs
    BY DEF NsPvtMsg
  <2>2. NsPvtFromProtoMsg(NsPvtMsg(n)) =
          Unless(Value(n.colls), Value(n.colls), [ns |-> n.ns, colls |-> Value(n.colls).value])
    BY <1>2, <2>1 DEF NsPvtFromProtoMsg
  <2> QED BY <1>0, <2>2 DEF Unless, Value
<1> QED BY <1>3, <1>4

\* A private set is the same after the way to bytes and back, unless it lacks data:
\* then it has no bytes (rwset_proto_util.go:101-122 and 214-282).
THEOREM PrivateRoundTrip ==
  ASSUME NEW s \in PrivateSets
  PROVE  IF \E i \in DOMAIN s : \E j \in DOMAIN s[i].colls : s[i].colls[j].kv = Nil
         THEN PvtToProtoBytes(s) = Failure
         ELSE PvtFromProtoBytes(PvtToProtoBytes(s).value) = Value(s)
<1>0. /\ \A i \in DOMAIN s : s[i] \in PrivateSpaces
      /\ s = [i \in DOMAIN s |-> s[i]]
  BY DEF PrivateSets
<1> DEFINE msgs == PvtMsg(s)
           there == [i \in DOMAIN s |-> NsPvtToProtoMsg(s[i])]
           back == [i \in DOMAIN msgs |-> NsPvtFromProtoMsg(msgs[i])]
<1>1. PvtToProtoBytes(s) = Unless(Every(there), Every(there), Bytes(Every(there).value))
  BY DEF PvtToProtoBytes
<1>2. ASSUME NEW i \in DOMAIN s, NEW j \in DOMAIN s[i].colls, s[i].colls[j].kv = Nil
      PROVE  PvtToProtoBytes(s) = Failure
  <2>1. there[i] = Failure /\ i \in DOMAIN there
    BY <1>0, <1>2, NsPvtFails
  <2> HIDE DEF there
  <2>2. Every(there) = Failure
    BY <2>1, EveryFails
  <2> QED BY <1>1, <2>2 DEF Unless, Failure
<1>3. ASSUME \A i \in DOMAIN s : \A j \in DOMAIN s[i].colls : s[i].colls[j].kv # Nil
      PROVE  PvtFromProtoBytes(PvtToProtoBytes(s).value) = Value(s)
  <2>1. Every(there) = Value(msgs)
    <3>1. \A i \in DOMAIN there : there[i] = Value(msgs[i])
      BY <1>0, <1>3, NsPvtRoundTrip DEF PvtMsg
    <3>2. DOMAIN there = DOMAIN msgs /\ msgs = [i \in DOMAIN msgs |-> msgs[i]]
      BY DEF PvtMsg
    <3> HIDE DEF there, msgs
    <3> QED BY <3>1, <3>2, EveryIsValue
  <2>2. Every(back) = Value(s)
    <3>1. \A i \in DOMAIN back : back[i] = Value(s[i])
      BY <1>0, <1>3, NsPvtRoundTrip DEF PvtMsg
    <3>2. DOMAIN back = DOMAIN s
      BY DEF PvtMsg
    <3> HIDE DEF back, msgs
    <3> QED BY <1>0, <3>1, <3>2, EveryIsValue
  <2>3. PvtToProtoBytes(s).value = Bytes(msgs)
    <3> HIDE DEF there, msgs
    <3> QED BY <1>1, <2>1 DEF Unless, Value
  <2>4. Unmarshal(Bytes(msgs)) = Value(msgs) /\ Value(msgs).value = msgs /\ Value(msgs).err = FALSE
    BY BytesRoundTrip DEF Value
  <2>5. PvtFromProtoBytes(Bytes(msgs)) = Every(back)
    BY <2>4 DEF PvtFromProtoBytes
  <2> QED BY <2>2, <2>3, <2>5
<1> QED BY <1>2, <1>3

-------------------------------------------------------------------------------
(* What a call reads of a response.                                          *)

LEMMA GarbledBytesFail ==
  ASSUME NEW bytes, bytes.garbled
  PROVE  Unmarshal(bytes) = Failure
BY DEF Unmarshal

LEMMA GarbledNsFails ==
  ASSUME NEW m, m.kv.garbled \/ \E j \in DOMAIN m.colls : m.colls[j].hashed.garbled
  PROVE  NsFromProtoMsg(m) = Failure
<1> DEFINE back == [i \in DOMAIN m.colls |-> CollHashedFromProtoMsg(m.colls[i])]
           set == Unmarshal(m.kv)
<1>1. NsFromProtoMsg(m) =
        Unless(set, Every(back), [ns |-> m.ns, kv |-> set.value, colls |-> Every(back).value])
  BY DEF NsFromProtoMsg
<1>2. CASE m.kv.garbled
  <2>1. set = Failure
    BY <1>2, GarbledBytesFail
  <2> HIDE DEF set, back
  <2> QED BY <1>1, <2>1 DEF Unless, Failure
<1>3. CASE \E j \in DOMAIN m.colls : m.colls[j].hashed.garbled
  <2>1. PICK j \in DOMAIN m.colls : m.colls[j].hashed.garbled
    BY <1>3
  <2>2. Unmarshal(m.colls[j].hashed) = Failure
    BY <2>1, GarbledBytesFail
  <2>3. CollHashedFromProtoMsg(m.colls[j]) = Failure
    BY <2>2 DEF CollHashedFromProtoMsg, Unless, Failure
  <2>4. j \in DOMAIN back /\ back[j] = Failure
    BY <2>3
  <2> HIDE DEF set, back
  <2>5. Every(back) = Failure
    BY <2>4, EveryFails
  <2> QED BY <1>1, <2>5 DEF Unless, Failure
<1> QED BY <1>2, <1>3

LEMMA GarbledResponseFails ==
  ASSUME NEW r, r # Nil, GarbledSomewhere(r)
  PROVE  RWSetsOf(r) = Failure
<1> DEFINE prp == Unmarshal(r.payload)
           action == IF prp.err THEN Failure ELSE Unmarshal(prp.value.extension)
           results == action.value.results
<1>1. RWSetsOf(r) = IF action.err THEN Failure
                    ELSE IF results = NoResults THEN Value(<<>>) ELSE FromProtoBytes(results)
  BY DEF RWSetsOf
<1>2. Failure.err = TRUE
  BY DEF Failure
<1>3. CASE r.payload.garbled
  <2>1. action = Failure
    BY <1>2, <1>3, GarbledBytesFail
  <2> QED BY <1>1, <1>2, <2>1
<1>4. CASE ~ r.payload.garbled /\ r.payload.message.extension.garbled
  <2>1. prp = Value(r.payload.message)
    BY <1>4 DEF Unmarshal
  <2>2. action = Failure
    BY <1>4, <2>1, GarbledBytesFail DEF Value
  <2> QED BY <1>1, <1>2, <2>2
<1>5. CASE ~ r.payload.garbled /\ ~ r.payload.message.extension.garbled
  <2>1. prp = Value(r.payload.message)
    BY <1>5 DEF Unmarshal
  <2>2. action = Value(r.payload.message.extension.message)
    BY <1>5, <2>1 DEF Unmarshal, Value
  <2>3. action.err = FALSE /\ results = r.payload.message.extension.message.results
    BY <2>2 DEF Value
  <2> HIDE DEF action, results
  <2>4. results.garbled \/ GarbledSets(results.message)
    BY <1>5, <2>3 DEF GarbledSomewhere
  <2>5. NoResults.garbled = FALSE /\ NoResults.message = <<>>
    BY DEF NoResults, Bytes
  <2>6. results # NoResults
    BY <2>4, <2>5 DEF GarbledSets
  <2>7. FromProtoBytes(results) = Failure
    <3>1. CASE results.garbled
      BY <1>2, <3>1, GarbledBytesFail DEF FromProtoBytes
    <3>2. CASE ~ results.garbled
      <4>1. Unmarshal(results) = Value(results.message)
        BY <3>2 DEF Unmarshal
      <4> DEFINE back == [i \in DOMAIN results.message |-> NsFromProtoMsg(results.message[i])]
      <4>2. FromProtoBytes(results) = Every(back)
        BY <4>1 DEF FromProtoBytes, Value
      <4>3. PICK i \in DOMAIN results.message :
              \/ results.message[i].kv.garbled
              \/ \E j \in DOMAIN results.message[i].colls : results.message[i].colls[j].hashed.garbled
        BY <2>4, <3>2 DEF GarbledSets
      <4>4. i \in DOMAIN back /\ back[i] = Failure
        BY <4>3, GarbledNsFails
      <4> HIDE DEF back
      <4> QED BY <4>2, <4>4, EveryFails
    <3> QED BY <3>1, <3>2
  <2> QED BY <1>1, <2>3, <2>6, <2>7
<1> QED BY <1>3, <1>4, <1>5

LEMMA WrittenIsRead ==
  ASSUME NEW s \in PublicSets, Written(s) # Nil
  PROVE  RWSetsOf(Written(s)) = Value(s)
<1> DEFINE results == ToProtoBytes(s).value
           extension == Bytes([results |-> results])
           payload == Bytes([extension |-> extension])
<1>1. Written(s).payload = payload
  BY DEF Written, ResponseWith
<1>2. Unmarshal(payload) = Value([extension |-> extension])
      /\ Unmarshal(extension) = Value([results |-> results])
  BY BytesRoundTrip
<1> HIDE DEF results, extension, payload
<1>3. RWSetsOf(Written(s)) = IF results = NoResults THEN Value(<<>>) ELSE FromProtoBytes(results)
  BY <1>1, <1>2 DEF RWSetsOf, Value
<1>4. results = NoResults => s = <<>>
  <2>1. results = Bytes(SetMsg(s))
    <3>1. results = Value(Bytes(SetMsg(s))).value
      BY PublicRoundTrip DEF results
    <3> QED BY <3>1 DEF Value
  <2>2. ASSUME results = NoResults PROVE s = <<>>
    <3>1. SetMsg(s) = <<>>
      BY <2>1, <2>2 DEF NoResults, Bytes
    <3>2. DOMAIN SetMsg(s) = DOMAIN s
      BY DEF SetMsg
    <3>3. DOMAIN s = {}
      BY <3>1, <3>2
    <3> QED BY <3>3 DEF PublicSets
  <2> QED BY <2>2
<1>5. FromProtoBytes(results) = Value(s)
  BY PublicRoundTrip DEF results
<1> QED BY <1>3, <1>4, <1>5

\* A sound response reads as what the peer wrote, any other fails.
LEMMA AnswerIsRead ==
  ASSUME NEW r \in Requests, NEW c \in DOMAIN r.answers
  PROVE  IF r.answers[c].sound THEN RWSetsOf(r.answers[c].response) = Value(r.answers[c].wrote)
         ELSE RWSetsOf(r.answers[c].response) = Failure
<1> DEFINE a == r.answers[c]
<1>1. /\ a.wrote \in PublicSets
      /\ IF a.response = Nil THEN a.sound /\ a.wrote = <<>>
         ELSE IF a.sound THEN a.response = Written(a.wrote)
         ELSE GarbledSomewhere(a.response)
  BY AnswersAreWritten
<1> HIDE DEF a
<1>2. ASSUME a.sound PROVE RWSetsOf(a.response) = Value(a.wrote)
  <2>1. CASE a.response = Nil
    BY <1>1, <2>1 DEF RWSetsOf
  <2>2. CASE a.response # Nil
    BY <1>1, <1>2, <2>2, WrittenIsRead
  <2> QED BY <2>1, <2>2
<1>3. ASSUME ~ a.sound PROVE RWSetsOf(a.response) = Failure
  <2>1. a.response # Nil /\ GarbledSomewhere(a.response)
    BY <1>1, <1>3
  <2> QED BY <2>1, GarbledResponseFails
<1> QED BY <1>2, <1>3 DEF a

-------------------------------------------------------------------------------
(* The invariant.                                                            *)

GivenColls(p) == request.chain[p].colls
Capacity(p) == Len(GivenColls(p)) + request.chain[p].room

\* The request's calls are as they were, and its arrays start with their collections.
Base ==
  /\ provided = [k \in DOMAIN request.chain |->
       [id |-> request.chain[k].id, slice |-> Slice(<<Request, k>>, Len(GivenColls(k)))]]
  /\ \A k \in DOMAIN request.chain :
       /\ Len(GivenColls(k)) <= Len(array[<<Request, k>>])
       /\ Len(array[<<Request, k>>]) <= Capacity(k)
       /\ \A i \in 1 .. Len(GivenColls(k)) : array[<<Request, k>>][i] = GivenColls(k)[i]

HasRead(c) == stage[c] \in {"merging", "nothing", "selected"}

Reading(c) ==
  /\ stage[c] # "absent" => c \in DOMAIN request.answers
  /\ stage[c] = "warned" => ~ request.answers[c].sound
  /\ IF HasRead(c)
     THEN request.answers[c].sound /\ response[c] = CallsOf(request.answers[c].wrote)
     ELSE response[c] = <<>> /\ at[c] = 1 /\ coll[c] = 0 /\ ~ found[c]

Merged(c) ==
  {k \in DOMAIN response[c] :
     /\ response[c][k].id \notin LeftOut(FilteredOut)
     /\ k < at[c] \/ (k = at[c] /\ coll[c] > 0)}

\* A merged call's slice is nil, in an array of its own, or what fits in that of the
\* provided call with its id: more than what came with it if the response adds any.
Fits(c, k) ==
  LET sl == merged[c][k].slice
  IN /\ sl.len <= Len(array[sl.array])
     /\ \/ sl.array = <<c, k>>
        \/ sl = NoSlice
        \/ \E p \in DOMAIN request.chain :
             /\ sl.array = <<Request, p>> /\ request.chain[p].id = merged[c][k].id
             /\ Len(GivenColls(p)) <= sl.len /\ sl.len <= Capacity(p)
             /\ Len(GivenColls(p)) < sl.len => Adds(request, c, p)

Progress(c) ==
  /\ coll[c] > 0 => /\ at[c] \in DOMAIN response[c]
                    /\ coll[c] <= Len(Current(c).colls) + 1
                    /\ Current(c).id \notin LeftOut(FilteredOut)
                    /\ Known(c) # {}
  /\ DOMAIN merged[c] = Merged(c)
  /\ \A k \in DOMAIN merged[c] : merged[c][k].id = response[c][k].id /\ Fits(c, k)

\* What of a call of the response was merged so far.
SoFar(c, k) ==
  Call(response[c][k].id,
       {response[c][k].colls[j] : j \in {j \in DOMAIN response[c][k].colls : k < at[c] \/ j < coll[c]}})

AnyNamed(id) == UNION {Named(request, d, id) : d \in DOMAIN request.answers}

\* An element no other call writes over: it came with the request, or it is in an
\* array of the call's own.
Firm(slice, i) ==
  \A p \in DOMAIN request.chain : slice.array = <<Request, p>> => i <= Len(GivenColls(p))

\* A merged slice has what the request gives, where no other call writes, and beyond
\* this what some response names: and just what the merge gives, unless another call
\* appends to the array, too.
Holds(c, k) ==
  LET sl == merged[c][k].slice
      given == GivenFor(response[c][k].id)
  IN /\ \A x \in given : \E i \in 1 .. sl.len : Firm(sl, i) /\ array[sl.array][i] = x
     /\ \A i \in 1 .. sl.len : array[sl.array][i] \in given \cup AnyNamed(response[c][k].id)
     /\ ~ IsNews(ChainOnValues, SoFar(c, k)) =>
          \A i \in 1 .. sl.len : Firm(sl, i) /\ array[sl.array][i] \in given
     /\ Alone(request, c) =>
          Range(Elements(sl)) = MergeCCCall(ChainOnValues, SoFar(c, k)).colls

Contents(c) ==
  /\ \A k \in DOMAIN merged[c] : Holds(c, k)
  /\ found[c] <=> \E k \in DOMAIN merged[c] : IsNews(ChainOnValues, SoFar(c, k))

\* A chain that has the calls of another one, and for each at least the collections
\* of it that were given, and at most those and what some response names.
Bounded(chain, values) ==
  /\ DOMAIN chain = DOMAIN values
  /\ \A k \in DOMAIN chain :
       /\ chain[k].id = values[k].id
       /\ values[k].colls \cap GivenFor(chain[k].id) \subseteq chain[k].colls
       /\ chain[k].colls \subseteq values[k].colls \cup AnyNamed(chain[k].id)

Settled(c) ==
  /\ stage[c] = "selected" /\ Alone(request, c) => selected[c] = MergedOnValues(c)
  /\ stage[c] = "selected" => Bounded(selected[c], MergedOnValues(c))
  /\ stage[c] \in {"nothing", "selected"} =>
       (stage[c] = "selected") = FoundAdditional(ChainOnValues, AnswerChain(c), FilteredOut)

IInv ==
  /\ TypeOK
  /\ DOMAIN merged = Calls /\ DOMAIN selected = Calls
  /\ Base
  /\ \A c \in Calls : Reading(c) /\ Progress(c) /\ Contents(c) /\ Settled(c)

-------------------------------------------------------------------------------
(* Slices and chains of slices.                                              *)

LEMMA OverwrittenIs ==
  ASSUME NEW S, NEW a \in Seq(S), NEW first \in Seq(S)
  PROVE  /\ Overwritten(a, first) \in Seq(S)
         /\ Len(Overwritten(a, first)) = IF Len(first) <= Len(a) THEN Len(a) ELSE Len(first)
         /\ \A i \in 1 .. Len(first) : Overwritten(a, first)[i] = first[i]
         /\ \A i \in Len(first) + 1 .. Len(a) : Overwritten(a, first)[i] = a[i]
<1> DEFINE rest == SubSeq(a, Len(first) + 1, Len(a))
<1>1. Len(first) \in Nat /\ Len(a) \in Nat /\ \A i \in 1 .. Len(a) : a[i] \in S
  BY LenProperties, ElementOfSeq
<1>2. \A i \in Len(first) + 1 .. Len(a) : a[i] \in S
  BY <1>1
<1>3. /\ rest \in Seq(S)
      /\ Len(rest) = IF Len(first) + 1 <= Len(a) THEN Len(a) - (Len(first) + 1) + 1 ELSE 0
      /\ \A i \in 1 .. Len(a) - Len(first) : rest[i] = a[Len(first) + i]
  <2>1. /\ rest \in Seq(S)
        /\ Len(rest) = IF Len(first) + 1 <= Len(a) THEN Len(a) - (Len(first) + 1) + 1 ELSE 0
        /\ \A i \in 1 .. Len(a) - (Len(first) + 1) + 1 : rest[i] = a[Len(first) + 1 + i - 1]
    BY <1>1, <1>2, SubSeqProperties, SMT
  <2> HIDE DEF rest
  <2> QED BY <1>1, <2>1
<1> HIDE DEF rest
<1>4. /\ first \o rest \in Seq(S)
      /\ Len(first \o rest) = Len(first) + Len(rest)
      /\ \A i \in 1 .. Len(first) + Len(rest) :
           (first \o rest)[i] = IF i <= Len(first) THEN first[i] ELSE rest[i - Len(first)]
  BY <1>3, ConcatProperties
<1>5. Overwritten(a, first) = first \o rest
  BY DEF Overwritten, rest
<1> QED BY <1>1, <1>3, <1>4, <1>5

LEMMA PrefixIsSeq ==
  ASSUME NEW S, NEW s \in Seq(S), NEW n \in 0 .. Len(s)
  PROVE  [i \in 1 .. n |-> s[i]] \in Seq(S) /\ Len([i \in 1 .. n |-> s[i]]) = n
<1>1. Len(s) \in Nat /\ \A i \in 1 .. Len(s) : s[i] \in S
  BY LenProperties, ElementOfSeq
<1>2. [i \in 1 .. n |-> s[i]] \in [1 .. n -> S]
  BY <1>1
<1>3. n \in Nat
  BY <1>1
<1> QED BY <1>2, <1>3

LEMMA LastAtIsAt ==
  ASSUME NEW chain, NEW id, NEW n \in Nat, DOMAIN chain \subseteq 0 .. n, At(chain, id) # {}
  PROVE  LastAt(chain, id) \in At(chain, id)
<1> DEFINE T == At(chain, id)
           R == {n - k : k \in T}
<1>1. T \subseteq 0 .. n /\ T # {}
  BY DEF At
<1> HIDE DEF T
<1>2. R \subseteq Nat /\ R # {}
  BY <1>1
<1>3. \E x \in R : \A y \in R : ~ (<<y, x>> \in Less)
  <2> HIDE DEF R, Less
  <2> QED BY <1>2, LessIsWellFounded, WFMin
<1>4. PICK k \in T : \A y \in R : ~ (<<y, n - k>> \in Less)
  BY <1>3
<1>5. \A j \in T : ~ (n - j < n - k)
  <2> TAKE j \in T
  <2>1. n - j \in R /\ n - j \in Nat /\ n - k \in Nat
    BY <1>1
  <2>2. ~ (<<n - j, n - k>> \in Less)
    BY <1>4, <2>1
  <2> HIDE DEF R
  <2> QED BY <2>1, <2>2 DEF Less
<1>6. \A j \in T : j <= k
  BY <1>1, <1>5
<1> QED BY <1>4, <1>6 DEF LastAt, T


\* What TypeOK and the assumptions say of the request.
LEMMA RequestIs ==
  ASSUME TypeOK
  PROVE  /\ DOMAIN request.chain = 1 .. Len(request.chain) /\ Len(request.chain) \in 0 .. MaxLength
         /\ \A k \in DOMAIN request.chain :
              /\ request.chain[k].id \in STRING
              /\ GivenColls(k) \in Seq(STRING) /\ Len(GivenColls(k)) \in Nat
              /\ request.chain[k].room \in Nat
              /\ <<Request, k>> \in Arrays
<1>1. /\ request.chain \in Seq([id : STRING, colls : Seq(STRING), room : Nat])
      /\ Len(request.chain) <= MaxLength
  BY RequestsAreChains DEF TypeOK
<1>2. /\ DOMAIN request.chain = 1 .. Len(request.chain) /\ Len(request.chain) \in Nat
      /\ \A k \in DOMAIN request.chain : request.chain[k] \in [id : STRING, colls : Seq(STRING), room : Nat]
  BY <1>1, LenProperties, ElementOfSeq
<1>3. Len(request.chain) \in 0 .. MaxLength
  BY <1>1, <1>2, MaxLengthIsNumber
<1>4. ASSUME NEW k \in DOMAIN request.chain
      PROVE  /\ request.chain[k].id \in STRING
             /\ GivenColls(k) \in Seq(STRING) /\ Len(GivenColls(k)) \in Nat
             /\ request.chain[k].room \in Nat
             /\ <<Request, k>> \in Arrays
  <2>1. request.chain[k] \in [id : STRING, colls : Seq(STRING), room : Nat]
    BY <1>2
  <2>2. k \in 0 .. MaxLength
    BY <1>2, <1>3, MaxLengthIsNumber
  <2> QED BY <2>1, <2>2, LenProperties DEF GivenColls, Arrays
<1> QED BY <1>2, <1>3, <1>4

\* The slices of the calls of the chain: nil, or what came with the request.
IsGiven(slice, id) ==
  \/ slice = NoSlice
  \/ \E p \in DOMAIN request.chain :
       slice = Slice(<<Request, p>>, Len(GivenColls(p))) /\ request.chain[p].id = id

LEMMA GivenElements ==
  ASSUME TypeOK, Base, NEW p \in DOMAIN request.chain
  PROVE  Elements(Slice(<<Request, p>>, Len(GivenColls(p)))) = GivenColls(p)
<1>1. GivenColls(p) \in Seq(STRING) /\ Len(GivenColls(p)) \in Nat
  BY RequestIs
<1>2. DOMAIN GivenColls(p) = 1 .. Len(GivenColls(p)) /\ GivenColls(p) = [i \in DOMAIN GivenColls(p) |-> GivenColls(p)[i]]
  BY <1>1
<1>3. \A i \in 1 .. Len(GivenColls(p)) : array[<<Request, p>>][i] = GivenColls(p)[i]
  BY DEF Base
<1>4. Elements(Slice(<<Request, p>>, Len(GivenColls(p)))) =
        [i \in 1 .. Len(GivenColls(p)) |-> array[<<Request, p>>][i]]
  BY DEF Elements, Slice
<1> QED BY <1>2, <1>3, <1>4

LEMMA NilElements == Elements(NoSlice) = <<>> /\ Range(Elements(NoSlice)) = {}
<1>1. Elements(NoSlice) = [i \in 1 .. 0 |-> array[<<Request, 0>>][i]]
  BY DEF Elements, NoSlice, Slice
<1>2. 1 .. 0 = {}
  OBVIOUS
<1> QED BY <1>1, <1>2 DEF Range

\* The chain with slices is the chain on values.
LEMMA SliceChainIs ==
  ASSUME TypeOK, Base
  PROVE  /\ DOMAIN SliceChain(provided) = DOMAIN ChainOnValues
         /\ DOMAIN ChainOnValues \subseteq Nat
         /\ \A id : At(SliceChain(provided), id) = At(ChainOnValues, id)
         /\ \A k \in DOMAIN ChainOnValues :
              /\ SliceChain(provided)[k] =
                   [id |-> ChainOnValues[k].id, slice |-> SliceChain(provided)[k].slice]
              /\ Range(Elements(SliceChain(provided)[k].slice)) = ChainOnValues[k].colls
              /\ IsGiven(SliceChain(provided)[k].slice, ChainOnValues[k].id)
<1> DEFINE sc == SliceChain(provided)
<1>1. /\ DOMAIN provided = DOMAIN request.chain /\ DOMAIN GivenChain = DOMAIN request.chain
      /\ \A k \in DOMAIN request.chain :
           /\ provided[k] = [id |-> request.chain[k].id, slice |-> provided[k].slice]
           /\ provided[k].id = request.chain[k].id
           /\ provided[k].slice = Slice(<<Request, k>>, Len(GivenColls(k)))
           /\ GivenChain[k].id = request.chain[k].id
           /\ GivenChain[k].colls = Range(GivenColls(k))
  BY DEF Base, GivenChain, GivenColls, Call
<1>2. DOMAIN request.chain = 1 .. Len(request.chain) /\ Len(request.chain) \in Nat
  BY RequestIs, MaxLengthIsNumber
<1>3. At(provided, CC) = At(GivenChain, CC)
  BY <1>1 DEF At
<1>4. LastAt(provided, CC) = LastAt(GivenChain, CC)
  BY <1>3, Zenon DEF LastAt
<1>5. At(provided, CC) # {} => LastAt(provided, CC) \in At(provided, CC)
  <2>1. DOMAIN provided \subseteq 0 .. Len(request.chain)
    BY <1>1, <1>2
  <2> QED BY <1>2, <2>1, LastAtIsAt, Zenon
<1>6. /\ DOMAIN sc = {0} \cup (DOMAIN request.chain \ At(provided, CC))
      /\ DOMAIN ChainOnValues = {0} \cup (DOMAIN request.chain \ At(provided, CC))
  BY <1>1, <1>3 DEF SliceChain, ChainOnValues, NewInvocationChain
<1>7. ASSUME NEW k \in DOMAIN ChainOnValues
      PROVE  /\ sc[k] = [id |-> ChainOnValues[k].id, slice |-> sc[k].slice]
             /\ sc[k].id = ChainOnValues[k].id
             /\ Range(Elements(sc[k].slice)) = ChainOnValues[k].colls
             /\ IsGiven(sc[k].slice, ChainOnValues[k].id)
  <2>1. CASE k # 0
    <3>1. sc[k] = provided[k] /\ ChainOnValues[k] = GivenChain[k] /\ k \in DOMAIN request.chain
      BY <1>1, <1>3, <1>6, <2>1 DEF SliceChain, ChainOnValues, NewInvocationChain
    <3>2. Elements(provided[k].slice) = GivenColls(k)
      BY <1>1, <3>1, GivenElements
    <3> HIDE DEF sc
    <3> QED BY <1>1, <3>1, <3>2 DEF IsGiven
  <2>2. CASE k = 0 /\ At(provided, CC) = {}
    <3>1. sc[0] = [id |-> CC, slice |-> NoSlice]
      BY <1>1, <1>6, <2>2 DEF SliceChain
    <3>2. ChainOnValues[0] = Call(CC, {})
      BY <1>3, <1>6, <2>2 DEF ChainOnValues, NewInvocationChain
    <3> HIDE DEF sc
    <3> QED BY <2>2, <3>1, <3>2, NilElements DEF IsGiven, Call
  <2>3. CASE k = 0 /\ At(provided, CC) # {}
    <3> DEFINE l == LastAt(provided, CC)
    <3>1. sc[0] = [id |-> CC, slice |-> provided[l].slice]
      BY <1>1, <1>6, <2>3 DEF SliceChain
    <3>2. ChainOnValues[0] = Call(CC, GivenChain[l].colls)
      BY <1>3, <1>4, <1>6, <2>3 DEF ChainOnValues, NewInvocationChain
    <3>3. l \in DOMAIN request.chain /\ request.chain[l].id = CC
      BY <1>1, <1>5, <2>3 DEF At
    <3> HIDE DEF sc, l
    <3>4. Elements(provided[l].slice) = GivenColls(l)
      BY <1>1, <3>3, GivenElements
    <3>5. IsGiven(provided[l].slice, CC)
      BY <1>1, <3>3 DEF IsGiven
    <3>6. GivenChain[l].colls = Range(GivenColls(l))
      BY <1>1, <3>3
    <3> QED BY <2>3, <3>1, <3>2, <3>4, <3>5, <3>6 DEF Call
  <2> QED BY <2>1, <2>2, <2>3
<1>8. ASSUME NEW id PROVE At(sc, id) = At(ChainOnValues, id)
  <2> HIDE DEF sc
  <2> QED BY <1>6, <1>7 DEF At
<1>9. DOMAIN ChainOnValues \subseteq Nat
  BY <1>2, <1>6
<1> QED BY <1>6, <1>7, <1>8, <1>9


LEMMA CallsOfIs ==
  ASSUME NEW s \in PublicSets
  PROVE  /\ CallsOf(s) \in Seq([id : STRING, colls : Seq(STRING)])
         /\ Len(CallsOf(s)) = Len(s)
         /\ DOMAIN s = 1 .. Len(s)
         /\ \A i \in DOMAIN s : CallsOf(s)[i].id = s[i].ns
<1>1. Len(s) \in Nat /\ DOMAIN s = 1 .. Len(s) /\ \A i \in DOMAIN s : s[i] \in PublicSpaces
  BY LenProperties, ElementOfSeq DEF PublicSets
<1>2. ASSUME NEW i \in DOMAIN s
      PROVE  CallsOf(s)[i] \in [id : STRING, colls : Seq(STRING)] /\ CallsOf(s)[i].id = s[i].ns
  <2> DEFINE names == [j \in DOMAIN s[i].colls |-> s[i].colls[j].name]
  <2>1. CallsOf(s)[i] = [id |-> s[i].ns, colls |-> names]
    BY DEF CallsOf
  <2>2. s[i].ns \in STRING /\ s[i].colls \in Seq(PublicColls)
    BY <1>1 DEF PublicSpaces
  <2>3. Len(s[i].colls) \in Nat /\ DOMAIN s[i].colls = 1 .. Len(s[i].colls)
        /\ \A j \in DOMAIN s[i].colls : s[i].colls[j] \in PublicColls
    BY <2>2, LenProperties, ElementOfSeq
  <2>4. names \in [1 .. Len(s[i].colls) -> STRING]
    BY <2>3 DEF PublicColls
  <2> HIDE DEF names
  <2>5. names \in Seq(STRING)
    BY <2>3, <2>4
  <2> QED BY <2>1, <2>2, <2>5
<1>3. DOMAIN CallsOf(s) = DOMAIN s /\ CallsOf(s) = [i \in DOMAIN s |-> CallsOf(s)[i]]
  BY DEF CallsOf
<1>4. CallsOf(s) \in [1 .. Len(s) -> [id : STRING, colls : Seq(STRING)]]
  <2> DEFINE T == [id : STRING, colls : Seq(STRING)]
  <2>1. \A i \in 1 .. Len(s) : CallsOf(s)[i] \in T
    BY <1>1, <1>2
  <2> HIDE DEF T
  <2>2. CallsOf(s) \in [1 .. Len(s) -> T]
    BY <1>1, <1>3, <2>1
  <2> QED BY <2>2 DEF T
<1>5. CallsOf(s) \in Seq([id : STRING, colls : Seq(STRING)]) /\ Len(CallsOf(s)) = Len(s)
  <2> DEFINE T == [id : STRING, colls : Seq(STRING)]
  <2> HIDE DEF T
  <2>1. CallsOf(s) \in [1 .. Len(s) -> T] => CallsOf(s) \in Seq(T) /\ Len(CallsOf(s)) = Len(s)
    BY <1>1
  <2> QED BY <1>4, <2>1 DEF T
<1> QED BY <1>1, <1>2, <1>5

\* The calls of a response that was read: at most MaxLength, each namespace once.
LEMMA ResponseIs ==
  ASSUME TypeOK, NEW c \in Calls, Reading(c)
  PROVE  /\ DOMAIN response[c] = 1 .. Len(response[c]) /\ Len(response[c]) \in 0 .. MaxLength
         /\ \A k \in DOMAIN response[c] :
              /\ response[c][k].id \in STRING /\ response[c][k].colls \in Seq(STRING)
              /\ Len(response[c][k].colls) \in Nat
              /\ DOMAIN response[c][k].colls = 1 .. Len(response[c][k].colls)
              /\ <<c, k>> \in Arrays
         /\ \A j, k \in DOMAIN response[c] : response[c][j].id = response[c][k].id => j = k
<1> DEFINE T == [id : STRING, colls : Seq(STRING)]
<1>1. response[c] \in Seq(T)
  BY DEF TypeOK
<1>2. \A e \in T : e.id \in STRING /\ e.colls \in Seq(STRING)
  OBVIOUS
<1> HIDE DEF T
<1>3. /\ DOMAIN response[c] = 1 .. Len(response[c]) /\ Len(response[c]) \in Nat
      /\ \A k \in DOMAIN response[c] : response[c][k] \in T
  BY <1>1, LenProperties, ElementOfSeq
<1>4. /\ Len(response[c]) <= MaxLength
      /\ \A j, k \in DOMAIN response[c] : response[c][j].id = response[c][k].id => j = k
  <2>1. CASE ~ HasRead(c)
    <3>1. response[c] = <<>>
      BY <2>1 DEF Reading
    <3> QED BY <1>3, <3>1, MaxLengthIsNumber
  <2>2. CASE HasRead(c)
    <3> DEFINE wrote == request.answers[c].wrote
    <3>1. c \in DOMAIN request.answers /\ response[c] = CallsOf(wrote) /\ request \in Requests
      BY <2>2 DEF Reading, HasRead, TypeOK
    <3>2. /\ wrote \in PublicSets /\ Len(wrote) <= MaxLength
          /\ \A i, j \in DOMAIN wrote : wrote[i].ns = wrote[j].ns => i = j
      BY <3>1, AnswersAreWritten
    <3> HIDE DEF wrote
    <3>3. /\ Len(CallsOf(wrote)) = Len(wrote) /\ DOMAIN wrote = 1 .. Len(wrote)
          /\ \A i \in DOMAIN wrote : CallsOf(wrote)[i].id = wrote[i].ns
      BY <3>2, CallsOfIs
    <3> QED BY <1>3, <3>1, <3>2, <3>3
  <2> QED BY <2>1, <2>2
<1>5. Len(response[c]) \in 0 .. MaxLength
  BY <1>3, <1>4, MaxLengthIsNumber
<1>6. ASSUME NEW k \in DOMAIN response[c]
      PROVE  /\ response[c][k].id \in STRING /\ response[c][k].colls \in Seq(STRING)
             /\ Len(response[c][k].colls) \in Nat
             /\ DOMAIN response[c][k].colls = 1 .. Len(response[c][k].colls)
             /\ <<c, k>> \in Arrays
  <2>1. response[c][k].id \in STRING /\ response[c][k].colls \in Seq(STRING)
    BY <1>2, <1>3
  <2>2. k \in 0 .. MaxLength
    BY <1>3, <1>5, MaxLengthIsNumber
  <2> QED BY <2>1, <2>2, LenProperties DEF Arrays
<1> QED BY <1>3, <1>4, <1>5, <1>6


\* The elements of a merged slice stay, or another call writes over one that is not
\* firm: then the call is not alone.
Kept(d, k) ==
  LET sl == merged[d][k].slice
  IN \A i \in 1 .. sl.len :
       \/ array'[sl.array][i] = array[sl.array][i]
       \/ /\ ~ Firm(sl, i) /\ ~ Alone(request, d)
          /\ array'[sl.array][i] \in AnyNamed(response[d][k].id)

KeepsSlices(d) ==
  \A k \in DOMAIN merged[d] :
    LET sl == merged[d][k].slice
    IN sl.len <= Len(array'[sl.array]) /\ Kept(d, k)

\* The locals of a call.
Unmoved(d) ==
  /\ stage'[d] = stage[d] /\ response'[d] = response[d] /\ at'[d] = at[d] /\ coll'[d] = coll[d]
  /\ merged'[d] = merged[d] /\ found'[d] = found[d] /\ selected'[d] = selected[d]

LEMMA ValuesStay ==
  ASSUME request' = request
  PROVE  /\ ChainOnValues' = ChainOnValues
         /\ \A id : GivenFor(id)' = GivenFor(id) /\ AnyNamed(id)' = AnyNamed(id)
         /\ \A c : AnswerChain(c)' = AnswerChain(c) /\ MergedOnValues(c)' = MergedOnValues(c)
         /\ \A slice, i : Firm(slice, i)' = Firm(slice, i)
<1>1. ChainOnValues' = ChainOnValues
  BY DEF ChainOnValues, GivenChain
<1>2. \A id : GivenFor(id)' = GivenFor(id) /\ AnyNamed(id)' = AnyNamed(id)
  BY <1>1 DEF GivenFor, AnyNamed
<1>3. \A c : AnswerChain(c)' = AnswerChain(c) /\ MergedOnValues(c)' = MergedOnValues(c)
  BY <1>1 DEF AnswerChain, MergedOnValues
<1>4. \A slice, i : Firm(slice, i)' = Firm(slice, i)
  BY DEF Firm, GivenColls
<1> QED BY <1>1, <1>2, <1>3, <1>4

LEMMA HoldsStays ==
  ASSUME NEW d, NEW k, Holds(d, k), Kept(d, k), request' = request,
         response'[d][k] = response[d][k], merged'[d][k] = merged[d][k],
         SoFar(d, k)' = SoFar(d, k)
  PROVE  Holds(d, k)'
<1> DEFINE sl == merged[d][k].slice
           id == response[d][k].id
           given == GivenFor(id)
           news == IsNews(ChainOnValues, SoFar(d, k))
           all == MergeCCCall(ChainOnValues, SoFar(d, k)).colls
           a == array[sl.array]
           b == array'[sl.array]
<1>1. /\ \A x \in given : \E i \in 1 .. sl.len : Firm(sl, i) /\ a[i] = x
      /\ \A i \in 1 .. sl.len : a[i] \in given \cup AnyNamed(id)
      /\ ~ news => \A i \in 1 .. sl.len : Firm(sl, i) /\ a[i] \in given
      /\ Alone(request, d) => {a[i] : i \in 1 .. sl.len} = all
  BY DEF Holds, Elements, Range
<1>2. \A i \in 1 .. sl.len :
        b[i] = a[i] \/ (~ Firm(sl, i) /\ ~ Alone(request, d) /\ b[i] \in AnyNamed(id))
  BY DEF Kept
<1>3. /\ sl' = sl /\ id' = id /\ news' = news /\ all' = all /\ a' = b
      /\ given' = given /\ AnyNamed(id)' = AnyNamed(id)
      /\ \A i : Firm(sl, i)' = Firm(sl, i)
  <2>1. ChainOnValues' = ChainOnValues /\ sl' = sl /\ id' = id
    BY ValuesStay
  <2>2. news' = news /\ all' = all /\ a' = b
    BY <2>1
  <2>3. given' = given /\ AnyNamed(id)' = AnyNamed(id) /\ \A i : Firm(sl, i)' = Firm(sl, i)
    BY <2>1 DEF GivenFor, AnyNamed, Firm, GivenColls
  <2> QED BY <2>1, <2>2, <2>3
<1>4. /\ \A x \in given : \E i \in 1 .. sl.len : Firm(sl, i) /\ b[i] = x
      /\ \A i \in 1 .. sl.len : b[i] \in given \cup AnyNamed(id)
      /\ ~ news => \A i \in 1 .. sl.len : Firm(sl, i) /\ b[i] \in given
      /\ Alone(request, d) => {b[i] : i \in 1 .. sl.len} = all
  <2> HIDE DEF sl, id, given, news, all, a, b
  <2>1. /\ \A x \in given : \E i \in 1 .. sl.len : Firm(sl, i) /\ b[i] = x
        /\ \A i \in 1 .. sl.len : b[i] \in given \cup AnyNamed(id)
        /\ ~ news => \A i \in 1 .. sl.len : Firm(sl, i) /\ b[i] \in given
    BY <1>1, <1>2, Zenon
  <2>2. ASSUME Alone(request, d) PROVE {b[i] : i \in 1 .. sl.len} = {a[i] : i \in 1 .. sl.len}
    <3>1. \A i \in 1 .. sl.len : b[i] = a[i]
      BY <1>2, <2>2
    <3> QED BY <3>1
  <2> QED BY <1>1, <2>1, <2>2
<1>5. Range(Elements(sl))' = {b[i] : i \in 1 .. sl.len}
  BY <1>3 DEF Range, Elements
<1> QED BY <1>3, <1>4, <1>5 DEF Holds

LEMMA SettledStays ==
  ASSUME NEW d, Settled(d), request' = request,
         selected'[d] = selected[d], stage'[d] = stage[d]
  PROVE  Settled(d)'
<1>1. /\ ChainOnValues' = ChainOnValues /\ AnswerChain(d)' = AnswerChain(d)
      /\ MergedOnValues(d)' = MergedOnValues(d)
  BY ValuesStay
<1>2. Bounded(selected[d], MergedOnValues(d))' <=> Bounded(selected[d], MergedOnValues(d))
  <2> DEFINE S == selected[d]
             M == MergedOnValues(d)
  <2>1. \A k : /\ GivenFor(S[k].id)' = GivenFor(S[k].id)
               /\ AnyNamed(S[k].id)' = AnyNamed(S[k].id)
    BY <1>1 DEF GivenFor, AnyNamed
  <2>2. S' = S /\ M' = M
    BY <1>1
  <2> HIDE DEF S, M
  <2>3. Bounded(S, M)' <=> Bounded(S, M)
    BY <2>1, <2>2 DEF Bounded
  <2> QED BY <2>3 DEF S, M
<1> QED BY <1>1, <1>2 DEF Settled

LEMMA OthersStay ==
  ASSUME NEW d \in Calls, Reading(d), Progress(d), Contents(d), Settled(d),
         Unmoved(d), KeepsSlices(d), request' = request, provided' = provided
  PROVE  Reading(d)' /\ Progress(d)' /\ Contents(d)' /\ Settled(d)'
<1>1. Reading(d)'
  BY DEF Reading, HasRead, Unmoved
<1>2. Current(d)' = Current(d) /\ Known(d)' = Known(d) /\ Merged(d)' = Merged(d)
  BY DEF Current, Known, Merged, Unmoved
<1>3. Progress(d)'
  <2>1. ASSUME NEW k \in DOMAIN merged[d] PROVE Fits(d, k)'
    <3>1. Fits(d, k)
      BY <2>1 DEF Progress
    <3>2. merged[d][k].slice.len <= Len(array'[merged[d][k].slice.array])
      BY <2>1 DEF KeepsSlices
    <3> QED BY <3>1, <3>2 DEF Fits, Unmoved, GivenColls, Capacity
  <2> QED BY <1>2, <2>1 DEF Progress, Unmoved
<1>4. ChainOnValues' = ChainOnValues /\ \A k : SoFar(d, k)' = SoFar(d, k)
  BY ValuesStay DEF SoFar, Unmoved
<1>5. Contents(d)'
  <2>1. ASSUME NEW k \in DOMAIN merged[d] PROVE Holds(d, k)'
    <3>1. Holds(d, k) /\ Kept(d, k) /\ SoFar(d, k)' = SoFar(d, k)
      BY <1>4 DEF Contents, KeepsSlices
    <3>2. merged'[d][k] = merged[d][k] /\ response'[d][k] = response[d][k]
      BY DEF Unmoved
    <3> QED BY <3>1, <3>2, HoldsStays
  <2>2. found'[d] <=> \E k \in DOMAIN merged'[d] : IsNews(ChainOnValues', SoFar(d, k)')
    BY <1>4 DEF Contents, Unmoved
  <2> QED BY <2>1, <2>2 DEF Contents, Unmoved
<1>6. Settled(d)'
  BY SettledStays DEF Unmoved
<1> QED BY <1>1, <1>3, <1>5, <1>6


-------------------------------------------------------------------------------
(* The invariant is inductive.                                               *)

LEMMA InitTypeOK ==
  ASSUME Init
  PROVE  TypeOK
<1>1. request \in Requests
  BY DEF Init
<1>2. /\ request.chain \in Seq([id : STRING, colls : Seq(STRING), room : Nat])
      /\ Len(request.chain) <= MaxLength
  BY <1>1, RequestsAreChains
<1>3. /\ DOMAIN request.chain = 1 .. Len(request.chain) /\ Len(request.chain) \in Nat
      /\ \A k \in DOMAIN request.chain : request.chain[k] \in [id : STRING, colls : Seq(STRING), room : Nat]
  BY <1>2, LenProperties, ElementOfSeq
<1>4. \A k \in DOMAIN request.chain :
        /\ request.chain[k].colls \in Seq(STRING) /\ Len(request.chain[k].colls) \in Nat
        /\ request.chain[k].room \in Nat
  BY <1>3, LenProperties
<1>5. array \in [Arrays -> Seq(STRING)]
  <2>1. <<>> \in Seq(STRING)
    BY EmptySeq
  <2>2. \A k \in DOMAIN request.chain : request.chain[k].colls \in Seq(STRING)
    BY <1>4
  <2>3. array = [a \in Arrays |->
          IF a[1] = Request /\ a[2] \in DOMAIN request.chain THEN request.chain[a[2]].colls ELSE <<>>]
    BY DEF Init
  <2> QED BY <2>1, <2>2, <2>3
<1>7. response \in [Calls -> Seq([id : STRING, colls : Seq(STRING)])]
  BY EmptySeq DEF Init
<1>8. ASSUME NEW c \in Calls
      PROVE  /\ at[c] \in 1 .. Len(response[c]) + 1
             /\ DOMAIN merged[c] = {}
  BY DEF Init
<1>9. /\ stage \in [Calls -> {"absent", "answered", "warned", "merging", "nothing", "selected"}]
      /\ at \in [Calls -> Nat] /\ coll \in [Calls -> Nat]
      /\ found \in [Calls -> BOOLEAN]
  BY DEF Init
<1>10. \A c \in Calls :
         /\ at[c] \in 1 .. Len(response[c]) + 1
         /\ DOMAIN merged[c] \subseteq DOMAIN response[c]
         /\ \A k \in DOMAIN merged[c] :
              merged[c][k] \in [id : STRING, slice : [array : Arrays, len : Nat]]
  BY <1>8
<1> QED BY <1>1, <1>5, <1>7, <1>9, <1>10 DEF TypeOK

LEMMA InitIInv ==
  ASSUME Init
  PROVE  IInv
<1>1. TypeOK
  BY InitTypeOK
<1>2. DOMAIN merged = Calls /\ DOMAIN selected = Calls
  BY DEF Init
<1>3. Base
  <2>1. provided = [k \in DOMAIN request.chain |->
          [id |-> request.chain[k].id, slice |-> Slice(<<Request, k>>, Len(GivenColls(k)))]]
    BY DEF Init, GivenColls
  <2>2. ASSUME NEW k \in DOMAIN request.chain
        PROVE  array[<<Request, k>>] = GivenColls(k)
               /\ Len(GivenColls(k)) \in Nat /\ request.chain[k].room \in Nat
    <3>1. <<Request, k>> \in Arrays /\ Len(GivenColls(k)) \in Nat /\ request.chain[k].room \in Nat
      BY <1>1, RequestIs
    <3> QED BY <3>1 DEF Init, GivenColls
  <2>3. \A k \in DOMAIN request.chain :
          /\ Len(GivenColls(k)) <= Len(array[<<Request, k>>])
          /\ Len(array[<<Request, k>>]) <= Capacity(k)
          /\ \A i \in 1 .. Len(GivenColls(k)) : array[<<Request, k>>][i] = GivenColls(k)[i]
    BY <2>2 DEF Capacity
  <2> QED BY <2>1, <2>3 DEF Base
<1>4. ASSUME NEW c \in Calls PROVE Reading(c) /\ Progress(c) /\ Contents(c) /\ Settled(c)
  <2>1. /\ stage[c] = IF c \in DOMAIN request.answers THEN "answered" ELSE "absent"
        /\ response[c] = <<>> /\ at[c] = 1 /\ coll[c] = 0 /\ merged[c] = <<>> /\ ~ found[c]
    BY DEF Init
  <2>2. ~ HasRead(c) /\ stage[c] # "warned" /\ (stage[c] # "absent" => c \in DOMAIN request.answers)
    BY <2>1 DEF HasRead
  <2>3. Reading(c) /\ Settled(c)
    BY <2>1, <2>2 DEF Reading, Settled, HasRead
  <2>4. DOMAIN merged[c] = {} /\ DOMAIN response[c] = {}
    BY <2>1
  <2>5. Merged(c) = {}
    BY <2>4 DEF Merged
  <2>6. Progress(c)
    BY <2>1, <2>4, <2>5 DEF Progress
  <2>7. Contents(c)
    BY <2>1, <2>4 DEF Contents
  <2> QED BY <2>3, <2>6, <2>7
<1> QED BY <1>1, <1>2, <1>3, <1>4 DEF IInv


\* A step of a call keeps the invariant when it does so for this call and the
\* arrays, and touches neither another's locals nor what slices of others hold.
LEMMA StepOfOne ==
  ASSUME IInv, NEW c \in Calls, request' = request, provided' = provided,
         DOMAIN merged' = Calls, DOMAIN selected' = Calls,
         \A d \in Calls \ {c} : Unmoved(d) /\ KeepsSlices(d),
         TypeOK', Base', Reading(c)', Progress(c)', Contents(c)', Settled(c)'
  PROVE  IInv'
<1>1. ASSUME NEW d \in Calls
      PROVE  Reading(d)' /\ Progress(d)' /\ Contents(d)' /\ Settled(d)'
  <2>1. CASE d = c
    BY <2>1
  <2>2. CASE d # c
    <3>1. Reading(d) /\ Progress(d) /\ Contents(d) /\ Settled(d)
      BY DEF IInv
    <3>2. Unmoved(d) /\ KeepsSlices(d)
      BY <2>2
    <3> QED BY <3>1, <3>2, OthersStay
  <2> QED BY <2>1, <2>2
<1> QED BY <1>1 DEF IInv

LEMMA StepWithoutAppend ==
  ASSUME IInv, NEW c \in Calls, request' = request, provided' = provided, array' = array,
         DOMAIN merged' = Calls, DOMAIN selected' = Calls, \A d \in Calls \ {c} : Unmoved(d),
         TypeOK', Reading(c)', Progress(c)', Contents(c)', Settled(c)'
  PROVE  IInv'
<1>1. ASSUME NEW d \in Calls \ {c} PROVE KeepsSlices(d)
  <2>1. \A k \in DOMAIN merged[d] : Fits(d, k)
    BY DEF IInv, Progress
  <2> QED BY <2>1 DEF Fits, KeepsSlices, Kept
<1>2. Base'
  BY DEF IInv, Base, GivenColls, Capacity
<1> QED BY <1>1, <1>2, StepOfOne

\* What is said of a call that has read its response.
LEMMA MergingIs ==
  ASSUME IInv, NEW c \in Calls, Merging(c)
  PROVE  /\ at[c] \in DOMAIN response[c] /\ at[c] \in Nat /\ coll[c] \in Nat
         /\ HasRead(c)
         /\ Current(c).id \in STRING /\ Current(c).colls \in Seq(STRING)
         /\ Len(Current(c).colls) \in Nat /\ DOMAIN Current(c).colls = 1 .. Len(Current(c).colls)
         /\ <<c, at[c]>> \in Arrays
<1>1. at[c] \in Nat /\ coll[c] \in Nat /\ at[c] \in 1 .. Len(response[c]) + 1
  BY DEF IInv, TypeOK
<1>2. /\ DOMAIN response[c] = 1 .. Len(response[c]) /\ Len(response[c]) \in 0 .. MaxLength
      /\ \A k \in DOMAIN response[c] :
              /\ response[c][k].id \in STRING /\ response[c][k].colls \in Seq(STRING)
              /\ Len(response[c][k].colls) \in Nat
              /\ DOMAIN response[c][k].colls = 1 .. Len(response[c][k].colls)
              /\ <<c, k>> \in Arrays
  BY ResponseIs DEF IInv
<1>3. at[c] \in DOMAIN response[c]
  BY <1>1, <1>2, MaxLengthIsNumber DEF Merging
<1> QED BY <1>1, <1>2, <1>3 DEF Merging, HasRead, Current

LEMMA ReadResponseKeeps ==
  ASSUME IInv, NEW c \in Calls, ReadResponse(c)
  PROVE  IInv'
<1> DEFINE a == request.answers[c]
           sets == RWSetsOf(a.response)
<1>1. /\ TypeOK /\ Reading(c) /\ Progress(c)
      /\ DOMAIN merged = Calls /\ DOMAIN selected = Calls
  BY DEF IInv
<1>2. /\ stage[c] = "answered"
      /\ IF sets.err
         THEN stage' = [stage EXCEPT ![c] = "warned"] /\ response' = response
         ELSE /\ stage' = [stage EXCEPT ![c] = "merging"]
              /\ response' = [response EXCEPT ![c] = CallsOf(sets.value)]
      /\ request' = request /\ provided' = provided /\ array' = array /\ at' = at /\ coll' = coll
      /\ merged' = merged /\ found' = found /\ selected' = selected
  BY DEF ReadResponse
<1>3. c \in DOMAIN request.answers /\ request \in Requests
  BY <1>1, <1>2 DEF Reading, TypeOK
<1>4. /\ a.wrote \in PublicSets /\ a.sound \in BOOLEAN
      /\ a.sound => sets = Value(a.wrote)
      /\ ~ a.sound => sets = Failure
  BY <1>3, AnswersAreWritten, AnswerIsRead
<1>5. /\ response[c] = <<>> /\ at[c] = 1 /\ coll[c] = 0 /\ ~ found[c]
      /\ ~ HasRead(c)
  BY <1>1, <1>2 DEF Reading, HasRead
<1>6. DOMAIN merged[c] = {}
  <2>1. DOMAIN response[c] = {}
    BY <1>5
  <2>2. DOMAIN merged[c] = Merged(c)
    BY <1>1 DEF Progress
  <2> QED BY <2>1, <2>2 DEF Merged
<1> HIDE DEF sets, a
<1>7. \/ /\ a.sound /\ stage' = [stage EXCEPT ![c] = "merging"]
         /\ response' = [response EXCEPT ![c] = CallsOf(a.wrote)]
      \/ /\ ~ a.sound /\ stage' = [stage EXCEPT ![c] = "warned"] /\ response' = response
  <2>1. a.sound => sets.err = FALSE /\ sets.value = a.wrote
    BY <1>4 DEF Value
  <2>2. ~ a.sound => sets.err = TRUE
    BY <1>4 DEF Failure
  <2> QED BY <1>2, <2>1, <2>2
<1>8. CallsOf(a.wrote) \in Seq([id : STRING, colls : Seq(STRING)]) /\ Len(CallsOf(a.wrote)) \in Nat
  BY <1>4, CallsOfIs, LenProperties
<1>9. /\ stage' \in [Calls -> {"absent", "answered", "warned", "merging", "nothing", "selected"}]
      /\ response' \in [Calls -> Seq([id : STRING, colls : Seq(STRING)])]
      /\ Len(response'[c]) \in Nat
  <2> DEFINE T == Seq([id : STRING, colls : Seq(STRING)])
  <2>1. response \in [Calls -> T] /\ CallsOf(a.wrote) \in T /\ <<>> \in T
    BY <1>1, <1>8, EmptySeq DEF TypeOK
  <2>2. stage \in [Calls -> {"absent", "answered", "warned", "merging", "nothing", "selected"}]
    BY <1>1 DEF TypeOK
  <2> HIDE DEF T
  <2>3. response' \in [Calls -> T]
    BY <1>7, <2>1
  <2>4. Len(response'[c]) \in Nat
    BY <1>5, <1>7, <1>8, <2>1
  <2>5. stage' \in [Calls -> {"absent", "answered", "warned", "merging", "nothing", "selected"}]
    BY <1>7, <2>2
  <2> QED BY <2>3, <2>4, <2>5 DEF T
<1>10. ASSUME NEW d \in Calls \ {c} PROVE Unmoved(d)
  BY <1>1, <1>2, <1>7 DEF Unmoved, TypeOK
<1>11. TypeOK'
  <2>1. ASSUME NEW d \in Calls
        PROVE  /\ at'[d] \in 1 .. Len(response'[d]) + 1
               /\ DOMAIN merged'[d] \subseteq DOMAIN response'[d]
               /\ \A k \in DOMAIN merged'[d] :
                    merged'[d][k] \in [id : STRING, slice : [array : Arrays, len : Nat]]
    <3>1. CASE d = c
      BY <1>2, <1>5, <1>6, <1>9, <3>1
    <3>2. CASE d # c
      BY <1>1, <1>10, <3>2 DEF TypeOK, Unmoved
    <3> QED BY <3>1, <3>2
  <2> QED BY <1>1, <1>2, <1>9, <2>1 DEF TypeOK
<1>12. Reading(c)'
  <2>1. stage'[c] = IF a.sound THEN "merging" ELSE "warned"
    BY <1>1, <1>7 DEF TypeOK
  <2>2. response'[c] = IF a.sound THEN CallsOf(a.wrote) ELSE <<>>
    BY <1>1, <1>5, <1>7 DEF TypeOK
  <2>3. request'.answers[c] = a /\ at'[c] = 1 /\ coll'[c] = 0 /\ ~ found'[c]
    BY <1>2, <1>5 DEF a
  <2> QED BY <1>2, <1>3, <1>4, <2>1, <2>2, <2>3 DEF Reading, HasRead
<1>13. Progress(c)'
  <2>1. DOMAIN merged'[c] = {} /\ coll'[c] = 0 /\ at'[c] = 1
    BY <1>2, <1>5, <1>6
  <2>2. Merged(c)' = {}
    <3>1. DOMAIN response'[c] = 1 .. Len(response'[c])
      BY <1>9, LenProperties
    <3> QED BY <1>9, <2>1, <3>1 DEF Merged
  <2> QED BY <2>1, <2>2 DEF Progress
<1>14. Contents(c)' /\ Settled(c)'
  <2>1. stage'[c] \in {"merging", "warned"} /\ ~ found'[c] /\ DOMAIN merged'[c] = {}
    BY <1>1, <1>2, <1>5, <1>6, <1>7 DEF TypeOK
  <2> QED BY <2>1 DEF Contents, Settled
<1> QED BY <1>1, <1>2, <1>10, <1>11, <1>12, <1>13, <1>14, StepWithoutAppend


LEMMA FilteredKeeps ==
  ASSUME IInv, NEW c \in Calls, Filtered(c)
  PROVE  IInv'
<1>1. /\ TypeOK /\ Reading(c) /\ Progress(c) /\ Contents(c) /\ Settled(c)
      /\ DOMAIN merged = Calls /\ DOMAIN selected = Calls
  BY DEF IInv
<1>2. /\ Merging(c) /\ ~ Passes(c) /\ stage[c] = "merging"
      /\ request' = request /\ provided' = provided /\ array' = array /\ stage' = stage
      /\ response' = response /\ coll' = coll /\ merged' = merged /\ found' = found
      /\ selected' = selected /\ at' = [at EXCEPT ![c] = @ + 1]
  BY DEF Filtered, Merging
<1>3. at[c] \in DOMAIN response[c] /\ at[c] \in Nat /\ coll[c] \in Nat /\ HasRead(c)
  BY <1>2, MergingIs
<1>4. Current(c).id \in LeftOut(FilteredOut)
  BY <1>2 DEF Passes
<1>5. coll[c] = 0
  BY <1>1, <1>3, <1>4 DEF Progress
<1>6. at'[c] = at[c] + 1 /\ \A d \in Calls \ {c} : at'[d] = at[d]
  BY <1>1, <1>2 DEF TypeOK
<1>7. ASSUME NEW d \in Calls \ {c} PROVE Unmoved(d)
  BY <1>2, <1>6 DEF Unmoved
<1>8. DOMAIN response[c] = 1 .. Len(response[c]) /\ Len(response[c]) \in Nat
  BY <1>1, ResponseIs, MaxLengthIsNumber
<1>9. TypeOK'
  <2>0. \A d \in Calls : at[d] \in 1 .. Len(response[d]) + 1
    BY <1>1 DEF TypeOK
  <2>1. \A d \in Calls : at'[d] \in 1 .. Len(response[d]) + 1
    BY <1>3, <1>6, <1>8, <2>0
  <2>2. at' \in [Calls -> Nat]
    BY <1>1, <1>2 DEF TypeOK
  <2> QED BY <1>1, <1>2, <2>1, <2>2 DEF TypeOK
<1>10. Reading(c)'
  BY <1>1, <1>2, <1>3 DEF Reading, HasRead
<1>11. Merged(c)' = Merged(c)
  BY <1>2, <1>3, <1>4, <1>5, <1>6, <1>8 DEF Merged, Current
<1>12. Progress(c)'
  <2>1. ASSUME NEW k \in DOMAIN merged[c] PROVE Fits(c, k)'
    BY <1>1, <1>2 DEF Progress, Fits, GivenColls, Capacity
  <2> QED BY <1>1, <1>2, <1>5, <1>11, <2>1 DEF Progress
<1>13. Contents(c)'
  <2>1. ASSUME NEW k \in DOMAIN merged[c]
        PROVE  SoFar(c, k)' = SoFar(c, k) /\ Holds(c, k)'
    <3>1. k \in DOMAIN response[c] /\ k < at[c]
      BY <1>1, <1>5, <2>1 DEF Progress, Merged
    <3>2. k \in Nat /\ k < at'[c]
      BY <1>3, <1>6, <1>8, <3>1
    <3>3. SoFar(c, k)' = SoFar(c, k)
      BY <1>2, <3>1, <3>2 DEF SoFar
    <3>4. Holds(c, k) /\ Kept(c, k)
      BY <1>1, <1>2, <2>1 DEF Contents, Kept
    <3> QED BY <1>2, <3>3, <3>4, HoldsStays
  <2>2. ChainOnValues' = ChainOnValues
    BY <1>2, ValuesStay
  <2> QED BY <1>1, <1>2, <2>1, <2>2 DEF Contents
<1>14. Settled(c)'
  BY <1>1, <1>2, SettledStays
<1> QED BY <1>1, <1>2, <1>7, <1>9, <1>10, <1>12, <1>13, <1>14, StepWithoutAppend


\* The call of the chain that a call of the response is merged with.
Match(c) == FirstAt(ChainOnValues, Current(c).id)

LEMMA KnownIs ==
  ASSUME TypeOK, Base, NEW c
  PROVE  /\ Known(c) = At(ChainOnValues, Current(c).id)
         /\ FirstAt(SliceChain(provided), Current(c).id) = Match(c)
         /\ Known(c) # {} => /\ SliceChain(provided)[Match(c)] =
                                  [id |-> Current(c).id, slice |-> SliceChain(provided)[Match(c)].slice]
                             /\ IsGiven(SliceChain(provided)[Match(c)].slice, Current(c).id)
                             /\ Range(Elements(SliceChain(provided)[Match(c)].slice)) =
                                  ChainOnValues[Match(c)].colls
<1>1. /\ DOMAIN SliceChain(provided) = DOMAIN ChainOnValues
      /\ DOMAIN ChainOnValues \subseteq Nat
      /\ \A id : At(SliceChain(provided), id) = At(ChainOnValues, id)
      /\ \A k \in DOMAIN ChainOnValues :
           /\ SliceChain(provided)[k] =
                [id |-> ChainOnValues[k].id, slice |-> SliceChain(provided)[k].slice]
           /\ Range(Elements(SliceChain(provided)[k].slice)) = ChainOnValues[k].colls
           /\ IsGiven(SliceChain(provided)[k].slice, ChainOnValues[k].id)
  BY SliceChainIs
<1>2. At(SliceChain(provided), Current(c).id) = At(ChainOnValues, Current(c).id)
  BY <1>1
<1>3. Known(c) = At(ChainOnValues, Current(c).id)
  BY <1>2 DEF Known
<1>4. FirstAt(SliceChain(provided), Current(c).id) = Match(c)
  BY <1>2, Zenon DEF FirstAt, Match
<1>5. ASSUME Known(c) # {}
      PROVE  Match(c) \in DOMAIN ChainOnValues /\ ChainOnValues[Match(c)].id = Current(c).id
  <2>1. Match(c) \in At(ChainOnValues, Current(c).id)
    BY <1>1, <1>3, <1>5, FirstAtIsAt DEF Match
  <2> QED BY <2>1 DEF At
<1> QED BY <1>1, <1>3, <1>4, <1>5

\* What merging a call of the response adds so far, for one the chain has.
LEMMA MergeSoFar ==
  ASSUME NEW c, Known(c) = At(ChainOnValues, Current(c).id), Known(c) # {},
         NEW k, k = at[c]
  PROVE  /\ MergeCCCall(ChainOnValues, SoFar(c, k)).colls =
              ChainOnValues[Match(c)].colls \cup SoFar(c, k).colls
         /\ IsNews(ChainOnValues, SoFar(c, k)) <=>
              ~ (SoFar(c, k).colls \subseteq ChainOnValues[Match(c)].colls)
<1>1. SoFar(c, k).id = Current(c).id
  BY DEF SoFar, Current, Call
<1>2. At(ChainOnValues, SoFar(c, k).id) # {} /\ FirstAt(ChainOnValues, SoFar(c, k).id) = Match(c)
  BY <1>1 DEF Match
<1> QED BY <1>2 DEF MergeCCCall, IsNews, Call


LEMMA AppendMergedIs ==
  ASSUME DOMAIN merged = Calls, NEW c \in Calls, NEW call, AppendMerged(c, call)
  PROVE  /\ DOMAIN merged' = Calls
         /\ \A d \in Calls \ {c} : merged'[d] = merged[d]
         /\ DOMAIN merged'[c] = DOMAIN merged[c] \cup {at[c]}
         /\ merged'[c][at[c]] = call
         /\ \A k \in DOMAIN merged[c] \ {at[c]} : merged'[c][k] = merged[c][k]
BY DEF AppendMerged

\* A slice that is given is one of the request's, which has room for it.
LEMMA GivenFits ==
  ASSUME TypeOK, Base, NEW slice, NEW id, IsGiven(slice, id)
  PROVE  /\ slice \in [array : Arrays, len : Nat]
         /\ slice.len <= Len(array[slice.array])
         /\ \/ slice = NoSlice
            \/ \E p \in DOMAIN request.chain :
                 /\ slice.array = <<Request, p>> /\ request.chain[p].id = id
                 /\ slice.len = Len(GivenColls(p)) /\ slice.len <= Capacity(p)
         /\ \A i \in 1 .. slice.len : Firm(slice, i)
<1>1. CASE slice = NoSlice
  <2>1. slice = [array |-> <<Request, 0>>, len |-> 0]
    BY <1>1 DEF NoSlice, Slice
  <2>2. <<Request, 0>> \in Arrays
    BY MaxLengthIsNumber DEF Arrays
  <2>3. Len(array[<<Request, 0>>]) \in Nat
    BY <2>2, LenProperties DEF TypeOK
  <2>4. 1 .. 0 = {} /\ slice.len = 0
    BY <2>1
  <2> QED BY <1>1, <2>1, <2>2, <2>3, <2>4
<1>2. CASE slice # NoSlice
  <2>1. PICK p \in DOMAIN request.chain :
          slice = Slice(<<Request, p>>, Len(GivenColls(p))) /\ request.chain[p].id = id
    BY <1>2 DEF IsGiven
  <2>2. slice = [array |-> <<Request, p>>, len |-> Len(GivenColls(p))]
    BY <2>1 DEF Slice
  <2>3. <<Request, p>> \in Arrays /\ Len(GivenColls(p)) \in Nat /\ request.chain[p].room \in Nat
    BY RequestIs
  <2>4. Len(GivenColls(p)) <= Len(array[<<Request, p>>])
    BY DEF Base
  <2>5. \A i \in 1 .. slice.len : Firm(slice, i)
    BY <2>2, <2>3 DEF Firm
  <2> QED BY <2>1, <2>2, <2>3, <2>4, <2>5 DEF Capacity
<1> QED BY <1>1, <1>2

LEMMA BeginMergeKeeps ==
  ASSUME IInv, NEW c \in Calls, BeginMerge(c)
  PROVE  IInv'
<1> DEFINE call == SliceChain(provided)[FirstAt(SliceChain(provided), Current(c).id)]
<1>1. /\ TypeOK /\ Base /\ Reading(c) /\ Progress(c) /\ Contents(c) /\ Settled(c)
      /\ DOMAIN merged = Calls /\ DOMAIN selected = Calls
  BY DEF IInv
<1>2. /\ Merging(c) /\ stage[c] = "merging" /\ Current(c).id \notin LeftOut(FilteredOut)
      /\ coll[c] = 0 /\ Known(c) # {} /\ AppendMerged(c, call)
      /\ request' = request /\ provided' = provided /\ array' = array /\ stage' = stage
      /\ response' = response /\ at' = at /\ found' = found
      /\ selected' = selected /\ coll' = [coll EXCEPT ![c] = 1]
  BY DEF BeginMerge, Passes, Merging
<1>3. /\ at[c] \in DOMAIN response[c] /\ at[c] \in Nat /\ HasRead(c)
      /\ Current(c).id \in STRING /\ Len(Current(c).colls) \in Nat
      /\ DOMAIN Current(c).colls = 1 .. Len(Current(c).colls)
  BY <1>2, MergingIs
<1>4. /\ Known(c) = At(ChainOnValues, Current(c).id)
      /\ call = [id |-> Current(c).id, slice |-> call.slice]
      /\ IsGiven(call.slice, Current(c).id)
      /\ Range(Elements(call.slice)) = ChainOnValues[Match(c)].colls
  <2>1. call = SliceChain(provided)[Match(c)]
    BY <1>1, KnownIs
  <2> QED BY <1>1, <1>2, <2>1, KnownIs
<1> HIDE DEF call
<1>5. /\ DOMAIN merged' = Calls
      /\ \A d \in Calls \ {c} : merged'[d] = merged[d]
      /\ DOMAIN merged'[c] = DOMAIN merged[c] \cup {at[c]}
      /\ merged'[c][at[c]] = call
      /\ \A k \in DOMAIN merged[c] \ {at[c]} : merged'[c][k] = merged[c][k]
  BY <1>1, <1>2, AppendMergedIs
<1>6. coll'[c] = 1 /\ (\A d \in Calls \ {c} : coll'[d] = coll[d]) /\ coll' \in [Calls -> Nat]
  BY <1>1, <1>2 DEF TypeOK
<1>7. ASSUME NEW d \in Calls \ {c} PROVE Unmoved(d)
  BY <1>2, <1>5, <1>6 DEF Unmoved
<1>8. /\ call.slice \in [array : Arrays, len : Nat]
      /\ call.slice.len <= Len(array[call.slice.array])
      /\ \/ call.slice = NoSlice
         \/ \E p \in DOMAIN request.chain :
              /\ call.slice.array = <<Request, p>> /\ request.chain[p].id = Current(c).id
              /\ call.slice.len = Len(GivenColls(p)) /\ call.slice.len <= Capacity(p)
      /\ \A i \in 1 .. call.slice.len : Firm(call.slice, i)
  BY <1>1, <1>4, GivenFits
<1>9. TypeOK'
  <2>1. call \in [id : STRING, slice : [array : Arrays, len : Nat]]
    BY <1>3, <1>4, <1>8
  <2>2. ASSUME NEW d \in Calls
        PROVE  /\ DOMAIN merged'[d] \subseteq DOMAIN response[d]
               /\ \A k \in DOMAIN merged'[d] :
                    merged'[d][k] \in [id : STRING, slice : [array : Arrays, len : Nat]]
    <3>1. /\ DOMAIN merged[d] \subseteq DOMAIN response[d]
          /\ \A k \in DOMAIN merged[d] :
               merged[d][k] \in [id : STRING, slice : [array : Arrays, len : Nat]]
      BY <1>1 DEF TypeOK
    <3> DEFINE T == [id : STRING, slice : [array : Arrays, len : Nat]]
    <3> HIDE DEF T
    <3>2. CASE d = c
      <4>1. \A k \in DOMAIN merged'[c] : merged'[c][k] \in T
        BY <1>5, <2>1, <3>1, <3>2 DEF T
      <4> QED BY <1>3, <1>5, <3>1, <3>2, <4>1 DEF T
    <3>3. CASE d # c
      BY <1>5, <3>1, <3>3
    <3> QED BY <3>2, <3>3
  <2> QED BY <1>1, <1>2, <1>6, <2>2 DEF TypeOK
<1>10. Reading(c)'
  BY <1>1, <1>2, <1>3 DEF Reading, HasRead
<1>11. Current(c)' = Current(c) /\ Known(c)' = Known(c) /\ call' = call
  BY <1>2 DEF Current, Known, call
<1>12. Merged(c)' = Merged(c) \cup {at[c]} /\ at[c] \notin Merged(c)
  <2>1. response[c][at[c]].id \notin LeftOut(FilteredOut)
    BY <1>2 DEF Current
  <2> QED BY <1>2, <1>3, <1>6, <2>1 DEF Merged
<1>13. Progress(c)'
  <2>1. ASSUME NEW k \in DOMAIN merged'[c]
        PROVE  merged'[c][k].id = response'[c][k].id /\ Fits(c, k)'
    <3>1. CASE k = at[c]
      <4>1. merged'[c][k].id = response'[c][k].id /\ merged'[c][k].slice = call.slice
            /\ merged'[c][k].id = Current(c).id
        BY <1>2, <1>4, <1>5, <3>1 DEF Current
      <4>2. /\ merged'[c][k].slice.len <= Len(array'[merged'[c][k].slice.array])
            /\ \/ merged'[c][k].slice = NoSlice
               \/ \E p \in DOMAIN request'.chain :
                    /\ merged'[c][k].slice.array = <<Request, p>>
                    /\ request'.chain[p].id = merged'[c][k].id
                    /\ Len(GivenColls(p)') <= merged'[c][k].slice.len
                    /\ merged'[c][k].slice.len <= Capacity(p)'
                    /\ ~ (Len(GivenColls(p)') < merged'[c][k].slice.len)
        <5>1. call.slice.len \in Nat
          BY <1>8
        <5> QED BY <1>2, <1>8, <4>1, <5>1 DEF GivenColls, Capacity
      <4> QED BY <4>1, <4>2 DEF Fits
    <3>2. CASE k # at[c]
      BY <1>1, <1>2, <1>5, <3>2 DEF Progress, Fits, GivenColls, Capacity
    <3> QED BY <3>1, <3>2
  <2>2. DOMAIN merged'[c] = Merged(c)'
    BY <1>1, <1>5, <1>12 DEF Progress
  <2> QED BY <1>2, <1>3, <1>6, <1>11, <2>1, <2>2 DEF Progress
<1>14. Contents(c)'
  <2>1. ChainOnValues' = ChainOnValues
    BY <1>2, ValuesStay
  <2>2. ASSUME NEW k \in DOMAIN merged[c]
        PROVE  SoFar(c, k)' = SoFar(c, k) /\ Holds(c, k)' /\ k # at[c]
    <3>1. k \in DOMAIN response[c] /\ k < at[c]
      BY <1>1, <1>2, <2>2 DEF Progress, Merged
    <3>2. k \in Nat /\ k # at[c]
      BY <1>1, <1>3, <3>1, ResponseIs
    <3>3. SoFar(c, k)' = SoFar(c, k)
      BY <1>2, <3>1 DEF SoFar
    <3>4. Holds(c, k) /\ Kept(c, k)
      BY <1>1, <1>2, <2>2 DEF Contents, Kept
    <3> QED BY <1>2, <1>5, <2>2, <3>2, <3>3, <3>4, HoldsStays
  <2>3. SoFar(c, at[c])' = Call(Current(c).id, {})
    <3>1. ~ (at[c] < at[c]) /\ \A j \in DOMAIN response[c][at[c]].colls : ~ (j < 1)
      BY <1>3 DEF Current
    <3> QED BY <1>2, <1>6, <3>1 DEF SoFar, Current
  <2>4. /\ MergeCCCall(ChainOnValues, Call(Current(c).id, {})).colls = ChainOnValues[Match(c)].colls
        /\ ~ IsNews(ChainOnValues, Call(Current(c).id, {}))
        /\ GivenFor(Current(c).id) = ChainOnValues[Match(c)].colls
    BY <1>2, <1>4 DEF MergeCCCall, IsNews, Call, Match, GivenFor
  <2>5. ASSUME NEW k, k = at[c] PROVE Holds(c, k)'
    <3> DEFINE sl == call.slice
               given == GivenFor(Current(c).id)
    <3>1. merged'[c][k].slice = sl /\ response'[c][k].id = Current(c).id
      BY <1>2, <1>5, <2>5 DEF Current
    <3>2. {array[sl.array][i] : i \in 1 .. sl.len} = given
      BY <1>4, <2>4 DEF Elements, Range
    <3>3. /\ GivenFor(response[c][k].id)' = given
          /\ \A i : Firm(merged[c][k].slice, i)' = Firm(sl, i)
          /\ Range(Elements(merged[c][k].slice))' = {array[sl.array][i] : i \in 1 .. sl.len}
          /\ SoFar(c, k)' = Call(Current(c).id, {})
      <4>1. GivenFor(response[c][k].id)' = given
        BY <2>1, <3>1 DEF GivenFor
      <4>2. \A i : Firm(merged[c][k].slice, i)' = Firm(sl, i)
        BY <1>2, <3>1 DEF Firm, GivenColls
      <4>3. Range(Elements(merged[c][k].slice))' = {array[sl.array][i] : i \in 1 .. sl.len}
        BY <1>2, <3>1 DEF Elements, Range
      <4>4. SoFar(c, k)' = Call(Current(c).id, {})
        BY <1>2, <2>3, <2>5
      <4> QED BY <4>1, <4>2, <4>3, <4>4
    <3> HIDE DEF sl, given
    <3>4. \A x \in given : \E i \in 1 .. sl.len : Firm(sl, i) /\ array[sl.array][i] = x
      BY <1>8, <3>2 DEF sl
    <3>5. \A i \in 1 .. sl.len : Firm(sl, i) /\ array[sl.array][i] \in given
      BY <1>8, <3>2 DEF sl
    <3> QED BY <1>2, <2>1, <2>4, <3>1, <3>2, <3>3, <3>4, <3>5 DEF Holds, given
  <2>6. \A k \in DOMAIN merged'[c] : Holds(c, k)'
    BY <1>5, <2>2, <2>5
  <2>7. found[c] <=> \E k \in DOMAIN merged[c] : IsNews(ChainOnValues, SoFar(c, k))
    BY <1>1 DEF Contents
  <2>8. \A k \in DOMAIN merged'[c] :
          IsNews(ChainOnValues, SoFar(c, k)') <=>
            k \in DOMAIN merged[c] /\ IsNews(ChainOnValues, SoFar(c, k))
    <3>1. SoFar(c, at[c])' = Call(Current(c).id, {}) /\ at[c] \notin DOMAIN merged[c]
      BY <2>2, <2>3
    <3> QED BY <1>2, <1>5, <2>2, <2>4, <3>1
  <2>9. found'[c] <=> \E k \in DOMAIN merged'[c] : IsNews(ChainOnValues, SoFar(c, k)')
    BY <1>2, <1>5, <2>7, <2>8
  <2> QED BY <2>1, <2>6, <2>9 DEF Contents
<1>15. Settled(c)'
  BY <1>1, <1>2, SettledStays
<1> QED BY <1>1, <1>2, <1>5, <1>7, <1>9, <1>10, <1>13, <1>14, <1>15, StepWithoutAppend


\* The collection that is looked at, for the call of the response that is merged.
LEMMA CollectionIs ==
  ASSUME IInv, NEW c \in Calls, HasCollection(c)
  PROVE  /\ coll[c] > 0 /\ coll[c] <= Len(Current(c).colls)
         /\ Collection(c) \in STRING
         /\ at[c] \in DOMAIN merged[c] /\ Known(c) # {}
         /\ Known(c) = At(ChainOnValues, Current(c).id)
         /\ \A k \in DOMAIN merged[c] \ {at[c]} : k \in DOMAIN response[c] /\ k \in Nat /\ k < at[c]
<1>1. TypeOK /\ Base /\ Reading(c) /\ Progress(c)
  BY DEF IInv
<1>2. /\ at[c] \in DOMAIN response[c] /\ at[c] \in Nat /\ coll[c] \in Nat
      /\ Current(c).colls \in Seq(STRING) /\ Len(Current(c).colls) \in Nat
      /\ DOMAIN Current(c).colls = 1 .. Len(Current(c).colls)
  BY MergingIs DEF HasCollection
<1>3. coll[c] \in 1 .. Len(Current(c).colls)
  BY <1>2 DEF HasCollection
<1>4. Collection(c) \in STRING
  BY <1>2, <1>3, ElementOfSeq DEF Collection
<1>5. coll[c] > 0 /\ coll[c] <= Len(Current(c).colls)
  BY <1>2, <1>3
<1>6. at[c] \in DOMAIN merged[c] /\ Known(c) # {}
  BY <1>1, <1>2, <1>5 DEF Progress, Merged, Current
<1>7. Known(c) = At(ChainOnValues, Current(c).id)
  BY <1>1, KnownIs
<1>8. \A k \in DOMAIN merged[c] \ {at[c]} : k \in DOMAIN response[c] /\ k \in Nat /\ k < at[c]
  BY <1>1, ResponseIs DEF Progress, Merged
<1> QED BY <1>4, <1>5, <1>6, <1>7, <1>8

LEMMA SoFarGrows ==
  ASSUME IInv, NEW c \in Calls, HasCollection(c),
         response' = response, at' = at, coll'[c] = coll[c] + 1
  PROVE  /\ SoFar(c, at[c])' = Call(Current(c).id, SoFar(c, at[c]).colls \cup {Collection(c)})
         /\ \A k \in DOMAIN merged[c] \ {at[c]} : SoFar(c, k)' = SoFar(c, k)
         /\ Merged(c)' = Merged(c)
<1>1. /\ at[c] \in Nat /\ coll[c] \in Nat
      /\ Len(Current(c).colls) \in Nat
      /\ DOMAIN Current(c).colls = 1 .. Len(Current(c).colls)
  BY MergingIs DEF HasCollection
<1>2. /\ coll[c] > 0 /\ coll[c] \in DOMAIN Current(c).colls
      /\ \A k \in DOMAIN merged[c] \ {at[c]} : k \in DOMAIN response[c] /\ k \in Nat /\ k < at[c]
  BY CollectionIs DEF HasCollection
<1> DEFINE colls == Current(c).colls
<1>3. SoFar(c, at[c])' = Call(Current(c).id, {colls[j] : j \in {j \in DOMAIN colls : j < coll[c] + 1}})
  <2> DEFINE was == {colls[j] : j \in {j \in DOMAIN colls : at[c] < at[c] \/ j < coll[c] + 1}}
  <2>1. SoFar(c, at[c])' = Call(Current(c).id, was)
    BY Zenon DEF SoFar, Current
  <2>2. ~ (at[c] < at[c])
    BY <1>1
  <2>3. was = {colls[j] : j \in {j \in DOMAIN colls : j < coll[c] + 1}}
    BY <2>2, Zenon
  <2> QED BY <2>1, <2>3, Zenon
<1>4. SoFar(c, at[c]).colls = {colls[j] : j \in {j \in DOMAIN colls : j < coll[c]}}
  BY <1>1 DEF SoFar, Current, Call
<1>5. {j \in DOMAIN colls : j < coll[c] + 1} = {j \in DOMAIN colls : j < coll[c]} \cup {coll[c]}
  BY <1>1, <1>2
<1>6. Collection(c) = colls[coll[c]]
  BY DEF Collection
<1>7. SoFar(c, at[c])' = Call(Current(c).id, SoFar(c, at[c]).colls \cup {Collection(c)})
  <2> HIDE DEF colls
  <2>1. {colls[j] : j \in {j \in DOMAIN colls : j < coll[c]} \cup {coll[c]}} =
          {colls[j] : j \in {j \in DOMAIN colls : j < coll[c]}} \cup {colls[coll[c]]}
    OBVIOUS
  <2> QED BY <1>3, <1>4, <1>5, <1>6, <2>1
<1>8. ASSUME NEW k \in DOMAIN merged[c] \ {at[c]} PROVE SoFar(c, k)' = SoFar(c, k)
  BY <1>2 DEF SoFar
<1>9. Merged(c)' = Merged(c)
  BY <1>1, <1>2 DEF Merged
<1> QED BY <1>7, <1>8, <1>9

LEMMA ContainedKeeps ==
  ASSUME IInv, NEW c \in Calls, Contained(c)
  PROVE  IInv'
<1>1. /\ TypeOK /\ Reading(c) /\ Progress(c) /\ Contents(c) /\ Settled(c)
      /\ DOMAIN merged = Calls /\ DOMAIN selected = Calls
  BY DEF IInv
<1>2. /\ HasCollection(c) /\ Merging(c) /\ stage[c] = "merging"
      /\ Collection(c) \in Range(Elements(MergedSlice(c)))
      /\ request' = request /\ provided' = provided /\ array' = array /\ stage' = stage
      /\ response' = response /\ at' = at /\ merged' = merged /\ found' = found
      /\ selected' = selected /\ coll' = [coll EXCEPT ![c] = @ + 1]
  BY DEF Contained, HasCollection, Merging
<1>3. coll'[c] = coll[c] + 1 /\ (\A d \in Calls \ {c} : coll'[d] = coll[d]) /\ coll' \in [Calls -> Nat]
  BY <1>1, <1>2 DEF TypeOK
<1>4. ASSUME NEW d \in Calls \ {c} PROVE Unmoved(d)
  BY <1>2, <1>3 DEF Unmoved
<1>5. TypeOK'
  BY <1>1, <1>2, <1>3 DEF TypeOK
<1>6. /\ at[c] \in Nat /\ coll[c] \in Nat /\ HasRead(c) /\ Len(Current(c).colls) \in Nat
      /\ coll[c] > 0 /\ coll[c] <= Len(Current(c).colls)
      /\ at[c] \in DOMAIN merged[c] /\ Known(c) # {} /\ Known(c) = At(ChainOnValues, Current(c).id)
  BY <1>2, MergingIs, CollectionIs
<1>7. Reading(c)'
  BY <1>1, <1>2, <1>6 DEF Reading, HasRead
<1>8. /\ SoFar(c, at[c])' = Call(Current(c).id, SoFar(c, at[c]).colls \cup {Collection(c)})
      /\ \A k \in DOMAIN merged[c] \ {at[c]} : SoFar(c, k)' = SoFar(c, k)
      /\ Merged(c)' = Merged(c)
  BY <1>2, <1>3, SoFarGrows
<1>9. Current(c)' = Current(c) /\ Known(c)' = Known(c)
  BY <1>2 DEF Current, Known
<1>10. Progress(c)'
  <2>1. ASSUME NEW k \in DOMAIN merged[c] PROVE Fits(c, k)'
    BY <1>1, <1>2, <2>1 DEF Progress, Fits, GivenColls, Capacity
  <2>2. coll'[c] <= Len(Current(c).colls) + 1
    BY <1>3, <1>6
  <2> QED BY <1>1, <1>2, <1>6, <1>8, <1>9, <2>1, <2>2 DEF Progress
<1>11. Contents(c)'
  <2>1. ChainOnValues' = ChainOnValues
    BY <1>2, ValuesStay
  <2> DEFINE m == ChainOnValues[Match(c)].colls
             s == SoFar(c, at[c])
             new == Call(Current(c).id, s.colls \cup {Collection(c)})
             sl == merged[c][at[c]].slice
             names == Range(Elements(sl))
             id == response[c][at[c]].id
  <2>2. /\ MergeCCCall(ChainOnValues, s).colls = m \cup s.colls
        /\ IsNews(ChainOnValues, s) <=> ~ (s.colls \subseteq m)
    BY <1>6, MergeSoFar
  <2>3. /\ MergeCCCall(ChainOnValues, new).colls = m \cup s.colls \cup {Collection(c)}
        /\ IsNews(ChainOnValues, new) <=> ~ (s.colls \cup {Collection(c)} \subseteq m)
        /\ GivenFor(id) = m
    BY <1>6 DEF MergeCCCall, IsNews, Call, Match, GivenFor, Current
  <2>4. Holds(c, at[c]) /\ Collection(c) \in names
    BY <1>1, <1>2, <1>6 DEF Contents, MergedSlice
  <2>5. names = {array[sl.array][i] : i \in 1 .. sl.len}
    BY DEF Range, Elements
  <2>6. /\ \A x \in GivenFor(id) : \E i \in 1 .. sl.len : Firm(sl, i) /\ array[sl.array][i] = x
        /\ \A i \in 1 .. sl.len : array[sl.array][i] \in GivenFor(id) \cup AnyNamed(id)
        /\ ~ IsNews(ChainOnValues, s) =>
             \A i \in 1 .. sl.len : Firm(sl, i) /\ array[sl.array][i] \in GivenFor(id)
        /\ Alone(request, c) => names = MergeCCCall(ChainOnValues, s).colls
    BY <2>4 DEF Holds
  <2>7. SoFar(c, at[c])' = new
    BY <1>8 DEF new, s
  <2>8. /\ GivenFor(id)' = GivenFor(id) /\ AnyNamed(id)' = AnyNamed(id)
        /\ sl' = sl /\ names' = names
        /\ \A i : Firm(sl, i)' = Firm(sl, i)
    BY <1>2, <2>1 DEF GivenFor, AnyNamed, Firm, GivenColls, Elements, Range
  <2> HIDE DEF m, s, new, names, sl, id
  <2>9. IsNews(ChainOnValues, new) <=> IsNews(ChainOnValues, s)
    <3>1. ~ IsNews(ChainOnValues, s) => Collection(c) \in m
      BY <2>3, <2>4, <2>5, <2>6
    <3> QED BY <2>2, <2>3, <3>1
  <2>10. Alone(request, c) => names = MergeCCCall(ChainOnValues, new).colls
    BY <2>2, <2>3, <2>4, <2>6
  <2>11. ASSUME NEW k, k = at[c] PROVE Holds(c, k)'
    <3>1. SoFar(c, k)' = new
      BY <1>2, <2>7, <2>11
    <3> QED BY <1>2, <2>1, <2>6, <2>8, <2>9, <2>10, <2>11, <3>1 DEF Holds, sl, names, id
  <2>12. ASSUME NEW k \in DOMAIN merged[c], k # at[c]
         PROVE  Holds(c, k)' /\ SoFar(c, k)' = SoFar(c, k)
    <3>1. Holds(c, k) /\ Kept(c, k) /\ SoFar(c, k)' = SoFar(c, k)
      BY <1>1, <1>2, <1>8, <2>12 DEF Contents, Kept
    <3> QED BY <1>2, <3>1, HoldsStays
  <2>13. found[c] <=> \E k \in DOMAIN merged[c] : IsNews(ChainOnValues, SoFar(c, k))
    BY <1>1 DEF Contents
  <2>14. \A k \in DOMAIN merged[c] :
           IsNews(ChainOnValues, SoFar(c, k)') <=> IsNews(ChainOnValues, SoFar(c, k))
    BY <1>2, <2>7, <2>9, <2>12 DEF s
  <2> QED BY <1>2, <2>1, <2>11, <2>12, <2>13, <2>14 DEF Contents
<1>12. Settled(c)'
  BY <1>1, <1>2, SettledStays
<1> QED BY <1>1, <1>2, <1>4, <1>5, <1>7, <1>10, <1>11, <1>12, StepWithoutAppend


LEMMA EndMergeKeeps ==
  ASSUME IInv, NEW c \in Calls, EndMerge(c)
  PROVE  IInv'
<1>1. /\ TypeOK /\ Reading(c) /\ Progress(c) /\ Contents(c) /\ Settled(c)
      /\ DOMAIN merged = Calls /\ DOMAIN selected = Calls
  BY DEF IInv
<1>2. /\ Merging(c) /\ stage[c] = "merging" /\ coll[c] > Len(Current(c).colls)
      /\ request' = request /\ provided' = provided /\ array' = array /\ stage' = stage
      /\ response' = response /\ merged' = merged /\ found' = found /\ selected' = selected
      /\ at' = [at EXCEPT ![c] = @ + 1] /\ coll' = [coll EXCEPT ![c] = 0]
  BY DEF EndMerge, Merging
<1>3. /\ at[c] \in DOMAIN response[c] /\ at[c] \in Nat /\ coll[c] \in Nat /\ HasRead(c)
      /\ Len(Current(c).colls) \in Nat /\ DOMAIN Current(c).colls = 1 .. Len(Current(c).colls)
  BY <1>2, MergingIs
<1>4. /\ coll[c] > 0 /\ Current(c).id \notin LeftOut(FilteredOut)
      /\ \A j \in DOMAIN Current(c).colls : j < coll[c]
  BY <1>1, <1>2, <1>3 DEF Progress
<1>5. /\ at'[c] = at[c] + 1 /\ coll'[c] = 0
      /\ \A d \in Calls \ {c} : at'[d] = at[d] /\ coll'[d] = coll[d]
      /\ at' \in [Calls -> Nat] /\ coll' \in [Calls -> Nat]
  BY <1>1, <1>2 DEF TypeOK
<1>6. ASSUME NEW d \in Calls \ {c} PROVE Unmoved(d)
  BY <1>2, <1>5 DEF Unmoved
<1>7. DOMAIN response[c] = 1 .. Len(response[c]) /\ Len(response[c]) \in Nat
  BY <1>1, ResponseIs, MaxLengthIsNumber
<1>8. TypeOK'
  <2>1. \A d \in Calls : at[d] \in 1 .. Len(response[d]) + 1
    BY <1>1 DEF TypeOK
  <2>2. \A d \in Calls : at'[d] \in 1 .. Len(response[d]) + 1
    BY <1>3, <1>5, <1>7, <2>1
  <2> QED BY <1>1, <1>2, <1>5, <2>2 DEF TypeOK
<1>9. Reading(c)'
  BY <1>1, <1>2, <1>3 DEF Reading, HasRead
<1>10. Merged(c)' = Merged(c)
  BY <1>2, <1>3, <1>4, <1>5, <1>7 DEF Merged, Current
<1>11. Progress(c)'
  <2>1. ASSUME NEW k \in DOMAIN merged[c] PROVE Fits(c, k)'
    BY <1>1, <1>2, <2>1 DEF Progress, Fits, GivenColls, Capacity
  <2> QED BY <1>1, <1>2, <1>5, <1>10, <2>1 DEF Progress
<1>12. Contents(c)'
  <2>1. ASSUME NEW k \in DOMAIN merged[c]
        PROVE  SoFar(c, k)' = SoFar(c, k) /\ Holds(c, k)'
    <3>1. k \in DOMAIN response[c] /\ (k < at[c] \/ k = at[c]) /\ k \in Nat
      BY <1>1, <1>7, <2>1 DEF Progress, Merged
    <3>2. k < at'[c] /\ \A j \in DOMAIN response[c][k].colls : k < at[c] \/ j < coll[c]
      <4>1. k < at'[c]
        BY <1>3, <1>5, <3>1
      <4>2. k = at[c] => \A j \in DOMAIN response[c][k].colls : j < coll[c]
        BY <1>4 DEF Current
      <4> QED BY <3>1, <4>1, <4>2
    <3> DEFINE colls == response[c][k].colls
    <3>3. {j \in DOMAIN colls : k < at'[c] \/ j < coll'[c]} = {j \in DOMAIN colls : k < at[c] \/ j < coll[c]}
      BY <3>2
    <3>4. SoFar(c, k)' = SoFar(c, k)
      BY <1>2, <3>3, Zenon DEF SoFar
    <3>5. Holds(c, k) /\ Kept(c, k)
      BY <1>1, <1>2, <2>1 DEF Contents, Kept
    <3> QED BY <1>2, <3>4, <3>5, HoldsStays
  <2>2. ChainOnValues' = ChainOnValues
    BY <1>2, ValuesStay
  <2> QED BY <1>1, <1>2, <2>1, <2>2 DEF Contents
<1>13. Settled(c)'
  BY <1>1, <1>2, SettledStays
<1> QED BY <1>1, <1>2, <1>6, <1>8, <1>9, <1>11, <1>12, <1>13, StepWithoutAppend


\* No other slice is in an array of a call's own.
LEMMA OwnArray ==
  ASSUME IInv, NEW c \in Calls, NEW j, NEW d \in Calls, NEW k \in DOMAIN merged[d], d # c \/ k # j
  PROVE  /\ merged[d][k].slice.array # <<c, j>>
         /\ merged[d][k].slice.array \in Arrays
<1>1. Fits(d, k) /\ merged[d][k] \in [id : STRING, slice : [array : Arrays, len : Nat]]
  BY DEF IInv, Progress, TypeOK
<1>2. c # Request
  BY RequestIsNoCall
<1>3. \/ merged[d][k].slice.array = <<d, k>>
      \/ \E p : merged[d][k].slice.array = <<Request, p>>
  BY <1>1 DEF Fits, NoSlice, Slice
<1> QED BY <1>1, <1>2, <1>3

\* What a call of the response that is not left out names.
LEMMA CurrentIsNamed ==
  ASSUME IInv, NEW c \in Calls, Passes(c)
  PROVE  /\ c \in DOMAIN request.answers
         /\ Range(Current(c).colls) \subseteq Named(request, c, Current(c).id)
         /\ Range(Current(c).colls) \subseteq AnyNamed(Current(c).id)
<1>1. /\ c \in DOMAIN request.answers
      /\ response[c] = CallsOf(request.answers[c].wrote)
      /\ at[c] \in DOMAIN response[c]
  BY MergingIs DEF Passes, IInv, Reading, HasRead
<1>2. Current(c) \in Range(CallsOf(request.answers[c].wrote))
  BY <1>1 DEF Current, Range
<1>3. Range(Current(c).colls) \subseteq Named(request, c, Current(c).id)
  BY <1>2 DEF Named, Passes
<1> QED BY <1>1, <1>3 DEF AnyNamed

LEMMA TakeCallKeeps ==
  ASSUME IInv, NEW c \in Calls, TakeCall(c)
  PROVE  IInv'
<1> DEFINE fresh == <<c, at[c]>>
           call == [id |-> Current(c).id, slice |-> Slice(fresh, Len(Current(c).colls))]
<1>1. /\ TypeOK /\ Base /\ Reading(c) /\ Progress(c) /\ Contents(c) /\ Settled(c)
      /\ DOMAIN merged = Calls /\ DOMAIN selected = Calls
  BY DEF IInv
<1>2. /\ Merging(c) /\ stage[c] = "merging" /\ Current(c).id \notin LeftOut(FilteredOut)
      /\ Known(c) = {} /\ AppendMerged(c, call)
      /\ array' = [array EXCEPT ![fresh] = Current(c).colls]
      /\ request' = request /\ provided' = provided /\ stage' = stage
      /\ response' = response /\ coll' = coll /\ selected' = selected
      /\ at' = [at EXCEPT ![c] = @ + 1] /\ found' = [found EXCEPT ![c] = TRUE]
  BY DEF TakeCall, Passes, Merging
<1>3. /\ at[c] \in DOMAIN response[c] /\ at[c] \in Nat /\ coll[c] \in Nat /\ HasRead(c)
      /\ Current(c).id \in STRING /\ Current(c).colls \in Seq(STRING) /\ Len(Current(c).colls) \in Nat
      /\ DOMAIN Current(c).colls = 1 .. Len(Current(c).colls) /\ fresh \in Arrays
  BY <1>2, MergingIs
<1>4. coll[c] = 0
  BY <1>1, <1>2, <1>3 DEF Progress
<1>5. /\ at'[c] = at[c] + 1 /\ found'[c] = TRUE
      /\ \A d \in Calls \ {c} : at'[d] = at[d] /\ found'[d] = found[d]
      /\ at' \in [Calls -> Nat] /\ found' \in [Calls -> BOOLEAN]
  BY <1>1, <1>2 DEF TypeOK
<1>6. /\ array'[fresh] = Current(c).colls
      /\ \A a \in Arrays \ {fresh} : array'[a] = array[a]
      /\ array' \in [Arrays -> Seq(STRING)]
  BY <1>1, <1>2, <1>3 DEF TypeOK
<1>7. /\ DOMAIN merged' = Calls
      /\ \A d \in Calls \ {c} : merged'[d] = merged[d]
      /\ DOMAIN merged'[c] = DOMAIN merged[c] \cup {at[c]}
      /\ merged'[c][at[c]] = call
      /\ \A k \in DOMAIN merged[c] \ {at[c]} : merged'[c][k] = merged[c][k]
  BY <1>1, <1>2, AppendMergedIs
<1>8. /\ call.id = Current(c).id /\ call.slice.array = fresh /\ call.slice.len = Len(Current(c).colls)
      /\ call \in [id : STRING, slice : [array : Arrays, len : Nat]]
  BY <1>3 DEF Slice
<1> HIDE DEF fresh, call
<1>9. \A k \in DOMAIN merged[c] : k \in DOMAIN response[c] /\ k \in Nat /\ k < at[c] /\ k # at[c]
  BY <1>1, <1>3, <1>4, ResponseIs DEF Progress, Merged
<1>10. ASSUME NEW d \in Calls, NEW k \in DOMAIN merged[d]
       PROVE  array'[merged[d][k].slice.array] = array[merged[d][k].slice.array] /\ Kept(d, k)
  <2>1. d # c \/ k # at[c]
    BY <1>9
  <2>2. merged[d][k].slice.array # fresh /\ merged[d][k].slice.array \in Arrays
    BY <2>1, OwnArray DEF fresh
  <2> QED BY <1>6, <2>2 DEF Kept
<1>11. ASSUME NEW d \in Calls \ {c} PROVE Unmoved(d) /\ KeepsSlices(d)
  <2>1. \A k \in DOMAIN merged[d] : Fits(d, k)
    BY DEF IInv, Progress
  <2>2. KeepsSlices(d)
    BY <1>10, <2>1 DEF Fits, KeepsSlices
  <2> QED BY <1>2, <1>5, <1>7, <2>2 DEF Unmoved
<1>12. \A k \in DOMAIN request.chain : array'[<<Request, k>>] = array[<<Request, k>>]
  BY <1>1, <1>6, RequestIs, RequestIsNoCall DEF fresh
<1>13. TypeOK'
  <2>1. \A d \in Calls : at'[d] \in 1 .. Len(response[d]) + 1
    <3>1. \A d \in Calls : at[d] \in 1 .. Len(response[d]) + 1
      BY <1>1 DEF TypeOK
    <3>2. DOMAIN response[c] = 1 .. Len(response[c]) /\ Len(response[c]) \in Nat
      BY <1>1, ResponseIs, MaxLengthIsNumber
    <3> QED BY <1>3, <1>5, <3>1, <3>2
  <2>2. ASSUME NEW d \in Calls
        PROVE  /\ DOMAIN merged'[d] \subseteq DOMAIN response[d]
               /\ \A k \in DOMAIN merged'[d] :
                    merged'[d][k] \in [id : STRING, slice : [array : Arrays, len : Nat]]
    <3>1. /\ DOMAIN merged[d] \subseteq DOMAIN response[d]
          /\ \A k \in DOMAIN merged[d] :
               merged[d][k] \in [id : STRING, slice : [array : Arrays, len : Nat]]
      BY <1>1 DEF TypeOK
    <3> DEFINE T == [id : STRING, slice : [array : Arrays, len : Nat]]
    <3>2. call \in T
      BY <1>8
    <3> HIDE DEF T
    <3>3. CASE d = c
      <4>1. \A k \in DOMAIN merged'[c] : merged'[c][k] \in T
        BY <1>7, <3>1, <3>2, <3>3 DEF T
      <4> QED BY <1>3, <1>7, <3>1, <3>3, <4>1 DEF T
    <3>4. CASE d # c
      BY <1>7, <3>1, <3>4
    <3> QED BY <3>3, <3>4
  <2> QED BY <1>1, <1>2, <1>5, <1>6, <1>12, <2>1, <2>2 DEF TypeOK
<1>14. Base'
  BY <1>1, <1>2, <1>12 DEF Base, GivenColls, Capacity
<1>15. Reading(c)'
  BY <1>1, <1>2, <1>3 DEF Reading, HasRead
<1>16. Merged(c)' = Merged(c) \cup {at[c]}
  <2>1. response[c][at[c]].id \notin LeftOut(FilteredOut)
    BY <1>2 DEF Current
  <2>2. DOMAIN response[c] = 1 .. Len(response[c]) /\ Len(response[c]) \in Nat
    BY <1>1, ResponseIs, MaxLengthIsNumber
  <2> QED BY <1>2, <1>3, <1>4, <1>5, <2>1, <2>2 DEF Merged
<1>17. Progress(c)'
  <2>1. ASSUME NEW k \in DOMAIN merged'[c]
        PROVE  merged'[c][k].id = response'[c][k].id /\ Fits(c, k)'
    <3>1. CASE k = at[c]
      <4>1. merged'[c][k].id = response'[c][k].id
        BY <1>2, <1>7, <1>8, <3>1 DEF Current
      <4>2. merged'[c][k].slice.array = <<c, k>> /\ merged'[c][k].slice.len <= Len(array'[<<c, k>>])
        BY <1>3, <1>6, <1>7, <1>8, <3>1 DEF fresh
      <4> QED BY <4>1, <4>2 DEF Fits
    <3>2. CASE k # at[c]
      <4>1. k \in DOMAIN merged[c] /\ merged'[c][k] = merged[c][k]
        BY <1>7, <2>1, <3>2
      <4>2. merged[c][k].id = response[c][k].id /\ Fits(c, k)
            /\ array'[merged[c][k].slice.array] = array[merged[c][k].slice.array]
        BY <1>1, <1>10, <4>1 DEF Progress
      <4> QED BY <1>2, <4>1, <4>2 DEF Fits, GivenColls, Capacity
    <3> QED BY <3>1, <3>2
  <2>2. DOMAIN merged'[c] = Merged(c)'
    BY <1>1, <1>7, <1>16 DEF Progress
  <2> QED BY <1>2, <1>4, <2>1, <2>2 DEF Progress
<1>18. Contents(c)'
  <2>1. ChainOnValues' = ChainOnValues
    BY <1>2, ValuesStay
  <2> DEFINE new == Call(Current(c).id, Range(Current(c).colls))
  <2>2. ASSUME NEW k, k = at[c] PROVE SoFar(c, k)' = new
    <3> DEFINE colls == Current(c).colls
    <3>1. at[c] < at'[c]
      BY <1>3, <1>5
    <3>2. {j \in DOMAIN colls : k < at'[c] \/ j < coll'[c]} = DOMAIN colls
      BY <2>2, <3>1
    <3>3. SoFar(c, k)' = Call(Current(c).id, {colls[j] : j \in DOMAIN colls})
      BY <1>2, <2>2, <3>2, Zenon DEF SoFar, Current
    <3> QED BY <3>3 DEF Range
  <2>3. /\ MergeCCCall(ChainOnValues, new).colls = Range(Current(c).colls)
        /\ IsNews(ChainOnValues, new)
        /\ GivenFor(Current(c).id) = {}
    <3>1. At(ChainOnValues, Current(c).id) = {}
      BY <1>1, <1>2, KnownIs
    <3> QED BY <3>1 DEF MergeCCCall, IsNews, Call, GivenFor
  <2>4. ASSUME NEW k, k = at[c] PROVE Holds(c, k)'
    <3> DEFINE len == Len(Current(c).colls)
               elements == [i \in 1 .. len |-> Current(c).colls[i]]
    <3>1. /\ merged'[c][k].slice.array = fresh /\ merged'[c][k].slice.len = len
          /\ array'[fresh] = Current(c).colls
          /\ response'[c][k].id = Current(c).id
      BY <1>2, <1>6, <1>7, <1>8, <2>4 DEF Current
    <3>2. Elements(merged[c][k].slice)' = elements
      BY <3>1 DEF Elements
    <3>3. elements = Current(c).colls
      BY <1>3
    <3>4. /\ GivenFor(response[c][k].id)' = {}
          /\ AnyNamed(response[c][k].id)' = AnyNamed(Current(c).id)
      <4>1. GivenFor(response[c][k].id)' = GivenFor(Current(c).id)
        BY <2>1, <3>1 DEF GivenFor
      <4>2. AnyNamed(response[c][k].id)' = AnyNamed(Current(c).id)
        BY <1>2, <3>1 DEF AnyNamed
      <4> QED BY <2>3, <4>1, <4>2
    <3>5. \A i \in 1 .. len : Current(c).colls[i] \in AnyNamed(Current(c).id)
      <4>1. Passes(c)
        BY <1>2 DEF Passes
      <4>2. Range(Current(c).colls) \subseteq AnyNamed(Current(c).id)
        BY <4>1, CurrentIsNamed
      <4>3. \A i \in 1 .. len : Current(c).colls[i] \in Range(Current(c).colls)
        BY <1>3 DEF Range
      <4> QED BY <4>2, <4>3
    <3>6. SoFar(c, k)' = new
      BY <2>2, <2>4
    <3> HIDE DEF elements, len, new
    <3> QED BY <2>1, <2>3, <3>1, <3>2, <3>3, <3>4, <3>5, <3>6 DEF Holds
  <2>5. ASSUME NEW k \in DOMAIN merged[c] PROVE Holds(c, k)'
    <3>1. k < at[c] /\ k < at'[c] /\ k # at[c]
      BY <1>3, <1>5, <1>9
    <3>2. SoFar(c, k)' = SoFar(c, k)
      BY <1>2, <3>1 DEF SoFar
    <3>3. Holds(c, k) /\ Kept(c, k)
      BY <1>1, <1>10 DEF Contents
    <3>4. merged'[c][k] = merged[c][k]
      BY <1>7, <3>1
    <3> QED BY <1>2, <3>2, <3>3, <3>4, HoldsStays
  <2>6. \E k \in DOMAIN merged'[c] : IsNews(ChainOnValues, SoFar(c, k)')
    BY <1>7, <2>2, <2>3
  <2> QED BY <1>5, <1>7, <2>1, <2>4, <2>5, <2>6 DEF Contents
<1>19. Settled(c)'
  BY <1>1, <1>2, SettledStays
<1> QED BY <1>1, <1>2, <1>7, <1>11, <1>13, <1>14, <1>15, <1>17, <1>18, <1>19, StepOfOne


\* Where an append writes: an array of the call's own, or what is left of the room
\* in that of the provided call with the same chaincode.
Target(c) == IF HasRoom(MergedSlice(c)) THEN MergedSlice(c).array ELSE <<c, at[c]>>

LEMMA TargetIs ==
  ASSUME IInv, NEW c \in Calls, HasCollection(c)
  PROVE  /\ Target(c) \in Arrays
         /\ merged[c][at[c]] \in [id : STRING, slice : [array : Arrays, len : Nat]]
         /\ merged[c][at[c]].id = Current(c).id
         /\ Elements(MergedSlice(c)) \in Seq(STRING)
         /\ Len(Elements(MergedSlice(c))) = MergedSlice(c).len
         /\ \/ Target(c) = <<c, at[c]>>
            \/ \E p \in DOMAIN request.chain :
                 /\ Target(c) = <<Request, p>> /\ MergedSlice(c).array = <<Request, p>>
                 /\ request.chain[p].id = Current(c).id
                 /\ Len(GivenColls(p)) <= MergedSlice(c).len /\ MergedSlice(c).len < Capacity(p)
<1> DEFINE sl == MergedSlice(c)
<1>1. TypeOK /\ Progress(c)
  BY DEF IInv
<1>2. at[c] \in DOMAIN merged[c] /\ <<c, at[c]>> \in Arrays
  BY CollectionIs, MergingIs DEF HasCollection
<1>3. /\ merged[c][at[c]] \in [id : STRING, slice : [array : Arrays, len : Nat]]
      /\ merged[c][at[c]].id = Current(c).id
      /\ Fits(c, at[c])
  BY <1>1, <1>2 DEF TypeOK, Progress, Current
<1>4. sl.array \in Arrays /\ sl.len \in Nat /\ sl.len <= Len(array[sl.array])
  BY <1>3 DEF MergedSlice, Fits
<1>5. array[sl.array] \in Seq(STRING) /\ Len(array[sl.array]) \in Nat
  BY <1>1, <1>4, LenProperties DEF TypeOK
<1>6. Elements(sl) \in Seq(STRING) /\ Len(Elements(sl)) = sl.len
  <2>1. sl.len \in 0 .. Len(array[sl.array]) /\ sl.len \in Nat
    BY <1>4, <1>5
  <2> DEFINE arr == array[sl.array]
             n == sl.len
  <2>2. Elements(sl) = [i \in 1 .. n |-> arr[i]]
    BY DEF Elements
  <2>3. arr \in Seq(STRING) /\ n \in 0 .. Len(arr)
    BY <1>5, <2>1
  <2> HIDE DEF sl, arr, n
  <2>4. [i \in 1 .. n |-> arr[i]] \in Seq(STRING) /\ Len([i \in 1 .. n |-> arr[i]]) = n
    BY <2>3, PrefixIsSeq
  <2> QED BY <2>2, <2>4 DEF n
<1>7. \/ Target(c) = <<c, at[c]>>
      \/ \E p \in DOMAIN request.chain :
           /\ Target(c) = <<Request, p>> /\ sl.array = <<Request, p>>
           /\ request.chain[p].id = Current(c).id
           /\ Len(GivenColls(p)) <= sl.len /\ sl.len < Capacity(p)
  <2>1. CASE ~ HasRoom(sl)
    BY <2>1 DEF Target
  <2>2. CASE HasRoom(sl)
    <3>1. Target(c) = sl.array
      BY <2>2 DEF Target
    <3>2. \/ sl.array = <<c, at[c]>>
          \/ sl = NoSlice
          \/ \E p \in DOMAIN request.chain :
               /\ sl.array = <<Request, p>> /\ request.chain[p].id = Current(c).id
               /\ Len(GivenColls(p)) <= sl.len /\ sl.len <= Capacity(p)
      BY <1>3 DEF Fits, MergedSlice
    <3>3. sl # NoSlice
      <4>1. ASSUME sl = NoSlice PROVE FALSE
        <5>1. sl.array = <<Request, 0>>
          BY <4>1 DEF NoSlice, Slice
        <5> HIDE DEF sl
        <5> QED BY <2>2, <5>1 DEF HasRoom
      <4> QED BY <4>1
    <3>4. ASSUME NEW p \in DOMAIN request.chain, sl.array = <<Request, p>>
          PROVE  sl.len < Capacity(p)
      <4>1. sl.array[1] = Request /\ sl.array[2] = p
        BY <3>4
      <4> HIDE DEF sl
      <4> QED BY <2>2, <4>1 DEF HasRoom, Capacity, GivenColls
    <3> HIDE DEF sl
    <3> QED BY <3>1, <3>2, <3>3, <3>4
  <2> QED BY <2>1, <2>2
<1>8. Target(c) \in Arrays
  BY <1>2, <1>4 DEF Target
<1> QED BY <1>3, <1>6, <1>7, <1>8

LEMMA KeepMergedIs ==
  ASSUME DOMAIN merged = Calls, NEW c \in Calls, at[c] \in DOMAIN merged[c],
         merged[c][at[c]] \in [id : STRING, slice : [array : Arrays, len : Nat]],
         NEW slice \in [array : Arrays, len : Nat], KeepMerged(c, slice)
  PROVE  /\ DOMAIN merged' = Calls
         /\ \A d \in Calls \ {c} : merged'[d] = merged[d]
         /\ DOMAIN merged'[c] = DOMAIN merged[c]
         /\ merged'[c][at[c]] = [id |-> merged[c][at[c]].id, slice |-> slice]
         /\ \A k \in DOMAIN merged[c] \ {at[c]} : merged'[c][k] = merged[c][k]
         /\ provided' = provided
<1> DEFINE call == [merged[c][at[c]] EXCEPT !.slice = slice]
           chain == [merged[c] EXCEPT ![at[c]] = call]
<1>1. merged' = [merged EXCEPT ![c] = chain] /\ provided' = provided
  BY DEF KeepMerged
<1>2. call = [id |-> merged[c][at[c]].id, slice |-> slice]
  OBVIOUS
<1>3. /\ DOMAIN chain = DOMAIN merged[c] /\ chain[at[c]] = call
      /\ \A k \in DOMAIN merged[c] \ {at[c]} : chain[k] = merged[c][k]
  OBVIOUS
<1> HIDE DEF chain, call
<1>4. /\ DOMAIN merged' = Calls /\ merged'[c] = chain
      /\ \A d \in Calls \ {c} : merged'[d] = merged[d]
  BY <1>1
<1> QED BY <1>1, <1>2, <1>3, <1>4


\* After an append, the merged slice has one more element, no array is shorter, and
\* only the target is another.
LEMMA AppendIs ==
  ASSUME IInv, NEW c \in Calls, AppendCollection(c)
  PROVE  LET new == Slice(Target(c), MergedSlice(c).len + 1)
         IN /\ KeepMerged(c, new) /\ new \in [array : Arrays, len : Nat]
            /\ new.array = Target(c) /\ new.len = MergedSlice(c).len + 1
            /\ array' \in [Arrays -> Seq(STRING)]
            /\ \A a \in Arrays \ {Target(c)} : array'[a] = array[a]
            /\ \A a \in Arrays : Len(array[a]) <= Len(array'[a])
            /\ \A i \in 1 .. MergedSlice(c).len : array'[Target(c)][i] = array[MergedSlice(c).array][i]
            /\ array'[Target(c)][MergedSlice(c).len + 1] = Collection(c)
            /\ \A i \in MergedSlice(c).len + 2 .. Len(array[Target(c)]) :
                 array'[Target(c)][i] = array[Target(c)][i]
            /\ new.len <= Len(array'[Target(c)])
            /\ Len(array'[Target(c)]) =
                 IF new.len <= Len(array[Target(c)]) THEN Len(array[Target(c)]) ELSE new.len
<1> DEFINE sl == MergedSlice(c)
           first == Append(Elements(sl), Collection(c))
           new == Slice(Target(c), sl.len + 1)
<1>1. /\ HasCollection(c)
      /\ array' = [array EXCEPT ![Target(c)] = Overwritten(array[Target(c)], first)]
      /\ KeepMerged(c, new)
  BY DEF AppendCollection, Target
<1>2. /\ Target(c) \in Arrays
      /\ merged[c][at[c]] \in [id : STRING, slice : [array : Arrays, len : Nat]]
      /\ Elements(sl) \in Seq(STRING) /\ Len(Elements(sl)) = sl.len
  BY <1>1, TargetIs
<1>3. sl.len \in Nat /\ Collection(c) \in STRING
  BY <1>1, <1>2, CollectionIs DEF MergedSlice
<1>4. /\ array \in [Arrays -> Seq(STRING)]
      /\ \A a \in Arrays : Len(array[a]) \in Nat
  BY LenProperties DEF IInv, TypeOK
<1>5. /\ first \in Seq(STRING) /\ Len(first) = sl.len + 1
      /\ \A i \in 1 .. sl.len : first[i] = Elements(sl)[i]
      /\ first[sl.len + 1] = Collection(c)
  <2> DEFINE E == Elements(sl)
  <2> HIDE DEF E
  <2>1. /\ Append(E, Collection(c)) \in Seq(STRING)
        /\ Len(Append(E, Collection(c))) = Len(E) + 1
        /\ \A i \in 1 .. Len(E) : Append(E, Collection(c))[i] = E[i]
        /\ Append(E, Collection(c))[Len(E) + 1] = Collection(c)
    BY <1>2, <1>3, AppendProperties DEF E
  <2> QED BY <1>2, <2>1 DEF E
<1>6. \A i \in 1 .. sl.len : Elements(sl)[i] = array[sl.array][i]
  BY DEF Elements
<1>7. new.array = Target(c) /\ new.len = sl.len + 1 /\ new \in [array : Arrays, len : Nat]
  BY <1>2, <1>3 DEF Slice
<1> HIDE DEF first, sl, new
<1>8. LET arr == Overwritten(array[Target(c)], first)
      IN /\ arr \in Seq(STRING)
         /\ Len(arr) = IF Len(first) <= Len(array[Target(c)]) THEN Len(array[Target(c)]) ELSE Len(first)
         /\ \A i \in 1 .. Len(first) : arr[i] = first[i]
         /\ \A i \in Len(first) + 1 .. Len(array[Target(c)]) : arr[i] = array[Target(c)][i]
  BY <1>2, <1>4, <1>5, OverwrittenIs
<1>9. /\ array' \in [Arrays -> Seq(STRING)]
      /\ array'[Target(c)] = Overwritten(array[Target(c)], first)
      /\ \A a \in Arrays \ {Target(c)} : array'[a] = array[a]
  BY <1>1, <1>2, <1>4, <1>8
<1>10. \A i \in 1 .. sl.len : array'[Target(c)][i] = array[sl.array][i]
  BY <1>3, <1>5, <1>6, <1>8, <1>9
<1>11. array'[Target(c)][sl.len + 1] = Collection(c)
  BY <1>3, <1>5, <1>8, <1>9
<1>12. /\ Len(array'[Target(c)]) =
            IF new.len <= Len(array[Target(c)]) THEN Len(array[Target(c)]) ELSE new.len
       /\ new.len <= Len(array'[Target(c)])
  BY <1>2, <1>3, <1>4, <1>5, <1>7, <1>8, <1>9
<1>13. \A a \in Arrays : Len(array[a]) <= Len(array'[a])
  <2>1. Len(array[Target(c)]) \in Nat /\ new.len \in Nat
    BY <1>2, <1>3, <1>4, <1>7
  <2>2. Len(array[Target(c)]) <= Len(array'[Target(c)])
    BY <1>12, <2>1
  <2>3. \A a \in Arrays \ {Target(c)} : Len(array[a]) <= Len(array'[a])
    BY <1>4, <1>9
  <2> QED BY <2>2, <2>3
<1>14. \A i \in sl.len + 2 .. Len(array[Target(c)]) : array'[Target(c)][i] = array[Target(c)][i]
  <2>1. Len(first) + 1 = sl.len + 2
    BY <1>3, <1>5
  <2> QED BY <1>8, <1>9, <2>1
<1> QED BY <1>1, <1>7, <1>9, <1>10, <1>11, <1>12, <1>13, <1>14 DEF sl, new


\* An append to what came with the request adds a collection of the response to it.
LEMMA AppendAdds ==
  ASSUME IInv, NEW c \in Calls, AppendCollection(c), NEW p \in DOMAIN request.chain,
         MergedSlice(c).array = <<Request, p>>, request.chain[p].id = Current(c).id,
         Len(GivenColls(p)) <= MergedSlice(c).len
  PROVE  /\ c \in DOMAIN request.answers /\ Adds(request, c, p)
         /\ Collection(c) \in AnyNamed(Current(c).id)
<1> DEFINE sl == MergedSlice(c)
<1>1. /\ TypeOK /\ Base /\ HasCollection(c) /\ Collection(c) \notin Range(Elements(sl))
  BY DEF IInv, AppendCollection
<1>2. Passes(c)
  BY <1>1, CollectionIs DEF Passes, HasCollection, IInv, Progress
<1>3. Collection(c) \in Range(Current(c).colls)
  BY <1>1 DEF HasCollection, Collection, Range
<1>4. /\ c \in DOMAIN request.answers
      /\ Collection(c) \in Named(request, c, Current(c).id)
      /\ Collection(c) \in AnyNamed(Current(c).id)
  BY <1>2, <1>3, CurrentIsNamed
<1>5. Collection(c) \notin Range(GivenColls(p))
  <2>1. Range(Elements(sl)) = {array[sl.array][i] : i \in 1 .. sl.len}
    BY DEF Range, Elements
  <2>2. \A i \in 1 .. Len(GivenColls(p)) : array[<<Request, p>>][i] = GivenColls(p)[i]
    BY <1>1 DEF Base
  <2>3. /\ GivenColls(p) \in Seq(STRING) /\ Len(GivenColls(p)) \in Nat
        /\ DOMAIN GivenColls(p) = 1 .. Len(GivenColls(p))
    <3>1. GivenColls(p) \in Seq(STRING)
      BY <1>1, RequestIs
    <3> QED BY <3>1, LenProperties
  <2>4. sl.len \in Nat
    BY <1>1, TargetIs DEF MergedSlice
  <2>5. \A i \in 1 .. Len(GivenColls(p)) : GivenColls(p)[i] \in Range(Elements(sl))
    <3> HIDE DEF sl
    <3>1. \A i \in 1 .. Len(GivenColls(p)) : i \in 1 .. sl.len
      BY <2>3, <2>4 DEF sl
    <3> QED BY <2>1, <2>2, <3>1 DEF sl
  <2> QED BY <1>1, <2>3, <2>5 DEF Range
<1> QED BY <1>4, <1>5 DEF Adds, GivenColls

\* Other slices of the call are not appended to: it merges each chaincode once.  Those
\* of other calls stay, except where the request gave nothing and both add to an array.
LEMMA OtherSlices ==
  ASSUME IInv, NEW c \in Calls, AppendCollection(c),
         NEW d \in Calls, NEW k \in DOMAIN merged[d], d # c \/ k # at[c]
  PROVE  LET sl == merged[d][k].slice
         IN /\ sl.len <= Len(array'[sl.array])
            /\ d = c => array'[sl.array] = array[sl.array]
            /\ Kept(d, k)
<1> DEFINE sl == merged[d][k].slice
<1>1. TypeOK /\ Base /\ Reading(c) /\ Reading(d) /\ Progress(c) /\ Progress(d) /\ HasCollection(c)
  BY DEF IInv, AppendCollection
<1>2. Fits(d, k) /\ merged[d][k].id = response[d][k].id /\ sl \in [array : Arrays, len : Nat]
      /\ k \in DOMAIN response[d]
  BY <1>1 DEF Progress, TypeOK
<1>3. /\ array \in [Arrays -> Seq(STRING)] /\ array' \in [Arrays -> Seq(STRING)]
      /\ \A a \in Arrays \ {Target(c)} : array'[a] = array[a]
      /\ \A a \in Arrays : Len(array[a]) <= Len(array'[a])
  BY <1>1, AppendIs DEF TypeOK
<1>4. sl.len <= Len(array'[sl.array])
  <2>1. sl.len <= Len(array[sl.array]) /\ sl.array \in Arrays /\ sl.len \in Nat
    BY <1>2 DEF Fits
  <2>2. Len(array[sl.array]) \in Nat /\ Len(array'[sl.array]) \in Nat
    BY <1>3, <2>1, LenProperties
  <2>3. Len(array[sl.array]) <= Len(array'[sl.array])
    BY <1>3, <2>1
  <2> HIDE DEF sl
  <2> QED BY <2>1, <2>2, <2>3
<1>5. CASE sl.array # Target(c)
  <2>1. sl.array \in Arrays
    BY <1>2
  <2> QED BY <1>3, <1>4, <1>5, <2>1 DEF Kept
<1>6. CASE sl.array = Target(c)
  <2> DEFINE old == MergedSlice(c)
  <2>1. Target(c) # <<c, at[c]>>
    BY <1>6, OwnArray
  <2>2. PICK p \in DOMAIN request.chain :
          /\ Target(c) = <<Request, p>> /\ old.array = <<Request, p>>
          /\ request.chain[p].id = Current(c).id
          /\ Len(GivenColls(p)) <= old.len /\ old.len < Capacity(p)
    BY <1>1, <2>1, TargetIs
  <2>3. /\ Len(GivenColls(p)) \in Nat /\ request.chain[p].room \in Nat /\ p # 0
        /\ old.len \in Nat /\ sl.len \in Nat
    <3>1. Len(GivenColls(p)) \in Nat /\ request.chain[p].room \in Nat /\ p # 0
      <4>1. Len(GivenColls(p)) \in Nat /\ request.chain[p].room \in Nat
        BY <1>1, RequestIs
      <4>2. DOMAIN request.chain = 1 .. Len(request.chain) /\ Len(request.chain) \in Nat
        BY <1>1, RequestIs, MaxLengthIsNumber
      <4>3. p # 0
        BY <4>2
      <4> QED BY <4>1, <4>3
    <3>2. old.len \in Nat
      <4>1. merged[c][at[c]] \in [id : STRING, slice : [array : Arrays, len : Nat]]
        BY <1>1, TargetIs
      <4> QED BY <4>1 DEF MergedSlice
    <3>3. sl.len \in Nat
      BY <1>2
    <3> QED BY <3>1, <3>2, <3>3
  <2> HIDE DEF old
  <2>4. /\ request.chain[p].id = merged[d][k].id
        /\ Len(GivenColls(p)) < sl.len => Adds(request, d, p)
    <3>1. sl # NoSlice
      <4>1. NoSlice.array = <<Request, 0>>
        BY DEF NoSlice, Slice
      <4> HIDE DEF sl
      <4> QED BY <1>6, <2>2, <2>3, <4>1
    <3>2. sl.array # <<d, k>>
      BY <1>6, <2>2, RequestIsNoCall
    <3> QED BY <1>2, <1>6, <2>2, <3>1, <3>2 DEF Fits
  <2>5. d # c
    <3>1. at[c] \in DOMAIN response[c] /\ Current(c).id = response[c][at[c]].id
      BY <1>1, MergingIs DEF HasCollection, Current
    <3>2. \A i, j \in DOMAIN response[c] : response[c][i].id = response[c][j].id => i = j
      BY <1>1, ResponseIs
    <3>3. ASSUME d = c PROVE FALSE
      <4>1. response[c][k].id = response[c][at[c]].id /\ k \in DOMAIN response[c]
        BY <1>2, <2>2, <2>4, <3>1, <3>3
      <4> QED BY <3>1, <3>2, <3>3, <4>1
    <3> QED BY <3>3
  <2>6. c \in DOMAIN request.answers /\ Adds(request, c, p) /\ Collection(c) \in AnyNamed(Current(c).id)
    BY <2>2, AppendAdds DEF old
  <2>7. request.chain[p].room # 0
    BY <2>2, <2>3 DEF Capacity
  <2>8. Len(GivenColls(p)) < sl.len => ~ Alone(request, d)
    BY <2>4, <2>5, <2>6, <2>7 DEF Alone
  <2>9. /\ \A i \in 1 .. old.len : array'[Target(c)][i] = array[old.array][i]
        /\ array'[Target(c)][old.len + 1] = Collection(c)
        /\ \A i \in old.len + 2 .. Len(array[Target(c)]) : array'[Target(c)][i] = array[Target(c)][i]
    BY AppendIs DEF old
  <2>10. Len(array[Target(c)]) \in Nat /\ sl.len <= Len(array[Target(c)])
    BY <1>2, <1>3, <1>6, LenProperties DEF Fits
  <2>11. ASSUME NEW i \in 1 .. sl.len
         PROVE  \/ array'[sl.array][i] = array[sl.array][i]
                \/ /\ ~ Firm(sl, i) /\ ~ Alone(request, d)
                   /\ array'[sl.array][i] \in AnyNamed(response[d][k].id)
    <3>1. CASE i # old.len + 1
      <4>1. i \in 1 .. old.len \/ i \in old.len + 2 .. Len(array[Target(c)])
        BY <2>3, <2>10, <2>11, <3>1
      <4> HIDE DEF sl
      <4> QED BY <1>6, <2>2, <2>9, <4>1
    <3>2. CASE i = old.len + 1
      <4>1. Len(GivenColls(p)) < i /\ Len(GivenColls(p)) < sl.len
        BY <2>2, <2>3, <2>11, <3>2
      <4>2. array'[sl.array][i] \in AnyNamed(response[d][k].id)
        BY <1>2, <1>6, <2>2, <2>4, <2>6, <2>9, <3>2
      <4>3. ~ Firm(sl, i)
        <5>1. sl.array = <<Request, p>> /\ ~ (i <= Len(GivenColls(p)))
          BY <1>6, <2>2, <2>3, <4>1
        <5> HIDE DEF sl
        <5> QED BY <5>1 DEF Firm
      <4> QED BY <2>8, <4>1, <4>2, <4>3
    <3> QED BY <3>1, <3>2
  <2> QED BY <1>4, <2>5, <2>11 DEF Kept
<1> QED BY <1>5, <1>6


LEMMA AppendCollectionKeeps ==
  ASSUME IInv, NEW c \in Calls, AppendCollection(c)
  PROVE  IInv'
<1> DEFINE old == MergedSlice(c)
           target == Target(c)
           new == Slice(target, old.len + 1)
<1>1. /\ TypeOK /\ Base /\ Reading(c) /\ Progress(c) /\ Contents(c) /\ Settled(c)
      /\ DOMAIN merged = Calls /\ DOMAIN selected = Calls
  BY DEF IInv
<1>2. /\ HasCollection(c) /\ Merging(c) /\ stage[c] = "merging"
      /\ Collection(c) \notin Range(Elements(old))
      /\ request' = request /\ stage' = stage /\ response' = response /\ at' = at
      /\ selected' = selected /\ coll' = [coll EXCEPT ![c] = @ + 1]
      /\ found' = [found EXCEPT ![c] = TRUE]
  BY DEF AppendCollection, HasCollection, Merging
<1>3. /\ at[c] \in Nat /\ coll[c] \in Nat /\ HasRead(c) /\ Len(Current(c).colls) \in Nat
      /\ at[c] \in DOMAIN response[c]
      /\ coll[c] > 0 /\ coll[c] <= Len(Current(c).colls)
      /\ at[c] \in DOMAIN merged[c] /\ Known(c) # {} /\ Known(c) = At(ChainOnValues, Current(c).id)
  BY <1>2, MergingIs, CollectionIs
<1>4. /\ coll'[c] = coll[c] + 1 /\ found'[c] = TRUE
      /\ \A d \in Calls \ {c} : coll'[d] = coll[d] /\ found'[d] = found[d]
      /\ coll' \in [Calls -> Nat] /\ found' \in [Calls -> BOOLEAN]
  BY <1>1, <1>2 DEF TypeOK
<1>5. /\ target \in Arrays
      /\ merged[c][at[c]] \in [id : STRING, slice : [array : Arrays, len : Nat]]
      /\ merged[c][at[c]].id = Current(c).id
      /\ Elements(old) \in Seq(STRING) /\ Len(Elements(old)) = old.len
      /\ \/ target = <<c, at[c]>>
         \/ \E p \in DOMAIN request.chain :
              /\ target = <<Request, p>> /\ old.array = <<Request, p>>
              /\ request.chain[p].id = Current(c).id
              /\ Len(GivenColls(p)) <= old.len /\ old.len < Capacity(p)
  BY <1>2, TargetIs
<1>6. /\ KeepMerged(c, new) /\ new \in [array : Arrays, len : Nat]
      /\ new.array = target /\ new.len = old.len + 1
      /\ array' \in [Arrays -> Seq(STRING)]
      /\ \A a \in Arrays \ {target} : array'[a] = array[a]
      /\ \A i \in 1 .. old.len : array'[target][i] = array[old.array][i]
      /\ array'[target][old.len + 1] = Collection(c)
      /\ new.len <= Len(array'[target])
      /\ Len(array'[target]) = IF new.len <= Len(array[target]) THEN Len(array[target]) ELSE new.len
  BY AppendIs
<1>7. old.len \in Nat
  BY <1>5 DEF MergedSlice
<1> HIDE DEF old, target, new
<1>8. /\ DOMAIN merged' = Calls
      /\ \A d \in Calls \ {c} : merged'[d] = merged[d]
      /\ DOMAIN merged'[c] = DOMAIN merged[c]
      /\ merged'[c][at[c]] = [id |-> merged[c][at[c]].id, slice |-> new]
      /\ \A k \in DOMAIN merged[c] \ {at[c]} : merged'[c][k] = merged[c][k]
      /\ provided' = provided
  BY <1>1, <1>3, <1>5, <1>6, KeepMergedIs
<1>9. ASSUME NEW d \in Calls, NEW k \in DOMAIN merged[d], d # c \/ k # at[c]
      PROVE  /\ merged[d][k].slice.len <= Len(array'[merged[d][k].slice.array])
             /\ Kept(d, k)
  BY <1>9, OtherSlices
<1>10. ASSUME NEW d \in Calls \ {c} PROVE Unmoved(d) /\ KeepsSlices(d)
  <2>1. KeepsSlices(d)
    BY <1>9 DEF KeepsSlices
  <2> QED BY <1>2, <1>4, <1>8, <2>1 DEF Unmoved
<1>11. ASSUME NEW k \in DOMAIN request.chain
       PROVE  /\ Len(GivenColls(k)) <= Len(array'[<<Request, k>>])
              /\ Len(array'[<<Request, k>>]) <= Capacity(k)
              /\ \A i \in 1 .. Len(GivenColls(k)) : array'[<<Request, k>>][i] = GivenColls(k)[i]
  <2>1. /\ Len(GivenColls(k)) <= Len(array[<<Request, k>>])
        /\ Len(array[<<Request, k>>]) <= Capacity(k)
        /\ \A i \in 1 .. Len(GivenColls(k)) : array[<<Request, k>>][i] = GivenColls(k)[i]
    BY <1>1 DEF Base
  <2>2. <<Request, k>> \in Arrays /\ Len(GivenColls(k)) \in Nat /\ request.chain[k].room \in Nat
    BY <1>1, RequestIs
  <2>3. CASE target # <<Request, k>>
    BY <1>6, <2>1, <2>2, <2>3
  <2>4. CASE target = <<Request, k>>
    <3>1. old.array = <<Request, k>> /\ Len(GivenColls(k)) <= old.len /\ old.len < Capacity(k)
      BY <1>5, <2>4, RequestIsNoCall
    <3>2. Len(array[<<Request, k>>]) \in Nat /\ Capacity(k) \in Nat
      BY <1>1, <2>2, LenProperties DEF TypeOK, Capacity
    <3>3. \A i \in 1 .. Len(GivenColls(k)) : i \in 1 .. old.len
      BY <1>7, <2>2, <3>1
    <3>4. \A i \in 1 .. Len(GivenColls(k)) : array'[<<Request, k>>][i] = GivenColls(k)[i]
      BY <1>6, <2>1, <2>4, <3>1, <3>3
    <3>5. /\ Len(GivenColls(k)) <= Len(array'[<<Request, k>>])
          /\ Len(array'[<<Request, k>>]) <= Capacity(k)
      BY <1>6, <1>7, <2>1, <2>2, <2>4, <3>1, <3>2
    <3> QED BY <3>4, <3>5
  <2> QED BY <2>3, <2>4
<1>12. Base'
  BY <1>1, <1>2, <1>8, <1>11 DEF Base, GivenColls, Capacity
<1>13. TypeOK'
  <2>1. ASSUME NEW d \in Calls
        PROVE  /\ DOMAIN merged'[d] \subseteq DOMAIN response[d]
               /\ \A k \in DOMAIN merged'[d] :
                    merged'[d][k] \in [id : STRING, slice : [array : Arrays, len : Nat]]
    <3>1. /\ DOMAIN merged[d] \subseteq DOMAIN response[d]
          /\ \A k \in DOMAIN merged[d] :
               merged[d][k] \in [id : STRING, slice : [array : Arrays, len : Nat]]
      BY <1>1 DEF TypeOK
    <3> DEFINE T == [id : STRING, slice : [array : Arrays, len : Nat]]
    <3>2. merged'[c][at[c]] \in T
      BY <1>5, <1>6, <1>8
    <3> HIDE DEF T
    <3>3. CASE d = c
      <4>1. \A k \in DOMAIN merged'[c] : merged'[c][k] \in T
        BY <1>8, <3>1, <3>2, <3>3 DEF T
      <4> QED BY <1>8, <3>1, <3>3, <4>1 DEF T
    <3>4. CASE d # c
      BY <1>8, <3>1, <3>4
    <3> QED BY <3>3, <3>4
  <2> QED BY <1>1, <1>2, <1>4, <1>6, <2>1 DEF TypeOK
<1>14. Reading(c)'
  BY <1>1, <1>2, <1>3 DEF Reading, HasRead
<1>15. /\ SoFar(c, at[c])' = Call(Current(c).id, SoFar(c, at[c]).colls \cup {Collection(c)})
       /\ \A k \in DOMAIN merged[c] \ {at[c]} : SoFar(c, k)' = SoFar(c, k)
       /\ Merged(c)' = Merged(c)
  BY <1>2, <1>4, SoFarGrows
<1>16. Progress(c)'
  <2>1. ASSUME NEW k \in DOMAIN merged[c]
        PROVE  merged'[c][k].id = response'[c][k].id /\ Fits(c, k)'
    <3>1. CASE k = at[c]
      <4>1. merged'[c][k].id = Current(c).id /\ merged'[c][k].slice = new
        BY <1>5, <1>8, <3>1
      <4>2. merged'[c][k].id = response'[c][k].id
        BY <1>2, <3>1, <4>1 DEF Current
      <4>3. new.len <= Len(array'[new.array])
        BY <1>6
      <4>4. \/ new.array = <<c, k>>
            \/ \E p \in DOMAIN request.chain :
                 /\ new.array = <<Request, p>> /\ request.chain[p].id = Current(c).id
                 /\ Len(GivenColls(p)) <= new.len /\ new.len <= Capacity(p)
                 /\ Adds(request, c, p)
        <5>1. ASSUME NEW p \in DOMAIN request.chain,
                     old.array = <<Request, p>>, request.chain[p].id = Current(c).id,
                     Len(GivenColls(p)) <= old.len, old.len < Capacity(p)
              PROVE  /\ Len(GivenColls(p)) <= new.len /\ new.len <= Capacity(p)
                     /\ Adds(request, c, p)
          <6>0. Len(GivenColls(p)) \in Nat /\ request.chain[p].room \in Nat
            BY <1>1, RequestIs
          <6>1. Len(GivenColls(p)) \in Nat /\ Capacity(p) \in Nat
            BY <6>0 DEF Capacity
          <6>2. new.len = old.len + 1
            BY <1>6
          <6>3. Adds(request, c, p)
            BY <5>1, AppendAdds DEF old
          <6> QED BY <1>7, <5>1, <6>1, <6>2, <6>3
        <5> QED BY <1>5, <1>6, <3>1, <5>1
      <4>5. Fits(c, k)'
        BY <1>2, <4>1, <4>3, <4>4 DEF Fits, GivenColls, Capacity
      <4> QED BY <4>2, <4>5
    <3>2. CASE k # at[c]
      <4>1. merged[c][k].id = response[c][k].id /\ Fits(c, k) /\ merged'[c][k] = merged[c][k]
        BY <1>1, <1>8, <3>2 DEF Progress
      <4>2. merged[c][k].slice.len <= Len(array'[merged[c][k].slice.array])
        BY <1>9, <3>2
      <4> QED BY <1>2, <4>1, <4>2 DEF Fits, GivenColls, Capacity
    <3> QED BY <3>1, <3>2
  <2>2. Current(c)' = Current(c) /\ Known(c)' = Known(c)
    BY <1>2, <1>8 DEF Current, Known
  <2>3. coll'[c] <= Len(Current(c).colls) + 1
    BY <1>3, <1>4
  <2> QED BY <1>1, <1>2, <1>3, <1>8, <1>15, <2>1, <2>2, <2>3 DEF Progress
<1>17. Contents(c)'
  <2>1. ChainOnValues' = ChainOnValues
    BY <1>2, ValuesStay
  <2> DEFINE m == ChainOnValues[Match(c)].colls
             s == SoFar(c, at[c])
             more == Call(Current(c).id, s.colls \cup {Collection(c)})
             id == Current(c).id
             longer == [i \in 1 .. old.len + 1 |-> array'[target][i]]
  <2>2. MergeCCCall(ChainOnValues, s).colls = m \cup s.colls
    BY <1>3, MergeSoFar
  <2>3. /\ MergeCCCall(ChainOnValues, more).colls = m \cup s.colls \cup {Collection(c)}
        /\ IsNews(ChainOnValues, more) <=> ~ (s.colls \cup {Collection(c)} \subseteq m)
        /\ GivenFor(id) = m
    BY <1>3 DEF MergeCCCall, IsNews, Call, Match, GivenFor
  <2>4. /\ \A x \in m : \E i \in 1 .. old.len : Firm(old, i) /\ array[old.array][i] = x
        /\ \A i \in 1 .. old.len : array[old.array][i] \in m \cup AnyNamed(id)
        /\ Alone(request, c) => Range(Elements(old)) = MergeCCCall(ChainOnValues, s).colls
    <3>1. Holds(c, at[c]) /\ old = merged[c][at[c]].slice /\ id = response[c][at[c]].id
      BY <1>1, <1>3 DEF Contents, MergedSlice, old, Current
    <3> QED BY <2>3, <3>1 DEF Holds
  <2>5. Range(longer) = Range(Elements(old)) \cup {Collection(c)}
    <3>1. Elements(old) = [i \in 1 .. old.len |-> array[old.array][i]]
      BY DEF Elements
    <3>2. /\ \A i \in 1 .. old.len : i \in 1 .. old.len + 1 /\ array'[target][i] = array[old.array][i]
          /\ 1 .. old.len + 1 = (1 .. old.len) \cup {old.len + 1}
          /\ array'[target][old.len + 1] = Collection(c)
      BY <1>6, <1>7
    <3>3. Range(longer) = {array'[target][i] : i \in (1 .. old.len) \cup {old.len + 1}}
      BY <3>2 DEF Range
    <3>4. Range(Elements(old)) = {array[old.array][i] : i \in 1 .. old.len}
      BY <3>1 DEF Range
    <3> QED BY <3>2, <3>3, <3>4
  <2>6. IsNews(ChainOnValues, more)
    <3>1. m \subseteq Range(Elements(old))
      BY <2>4 DEF Range, Elements
    <3> HIDE DEF m, s, more
    <3> QED BY <1>2, <2>3, <3>1
  <2>7. Collection(c) \in AnyNamed(id)
    <3>1. Passes(c)
      BY <1>1, <1>2, <1>3 DEF Passes, Progress
    <3>2. Collection(c) \in Range(Current(c).colls)
      BY <1>2 DEF HasCollection, Collection, Range
    <3> QED BY <3>1, <3>2, CurrentIsNamed
  <2>8. \A i \in 1 .. old.len : Firm(old, i) => Firm(new, i)
    <3>1. target = <<c, at[c]>> \/ target = old.array
      BY <1>5
    <3>2. \A p : <<Request, p>> # <<c, at[c]>>
      BY RequestIsNoCall
    <3> QED BY <1>6, <3>1, <3>2 DEF Firm
  <2>9. SoFar(c, at[c])' = more
    BY <1>15 DEF more, s
  <2>10. ASSUME NEW k, k = at[c] PROVE Holds(c, k)'
    <3>1. merged'[c][k].slice = new /\ response'[c][k].id = id /\ SoFar(c, k)' = more
      BY <1>2, <1>8, <2>9, <2>10 DEF Current
    <3>2. /\ GivenFor(response[c][k].id)' = m /\ AnyNamed(response[c][k].id)' = AnyNamed(id)
          /\ \A i : Firm(merged[c][k].slice, i)' = Firm(new, i)
          /\ Elements(merged[c][k].slice)' = longer
      <4>1. GivenFor(response[c][k].id)' = GivenFor(id)
        BY <2>1, <3>1 DEF GivenFor
      <4>2. AnyNamed(response[c][k].id)' = AnyNamed(id)
        BY <1>2, <3>1 DEF AnyNamed
      <4>3. \A i : Firm(merged[c][k].slice, i)' = Firm(new, i)
        BY <1>2, <3>1 DEF Firm, GivenColls
      <4>4. Elements(merged[c][k].slice)' = longer
        BY <1>6, <3>1 DEF Elements
      <4> QED BY <2>3, <4>1, <4>2, <4>3, <4>4
    <3> HIDE DEF m, s, more, id
    <3>3. \A x \in m : \E i \in 1 .. new.len : Firm(new, i) /\ array'[new.array][i] = x
      <4> TAKE x \in m
      <4>1. PICK i \in 1 .. old.len : Firm(old, i) /\ array[old.array][i] = x
        BY <2>4
      <4>2. i \in 1 .. new.len /\ Firm(new, i) /\ array'[new.array][i] = x
        BY <1>6, <1>7, <2>8, <4>1
      <4> QED BY <4>2
    <3>4. \A i \in 1 .. new.len : array'[new.array][i] \in m \cup AnyNamed(id)
      <4> TAKE i \in 1 .. new.len
      <4>1. i \in 1 .. old.len \/ i = old.len + 1
        BY <1>6, <1>7
      <4> QED BY <1>6, <2>4, <2>7, <4>1
    <3>5. Alone(request, c) => Range(longer) = MergeCCCall(ChainOnValues, more).colls
      BY <2>2, <2>3, <2>4, <2>5
    <3> HIDE DEF longer
    <3> QED BY <1>2, <2>1, <2>6, <3>1, <3>2, <3>3, <3>4, <3>5 DEF Holds
  <2>11. ASSUME NEW k \in DOMAIN merged[c], k # at[c] PROVE Holds(c, k)'
    <3>1. SoFar(c, k)' = SoFar(c, k) /\ merged'[c][k] = merged[c][k]
      BY <1>8, <1>15, <2>11
    <3>2. Holds(c, k) /\ Kept(c, k)
      BY <1>1, <1>9, <2>11 DEF Contents
    <3> QED BY <1>2, <3>1, <3>2, HoldsStays
  <2>12. \E k \in DOMAIN merged'[c] : IsNews(ChainOnValues, SoFar(c, k)')
    BY <1>2, <1>3, <1>8, <2>6, <2>9
  <2> QED BY <1>4, <1>8, <2>1, <2>10, <2>11, <2>12 DEF Contents
<1>18. Settled(c)'
  BY <1>1, <1>2, SettledStays
<1> QED BY <1>1, <1>2, <1>8, <1>10, <1>12, <1>13, <1>14, <1>16, <1>17, <1>18, StepOfOne


\* newInvocationChain on slices is that on what they hold.
LEMMA SliceChainOnValues ==
  ASSUME NEW slices, NEW values, NEW n \in Nat,
         DOMAIN slices = DOMAIN values, DOMAIN values \subseteq 1 .. n,
         \A k \in DOMAIN values :
           /\ slices[k].id = values[k].id
           /\ Range(Elements(slices[k].slice)) = values[k].colls
           /\ values[k] = Call(values[k].id, values[k].colls)
  PROVE  LET chain == SliceChain(slices)
         IN [k \in DOMAIN chain |-> Call(chain[k].id, Range(Elements(chain[k].slice)))] =
              NewInvocationChain(CC, values)
<1> DEFINE chain == SliceChain(slices)
           onValues == [k \in DOMAIN chain |-> Call(chain[k].id, Range(Elements(chain[k].slice)))]
           new == NewInvocationChain(CC, values)
<1>1. At(slices, CC) = At(values, CC)
  BY DEF At
<1>2. LastAt(slices, CC) = LastAt(values, CC)
  BY <1>1, Zenon DEF LastAt
<1>3. At(values, CC) # {} => LastAt(values, CC) \in DOMAIN values
  <2>1. DOMAIN values \subseteq 0 .. n
    OBVIOUS
  <2>2. At(values, CC) # {} => LastAt(values, CC) \in At(values, CC)
    BY <2>1, LastAtIsAt, Zenon
  <2> QED BY <2>2 DEF At
<1>4. DOMAIN chain = {0} \cup (DOMAIN values \ At(values, CC)) /\ DOMAIN new = DOMAIN chain
  BY <1>1 DEF SliceChain, NewInvocationChain
<1>5. ASSUME NEW k \in DOMAIN chain
      PROVE  Call(chain[k].id, Range(Elements(chain[k].slice))) = new[k]
  <2>1. CASE k # 0
    <3>1. chain[k] = slices[k] /\ new[k] = values[k] /\ k \in DOMAIN values
      BY <1>1, <1>4, <2>1 DEF SliceChain, NewInvocationChain
    <3> HIDE DEF chain, new
    <3> QED BY <3>1
  <2>2. CASE k = 0 /\ At(values, CC) = {}
    <3>1. chain[0] = [id |-> CC, slice |-> NoSlice] /\ new[0] = Call(CC, {})
      BY <1>1, <1>4, <2>2 DEF SliceChain, NewInvocationChain
    <3> HIDE DEF chain, new
    <3>2. chain[0].id = CC /\ Range(Elements(chain[0].slice)) = {}
      BY <3>1, NilElements
    <3> QED BY <2>2, <3>1, <3>2
  <2>3. CASE k = 0 /\ At(values, CC) # {}
    <3> DEFINE l == LastAt(values, CC)
    <3>1. chain[0] = [id |-> CC, slice |-> slices[l].slice] /\ new[0] = Call(CC, values[l].colls)
      BY <1>1, <1>2, <1>4, <2>3 DEF SliceChain, NewInvocationChain
    <3>2. Range(Elements(slices[l].slice)) = values[l].colls
      BY <1>3, <2>3
    <3> HIDE DEF chain, new, l
    <3>3. chain[0].id = CC /\ chain[0].slice = slices[l].slice
      BY <3>1
    <3> QED BY <2>3, <3>1, <3>2, <3>3
  <2> QED BY <2>1, <2>2, <2>3
<1>6. new = [k \in DOMAIN new |-> new[k]]
  BY DEF NewInvocationChain
<1> HIDE DEF chain, new
<1>7. onValues = new
  BY <1>4, <1>5, <1>6
<1> QED BY <1>7 DEF chain, new

LEMMA BoundedChain ==
  ASSUME NEW a, NEW b, NEW n \in Nat, DOMAIN a = DOMAIN b, DOMAIN b \subseteq 1 .. n,
         \A k \in DOMAIN b :
           /\ a[k].id = b[k].id
           /\ b[k].colls \cap GivenFor(b[k].id) \subseteq a[k].colls
           /\ a[k].colls \subseteq b[k].colls \cup AnyNamed(b[k].id)
  PROVE  Bounded(NewInvocationChain(CC, a), NewInvocationChain(CC, b))
<1> DEFINE A == NewInvocationChain(CC, a)
           B == NewInvocationChain(CC, b)
<1>1. At(a, CC) = At(b, CC)
  BY DEF At
<1>2. LastAt(a, CC) = LastAt(b, CC)
  BY <1>1, Zenon DEF LastAt
<1>3. At(b, CC) # {} => LastAt(b, CC) \in DOMAIN b /\ b[LastAt(b, CC)].id = CC
  <2>1. DOMAIN b \subseteq 0 .. n
    OBVIOUS
  <2>2. At(b, CC) # {} => LastAt(b, CC) \in At(b, CC)
    BY <2>1, LastAtIsAt, Zenon
  <2> QED BY <2>2 DEF At
<1>4. DOMAIN A = {0} \cup (DOMAIN b \ At(b, CC)) /\ DOMAIN B = DOMAIN A
  BY <1>1 DEF NewInvocationChain
<1>5. ASSUME NEW k \in DOMAIN A
      PROVE  /\ A[k].id = B[k].id
             /\ B[k].colls \cap GivenFor(A[k].id) \subseteq A[k].colls
             /\ A[k].colls \subseteq B[k].colls \cup AnyNamed(A[k].id)
  <2>1. CASE k # 0
    <3>1. A[k] = a[k] /\ B[k] = b[k] /\ k \in DOMAIN b
      BY <1>1, <1>4, <2>1 DEF NewInvocationChain
    <3> HIDE DEF A, B
    <3> QED BY <3>1
  <2>2. CASE k = 0 /\ At(b, CC) = {}
    <3>1. A[0] = Call(CC, {}) /\ B[0] = Call(CC, {})
      BY <1>1, <1>4, <2>2 DEF NewInvocationChain
    <3> HIDE DEF A, B
    <3> QED BY <2>2, <3>1 DEF Call
  <2>3. CASE k = 0 /\ At(b, CC) # {}
    <3> DEFINE l == LastAt(b, CC)
    <3>1. A[0] = Call(CC, a[l].colls) /\ B[0] = Call(CC, b[l].colls)
      BY <1>1, <1>2, <1>4, <2>3 DEF NewInvocationChain
    <3>2. l \in DOMAIN b /\ b[l].id = CC
      BY <1>3, <2>3
    <3> HIDE DEF A, B, l
    <3>3. A[0].id = CC /\ B[0].id = CC /\ A[0].colls = a[l].colls /\ B[0].colls = b[l].colls
      BY <3>1 DEF Call
    <3> QED BY <2>3, <3>2, <3>3
  <2> QED BY <2>1, <2>2, <2>3
<1> HIDE DEF A, B
<1>6. Bounded(A, B)
  BY <1>4, <1>5 DEF Bounded
<1> QED BY <1>6 DEF A, B

LEMMA SelectKeeps ==
  ASSUME IInv, NEW c \in Calls, Select(c)
  PROVE  IInv'
<1> DEFINE chain == SliceChain(merged[c])
           values == [k \in DOMAIN chain |-> Call(chain[k].id, Range(Elements(chain[k].slice)))]
           answer == AnswerChain(c)
           mv == MergeInvocationChains(ChainOnValues, answer, FilteredOut)
<1>1. /\ TypeOK /\ Reading(c) /\ Progress(c) /\ Contents(c) /\ Settled(c)
      /\ DOMAIN merged = Calls /\ DOMAIN selected = Calls
  BY DEF IInv
<1>2. /\ stage[c] = "merging" /\ at[c] > Len(response[c])
      /\ stage' = [stage EXCEPT ![c] = IF found[c] THEN "selected" ELSE "nothing"]
      /\ selected' = [selected EXCEPT ![c] = IF found[c] THEN values ELSE selected[c]]
      /\ request' = request /\ provided' = provided /\ array' = array /\ response' = response
      /\ at' = at /\ coll' = coll /\ merged' = merged /\ found' = found
  BY DEF Select
<1> HIDE DEF values
<1>3. /\ HasRead(c) /\ c \in DOMAIN request.answers /\ request.answers[c].sound
      /\ response[c] = CallsOf(request.answers[c].wrote)
  BY <1>1, <1>2 DEF Reading, HasRead
<1>4. /\ stage'[c] = (IF found[c] THEN "selected" ELSE "nothing")
      /\ found[c] => selected'[c] = values
      /\ \A d \in Calls \ {c} : stage'[d] = stage[d] /\ selected'[d] = selected[d]
      /\ stage' \in [Calls -> {"absent", "answered", "warned", "merging", "nothing", "selected"}]
      /\ DOMAIN selected' = Calls
      /\ found[c] \in BOOLEAN
  BY <1>1, <1>2 DEF TypeOK
<1>5. ASSUME NEW d \in Calls \ {c} PROVE Unmoved(d)
  BY <1>2, <1>4 DEF Unmoved
<1>6. TypeOK'
  BY <1>1, <1>2, <1>4 DEF TypeOK
<1>7. Reading(c)'
  BY <1>2, <1>3, <1>4 DEF Reading, HasRead
<1>8. Progress(c)'
  <2>1. Current(c)' = Current(c) /\ Known(c)' = Known(c) /\ Merged(c)' = Merged(c)
    BY <1>2 DEF Current, Known, Merged
  <2>2. ASSUME NEW k \in DOMAIN merged[c] PROVE Fits(c, k)'
    BY <1>1, <1>2, <2>2 DEF Progress, Fits, GivenColls, Capacity
  <2> QED BY <1>1, <1>2, <2>1, <2>2 DEF Progress
<1>9. Contents(c)'
  <2>1. ASSUME NEW k \in DOMAIN merged[c]
        PROVE  SoFar(c, k)' = SoFar(c, k) /\ Holds(c, k)'
    <3>1. SoFar(c, k)' = SoFar(c, k)
      BY <1>2 DEF SoFar
    <3>2. Holds(c, k) /\ Kept(c, k)
      BY <1>1, <1>2, <2>1 DEF Contents, Kept
    <3> QED BY <1>2, <3>1, <3>2, HoldsStays
  <2>2. ChainOnValues' = ChainOnValues
    BY <1>2, ValuesStay
  <2> QED BY <1>1, <1>2, <2>1, <2>2 DEF Contents
<1>10. /\ DOMAIN response[c] = 1 .. Len(response[c]) /\ Len(response[c]) \in Nat
       /\ \A k \in DOMAIN response[c] : k < at[c] /\ k # at[c]
  <2>1. /\ DOMAIN response[c] = 1 .. Len(response[c]) /\ Len(response[c]) \in Nat
        /\ at[c] \in Nat
    BY <1>1, ResponseIs, MaxLengthIsNumber DEF TypeOK
  <2> QED BY <1>2, <2>1
<1>11. /\ DOMAIN answer = DOMAIN response[c]
       /\ \A k \in DOMAIN response[c] :
            answer[k] = Call(response[c][k].id, Range(response[c][k].colls))
  BY <1>3 DEF AnswerChain
<1>12. ASSUME NEW k \in DOMAIN response[c] PROVE SoFar(c, k) = answer[k]
  <2> DEFINE colls == response[c][k].colls
  <2>1. {j \in DOMAIN colls : k < at[c] \/ j < coll[c]} = DOMAIN colls
    BY <1>10
  <2>2. SoFar(c, k) = Call(response[c][k].id, {colls[j] : j \in DOMAIN colls})
    BY <2>1, Zenon DEF SoFar
  <2> QED BY <1>11, <2>2 DEF Range
<1>13. DOMAIN merged[c] = Passing(answer, FilteredOut) /\ DOMAIN merged[c] \subseteq DOMAIN response[c]
  <2>1. ASSUME NEW k \in DOMAIN response[c] PROVE answer[k].id = response[c][k].id
    <3>1. answer[k] = Call(response[c][k].id, Range(response[c][k].colls))
      BY <1>11
    <3> HIDE DEF answer
    <3> QED BY <3>1 DEF Call
  <2>2. DOMAIN merged[c] = Merged(c)
    BY <1>1 DEF Progress
  <2> HIDE DEF answer
  <2> QED BY <1>10, <1>11, <2>1, <2>2 DEF Merged, Passing
<1> HIDE DEF answer
<1>14. DOMAIN mv = DOMAIN merged[c] /\ \A k \in DOMAIN mv : mv[k] = MergeCCCall(ChainOnValues, answer[k])
  BY <1>13 DEF MergeInvocationChains
<1> HIDE DEF mv
<1> DEFINE names(k) == Range(Elements(merged[c][k].slice))
           lists == [k \in DOMAIN mv |-> Call(mv[k].id, names(k))]
<1>15. ASSUME NEW k \in DOMAIN mv
       PROVE  /\ merged[c][k].id = mv[k].id
              /\ mv[k] = Call(mv[k].id, mv[k].colls)
              /\ GivenFor(mv[k].id) \subseteq names(k)
              /\ names(k) \subseteq mv[k].colls \cup AnyNamed(mv[k].id)
              /\ Alone(request, c) => names(k) = mv[k].colls
  <2>1. k \in DOMAIN merged[c] /\ k \in DOMAIN response[c]
    BY <1>13, <1>14
  <2>2. merged[c][k].id = response[c][k].id
    BY <1>1, <2>1 DEF Progress
  <2>3. Holds(c, k) /\ SoFar(c, k) = answer[k]
    BY <1>1, <1>12, <2>1 DEF Contents
  <2>4. answer[k] = Call(response[c][k].id, Range(response[c][k].colls))
    BY <1>11, <2>1
  <2>5. /\ mv[k].id = response[c][k].id
        /\ mv[k] = Call(mv[k].id, mv[k].colls)
        /\ GivenFor(mv[k].id) \subseteq mv[k].colls
    <3> DEFINE id == response[c][k].id
               colls == Range(response[c][k].colls)
    <3>1. mv[k] = MergeCCCall(ChainOnValues, answer[k]) /\ answer[k].id = id /\ answer[k].colls = colls
      BY <1>14, <2>4 DEF Call
    <3> HIDE DEF id, colls
    <3>2. CASE At(ChainOnValues, id) = {}
      <4>1. mv[k] = Call(id, colls) /\ GivenFor(id) = {}
        BY <2>4, <3>1, <3>2 DEF MergeCCCall, GivenFor, id, colls
      <4> QED BY <4>1 DEF Call, id
    <3>3. CASE At(ChainOnValues, id) # {}
      <4>1. /\ mv[k] = Call(id, ChainOnValues[FirstAt(ChainOnValues, id)].colls \cup colls)
            /\ GivenFor(id) = ChainOnValues[FirstAt(ChainOnValues, id)].colls
        BY <3>1, <3>3 DEF MergeCCCall, GivenFor
      <4> QED BY <4>1 DEF Call, id
    <3> QED BY <3>2, <3>3
  <2>6. names(k) = {array[merged[c][k].slice.array][i] : i \in 1 .. merged[c][k].slice.len}
    BY DEF Range, Elements
  <2>7. /\ GivenFor(mv[k].id) \subseteq names(k)
        /\ names(k) \subseteq GivenFor(mv[k].id) \cup AnyNamed(mv[k].id)
        /\ Alone(request, c) => names(k) = MergeCCCall(ChainOnValues, SoFar(c, k)).colls
    BY <2>3, <2>5, <2>6 DEF Holds
  <2> HIDE DEF names
  <2> QED BY <1>14, <2>2, <2>3, <2>5, <2>7
<1> HIDE DEF names
<1>16. /\ DOMAIN lists = DOMAIN mv
       /\ \A k \in DOMAIN mv : /\ lists[k].id = mv[k].id /\ lists[k].colls = names(k)
                               /\ lists[k] = Call(lists[k].id, lists[k].colls)
  BY DEF Call
<1> HIDE DEF lists
<1>17. DOMAIN mv \subseteq 1 .. Len(response[c])
  BY <1>10, <1>13, <1>14
<1>18. values = NewInvocationChain(CC, lists)
  <2>1. /\ DOMAIN merged[c] = DOMAIN lists /\ DOMAIN lists \subseteq 1 .. Len(response[c])
        /\ \A k \in DOMAIN lists :
             /\ merged[c][k].id = lists[k].id
             /\ Range(Elements(merged[c][k].slice)) = lists[k].colls
             /\ lists[k] = Call(lists[k].id, lists[k].colls)
    BY <1>14, <1>15, <1>16, <1>17 DEF names
  <2> QED BY <1>10, <2>1, SliceChainOnValues DEF values
<1>19. MergedOnValues(c) = NewInvocationChain(CC, mv)
  BY DEF MergedOnValues, mv, answer
<1>20. Alone(request, c) => values = MergedOnValues(c)
  <2>1. ASSUME Alone(request, c) PROVE lists = mv
    <3>1. \A k \in DOMAIN mv : lists[k] = mv[k]
      BY <1>15, <1>16, <2>1
    <3>2. lists = [k \in DOMAIN lists |-> lists[k]] /\ mv = [k \in DOMAIN mv |-> mv[k]]
      BY DEF lists, mv, MergeInvocationChains
    <3> QED BY <1>16, <3>1, <3>2
  <2> QED BY <1>18, <1>19, <2>1
<1>21. Bounded(values, MergedOnValues(c))
  <2>1. \A k \in DOMAIN mv :
          /\ lists[k].id = mv[k].id
          /\ mv[k].colls \cap GivenFor(mv[k].id) \subseteq lists[k].colls
          /\ lists[k].colls \subseteq mv[k].colls \cup AnyNamed(mv[k].id)
    BY <1>15, <1>16
  <2>2. Bounded(NewInvocationChain(CC, lists), NewInvocationChain(CC, mv))
    BY <1>10, <1>16, <1>17, <2>1, BoundedChain
  <2> QED BY <1>18, <1>19, <2>2
<1>22. found[c] = FoundAdditional(ChainOnValues, answer, FilteredOut)
  <2>1. found[c] <=> \E k \in DOMAIN merged[c] : IsNews(ChainOnValues, SoFar(c, k))
    BY <1>1 DEF Contents
  <2>2. \A k \in DOMAIN merged[c] : SoFar(c, k) = answer[k]
    BY <1>12, <1>13
  <2>3. found[c] <=> FoundAdditional(ChainOnValues, answer, FilteredOut)
    BY <1>13, <2>1, <2>2 DEF FoundAdditional
  <2>4. FoundAdditional(ChainOnValues, answer, FilteredOut) \in BOOLEAN
    BY DEF FoundAdditional
  <2> QED BY <1>4, <2>3, <2>4
<1>23. Settled(c)'
  <2>1. /\ ChainOnValues' = ChainOnValues /\ AnswerChain(c)' = answer
        /\ MergedOnValues(c)' = MergedOnValues(c)
        /\ \A id : GivenFor(id)' = GivenFor(id) /\ AnyNamed(id)' = AnyNamed(id)
    BY <1>2, ValuesStay DEF answer
  <2>2. stage'[c] = "selected" <=> found[c]
    BY <1>4
  <2>3. found[c] => Bounded(selected[c], MergedOnValues(c))'
    <3>1. ASSUME found[c] PROVE selected'[c] = values
      BY <1>4, <3>1
    <3> QED BY <1>21, <2>1, <3>1 DEF Bounded
  <2>4. found[c] /\ Alone(request, c) => selected'[c] = MergedOnValues(c)'
    BY <1>4, <1>20, <2>1
  <2>5. (stage'[c] = "selected") = FoundAdditional(ChainOnValues', AnswerChain(c)', FilteredOut)
    BY <1>4, <1>22, <2>1, <2>2
  <2> QED BY <1>2, <2>2, <2>3, <2>4, <2>5 DEF Settled
<1> QED BY <1>1, <1>2, <1>4, <1>5, <1>6, <1>7, <1>8, <1>9, <1>23, StepWithoutAppend


LEMMA NextKeeps ==
  ASSUME IInv, [Next]_vars
  PROVE  IInv'
<1>1. CASE Next
  <2>1. PICK c \in Calls :
          \/ ReadResponse(c) \/ Filtered(c) \/ TakeCall(c) \/ BeginMerge(c)
          \/ Contained(c) \/ AppendCollection(c) \/ EndMerge(c) \/ Select(c)
    BY <1>1 DEF Next
  <2> QED BY <2>1, ReadResponseKeeps, FilteredKeeps, TakeCallKeeps, BeginMergeKeeps,
             ContainedKeeps, AppendCollectionKeeps, EndMergeKeeps, SelectKeeps
<1>2. CASE UNCHANGED vars
  <2> USE <1>2 DEF vars, locals
  <2>1. ASSUME NEW d \in Calls
        PROVE  Reading(d)' /\ Progress(d)' /\ Contents(d)' /\ Settled(d)'
    <3>1. Reading(d) /\ Progress(d) /\ Contents(d) /\ Settled(d)
      BY DEF IInv
    <3>2. Unmoved(d) /\ KeepsSlices(d)
      BY <3>1 DEF Unmoved, KeepsSlices, Kept, Progress, Fits
    <3>3. request' = request /\ provided' = provided
      OBVIOUS
    <3> QED BY <3>1, <3>2, <3>3, OthersStay
  <2>2. TypeOK' /\ Base' /\ DOMAIN merged' = Calls /\ DOMAIN selected' = Calls
    BY DEF IInv, TypeOK, Base, GivenColls, Capacity
  <2> QED BY <2>1, <2>2 DEF IInv
<1> QED BY <1>1, <1>2

LEMMA InvariantHolds == Spec => []IInv
<1>1. Init => IInv
  BY InitIInv
<1>2. IInv /\ [Next]_vars => IInv'
  BY NextKeeps
<1> QED BY <1>1, <1>2, PTL DEF Spec

-------------------------------------------------------------------------------
(* Theorems.                                                                 *)

\* The variables have their types, and a merged chain has calls where the response has
\* some (selectendorsehandler.go:140-155).
THEOREM TypeCorrect == Spec => []TypeOK
<1>1. IInv => TypeOK
  BY DEF IInv
<1> QED BY <1>1, InvariantHolds, PTL

\* A response is read whole or not at all (selectendorsehandler.go:92-138).
THEOREM ReadAllOrNothing == Spec => []AllOrNothing
<1>1. ASSUME IInv PROVE AllOrNothing
  <2>1. ASSUME NEW c \in DOMAIN request.answers
        PROVE  /\ stage[c] = "warned" => ~ request.answers[c].sound
               /\ HasRead(c) => /\ request.answers[c].sound
                                /\ response[c] = CallsOf(request.answers[c].wrote)
    <3>1. c \in Calls
      BY <1>1, RequestsAreChains DEF IInv, TypeOK
    <3> QED BY <1>1, <3>1 DEF IInv, Reading
  <2> QED BY <2>1 DEF AllOrNothing, HasRead
<1> QED BY <1>1, InvariantHolds, PTL

\* The caller's chain keeps its calls and their collections, for any number of calls
\* with its request and any room in its arrays (selectendorsehandler.go:183-193).
THEOREM CallersChainUntouched == Spec => []ProvidedUntouched
<1>1. ASSUME IInv PROVE ProvidedUntouched
  <2>1. TypeOK /\ Base
    BY <1>1 DEF IInv
  <2>2. ASSUME NEW k \in DOMAIN provided
        PROVE  provided[k].id = request.chain[k].id /\ Elements(provided[k].slice) = request.chain[k].colls
    <3>1. /\ k \in DOMAIN request.chain /\ provided[k].id = request.chain[k].id
          /\ provided[k].slice = Slice(<<Request, k>>, Len(GivenColls(k)))
      BY <2>1 DEF Base
    <3> QED BY <2>1, <3>1, GivenElements DEF GivenColls
  <2> QED BY <2>2 DEF ProvidedUntouched
<1> QED BY <1>1, InvariantHolds, PTL

\* A call selects endorsers as if it had the request alone, unless another one, too,
\* adds collections to an array that has room: this is where they would write over
\* each other (selectendorsehandler.go:140-193).
THEOREM SelectsAsIfAlone == Spec => []SelectedAsIfAlone
<1>1. ASSUME IInv PROVE SelectedAsIfAlone
  <2>1. DOMAIN request.answers \subseteq Calls
    BY <1>1, RequestsAreChains DEF IInv, TypeOK
  <2>2. \A c \in DOMAIN request.answers : Settled(c)
    BY <1>1, <2>1 DEF IInv
  <2> QED BY <2>2 DEF SelectedAsIfAlone, Settled
<1> QED BY <1>1, InvariantHolds, PTL

\* Whatever calls write over each other's elements, each one finds out whether there
\* is anything additional, and asks for the chaincodes of the merge, for no less than
\* was given and no more than what some response names (selectendorsehandler.go:140-193).
THEOREM FindsWhateverShared == Spec => []FoundWhateverShared
<1>1. ASSUME IInv PROVE FoundWhateverShared
  <2>1. DOMAIN request.answers \subseteq Calls
    BY <1>1, RequestsAreChains DEF IInv, TypeOK
  <2>2. ASSUME NEW c \in DOMAIN request.answers
        PROVE  /\ stage[c] = "selected" => Bounded(selected[c], MergedOnValues(c))
               /\ stage[c] \in {"nothing", "selected"} =>
                    (stage[c] = "selected") = FoundAdditional(ChainOnValues, AnswerChain(c), FilteredOut)
    BY <1>1, <2>1 DEF IInv, Settled
  <2> QED BY <2>2 DEF FoundWhateverShared, Bounded, AnyNamed
<1> QED BY <1>1, InvariantHolds, PTL

LEMMA PvtSetsAreSets ==
  ASSUME NEW s \in PublicSets, NEW set \in PvtSetsOf(s)
  PROVE  set \in PrivateSets
<1> DEFINE places == UNION {{i} \X DOMAIN s[i].colls : i \in DOMAIN s}
<1>1. PICK data \in [places -> Data \cup {Nil}] :
        set = [i \in DOMAIN s |->
                 [ns |-> s[i].ns,
                  colls |-> [j \in DOMAIN s[i].colls |->
                    [name |-> s[i].colls[j].name, kv |-> data[<<i, j>>]]]]]
  BY DEF PvtSetsOf
<1>2. Len(s) \in Nat /\ DOMAIN s = 1 .. Len(s) /\ \A i \in DOMAIN s : s[i] \in PublicSpaces
  BY LenProperties, ElementOfSeq DEF PublicSets
<1>3. ASSUME NEW i \in DOMAIN s PROVE set[i] \in PrivateSpaces
  <2> DEFINE colls == [j \in DOMAIN s[i].colls |-> [name |-> s[i].colls[j].name, kv |-> data[<<i, j>>]]]
  <2>1. set[i] = [ns |-> s[i].ns, colls |-> colls]
    BY <1>1
  <2>2. s[i].ns \in STRING /\ s[i].colls \in Seq(PublicColls)
    BY <1>2 DEF PublicSpaces
  <2>3. /\ Len(s[i].colls) \in Nat /\ DOMAIN s[i].colls = 1 .. Len(s[i].colls)
        /\ \A j \in DOMAIN s[i].colls : s[i].colls[j] \in PublicColls
    BY <2>2, LenProperties, ElementOfSeq
  <2>4. ASSUME NEW j \in DOMAIN s[i].colls PROVE colls[j] \in PrivateColls
    <3>1. <<i, j>> \in places
      OBVIOUS
    <3>2. data[<<i, j>>] \in Data \cup {Nil}
      BY <1>1, <3>1
    <3>3. s[i].colls[j].name \in STRING
      BY <2>3 DEF PublicColls
    <3> QED BY <3>2, <3>3 DEF PrivateColls
  <2>5. colls \in Seq(PrivateColls)
    <3>1. colls \in [1 .. Len(s[i].colls) -> PrivateColls]
      BY <2>3, <2>4
    <3> HIDE DEF colls
    <3> QED BY <2>3, <3>1
  <2> HIDE DEF colls
  <2> QED BY <2>1, <2>2, <2>5 DEF PrivateSpaces
<1>4. set \in [1 .. Len(s) -> PrivateSpaces]
  <2>1. DOMAIN set = 1 .. Len(s) /\ set = [i \in DOMAIN set |-> set[i]]
    BY <1>1, <1>2
  <2> QED BY <1>2, <1>3, <2>1
<1> QED BY <1>2, <1>4 DEF PrivateSets

\* What a peer wrote has private sets that survive the way to bytes and back, unless
\* they lack data (rwset_proto_util.go:101-122 and 214-282).
THEOREM PvtAlwaysRoundTrips == Spec => []PvtRoundTrip
<1>1. ASSUME IInv PROVE PvtRoundTrip
  <2>1. ASSUME NEW c \in DOMAIN request.answers, NEW set \in PvtSetsOf(request.answers[c].wrote)
        PROVE  IF \E i \in DOMAIN set : \E j \in DOMAIN set[i].colls : set[i].colls[j].kv = Nil
               THEN PvtToProtoBytes(set) = Failure
               ELSE PvtFromProtoBytes(PvtToProtoBytes(set).value) = Value(set)
    <3>1. request.answers[c].wrote \in PublicSets
      BY <1>1, AnswersAreWritten DEF IInv, TypeOK
    <3>2. set \in PrivateSets
      BY <3>1, PvtSetsAreSets
    <3> QED BY <3>2, PrivateRoundTrip
  <2> QED BY <2>1 DEF PvtRoundTrip
<1> QED BY <1>1, InvariantHolds, PTL
===============================================================================
