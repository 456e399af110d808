-------------------------------- MODULE RWSet --------------------------------
(***************************************************************************)
(* Read-write sets and their protobuf messages (pkg/client/channel/invoke/ *)
(* rwsetutil/rwset_proto_util.go).  A set is a sequence of namespaces, a   *)
(* namespace has a sequence of collections, and the keys and values of     *)
(* each are a message in bytes of its own inside the message.              *)
(*                                                                         *)
(* Bytes hold the message they encode, or are Garbled.  Nil cannot be      *)
(* marshalled, Garbled not unmarshalled.  A conversion yields a value, or  *)
(* is a Failure as soon as one of its parts is.                            *)
(***************************************************************************)
EXTENDS Naturals, Sequences

CONSTANTS
  Data,  \* keys, values and hashes
  Nil    \* a message that is not there

ASSUME NilIsNoData == Nil \notin Data

Value(v) == [err |-> FALSE, value |-> v]
Failure == [err |-> TRUE]

Bytes(message) == [garbled |-> FALSE, message |-> message]
Garbled == [garbled |-> TRUE]

Marshal(message) == IF message = Nil THEN Failure ELSE Value(Bytes(message))
Unmarshal(bytes) == IF bytes.garbled THEN Failure ELSE Value(bytes.message)

\* A slip: what fails is left out.
EveryGood(converted) ==
  LET Good(e) == ~ e.err
      good == SelectSeq(converted, Good)
  IN Value([i \in DOMAIN good |-> good[i].value])

\* The loops over namespaces and collections: all of the converted, or none.
Every(converted) ==
  IF \E i \in DOMAIN converted : converted[i].err THEN Failure
  ELSE Value([i \in DOMAIN converted |-> converted[i].value])

\* The message with its bytes, unless these or the converted elements failed.
Unless(bytes, elements, message) ==
  IF bytes.err \/ elements.err THEN Failure ELSE Value(message)

-------------------------------------------------------------------------------
(* Public sets: hashes stand for the private data of the collections.        *)

PublicColls == [name : STRING, hash : Data, hashed : Data]
PublicSpaces == [ns : STRING, kv : Data, colls : Seq(PublicColls)]
PublicSets == Seq(PublicSpaces)

CollHashedToProtoMsg(c) ==
  LET bytes == Marshal(c.hashed)
  IN Unless(bytes, bytes, [name |-> c.name, hash |-> c.hash, hashed |-> bytes.value])
CollHashedFromProtoMsg(m) ==
  LET set == Unmarshal(m.hashed)
  IN Unless(set, set, [name |-> m.name, hash |-> m.hash, hashed |-> set.value])

NsToProtoMsg(n) ==
  LET bytes == Marshal(n.kv)
      colls == Every([i \in DOMAIN n.colls |-> CollHashedToProtoMsg(n.colls[i])])
  IN Unless(bytes, colls, [ns |-> n.ns, kv |-> bytes.value, colls |-> colls.value])
NsFromProtoMsg(m) ==
  LET set == Unmarshal(m.kv)
      colls == Every([i \in DOMAIN m.colls |-> CollHashedFromProtoMsg(m.colls[i])])
  IN Unless(set, colls, [ns |-> m.ns, kv |-> set.value, colls |-> colls.value])

ToProtoBytes(s) ==
  LET nss == Every([i \in DOMAIN s |-> NsToProtoMsg(s[i])])
  IN Unless(nss, nss, Bytes(nss.value))
FromProtoBytes(bytes) ==
  LET nss == Unmarshal(bytes)
  IN IF nss.err THEN Failure
     ELSE Every([i \in DOMAIN nss.value |-> NsFromProtoMsg(nss.value[i])])

-------------------------------------------------------------------------------
(* Private sets: the data of the collections, and none of the namespaces.    *)

PrivateColls == [name : STRING, kv : Data \cup {Nil}]
PrivateSpaces == [ns : STRING, colls : Seq(PrivateColls)]
PrivateSets == Seq(PrivateSpaces)

CollPvtToProtoMsg(c) ==
  LET bytes == Marshal(c.kv) IN Unless(bytes, bytes, [name |-> c.name, kv |-> bytes.value])
CollPvtFromProtoMsg(m) ==
  LET set == Unmarshal(m.kv) IN Unless(set, set, [name |-> m.name, kv |-> set.value])

NsPvtToProtoMsg(n) ==
  LET colls == Every([i \in DOMAIN n.colls |-> CollPvtToProtoMsg(n.colls[i])])
  IN Unless(colls, colls, [ns |-> n.ns, colls |-> colls.value])
NsPvtFromProtoMsg(m) ==
  LET colls == Every([i \in DOMAIN m.colls |-> CollPvtFromProtoMsg(m.colls[i])])
  IN Unless(colls, colls, [ns |-> m.ns, colls |-> colls.value])

PvtToProtoBytes(s) ==
  LET nss == Every([i \in DOMAIN s |-> NsPvtToProtoMsg(s[i])])
  IN Unless(nss, nss, Bytes(nss.value))
PvtFromProtoBytes(bytes) ==
  LET nss == Unmarshal(bytes)
  IN IF nss.err THEN Failure
     ELSE Every([i \in DOMAIN nss.value |-> NsPvtFromProtoMsg(nss.value[i])])
==============================================================================
