--------------------------- MODULE MCResponseChain ---------------------------
(* Two calls with one request, or one call, and arrays with room for none, one *)
(* or two more elements.  Responses are encoded as peers do it, and those of   *)
(* one call may be garbled at one place.                                       *)
EXTENDS ResponseChain, TLC

CONSTANTS c1, c2

MCCalls == {c1, c2}
MCFilteredOut == {"hidden"}
MCData == {"writes"}

-------------------------------------------------------------------------------
(* What peers write.                                                         *)

Coll(name) == [name |-> name, hash |-> "writes", hashed |-> "writes"]
Ns(ns, colls) == [ns |-> ns, kv |-> "writes", colls |-> [j \in DOMAIN colls |-> Coll(colls[j])]]

Sets == {
  <<>>,
  <<Ns("cc", <<"p">>)>>,
  <<Ns("cc", <<>>), Ns("other", <<"p">>)>>,
  <<Ns("lscc", <<>>), Ns("hidden", <<"s">>), Ns("cc", <<"q", "p">>)>>,
  <<Ns("cc", <<"r", "q">>), Ns("other", <<"p">>)>> }

\* The bytes of a set, with those of one namespace or collection garbled.
GarblingsOf(set) ==
  LET nss == ToProtoBytes(set).value.message
  IN {Garbled}
       \cup {Bytes([nss EXCEPT ![i].kv = Garbled]) : i \in DOMAIN nss}
       \cup UNION {{Bytes([nss EXCEPT ![i].colls[j].hashed = Garbled]) :
                      j \in DOMAIN nss[i].colls} : i \in DOMAIN nss}

Answer(set, sound, res) == [wrote |-> set, sound |-> sound, response |-> res]

SoundAnswers == {Answer(s, TRUE, Written(s)) : s \in Sets}
GarbledAnswers ==
  UNION {{Answer(s, FALSE, ResponseWith(b)) : b \in GarblingsOf(s)} : s \in Sets}
    \cup {Answer(<<>>, FALSE, [payload |-> Garbled]),
          Answer(<<>>, FALSE, [payload |-> Bytes([extension |-> Garbled])])}
NilAnswer == Answer(<<>>, TRUE, Nil)

-------------------------------------------------------------------------------
(* Requests.                                                                 *)

Given(id, colls, room) == [id |-> id, colls |-> colls, room |-> room]

ChainsWith(room) == {
  <<>>,
  <<Given("cc", <<"p">>, room)>>,
  <<Given("other", <<"q">>, room), Given("cc", <<>>, room)>>,
  <<Given("cc", <<"q">>, room), Given("cc", <<"p">>, room)>> }

Chains == UNION {ChainsWith(room) : room \in 0 .. 2}

MCRequests ==
  {[chain |-> chain, answers |-> c1 :> a @@ c2 :> b] :
     chain \in Chains, a \in SoundAnswers, b \in SoundAnswers}
  \cup {[chain |-> chain, answers |-> c1 :> a] :
     chain \in Chains, a \in SoundAnswers \cup GarbledAnswers \cup {NilAnswer}}
===============================================================================
