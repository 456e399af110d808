------------------------------ MODULE MCOrderers ------------------------------
(* All lists of up to two entries out of two keys, one of which is the other  *)
(* in another case, with every answer of the endpoint configuration.          *)
EXTENDS Orderers, TLC, SequencesExt

CONSTANTS NameUpper, NameLower, u1, u2

MCKeys == {NameUpper, NameLower}
MCURLs == {u1, u2}
MCLower == [k \in MCKeys |-> NameLower]
MCAddress == u1 :> NameUpper @@ u2 :> NameUpper
MCEnvs ==
  [channel : SeqOf(MCKeys, 2), block : SeqOf(MCKeys, 2),
   listed : {<<>>, <<u1>>, <<u1, u2>>},
   lookup : [MCKeys -> [url : {u2, NoURL}, ignore : BOOLEAN]]]
==============================================================================
