------------------------------ MODULE MCOptions ------------------------------
(* Two calls.  They may have the same slice of options; then it is full, or    *)
(* they append at the same time where only one of them can.                    *)
EXTENDS Options, SequencesExt

CONSTANTS c1, c2, sl1, sl2, p1, f1, v1, v2

MCCalls == {c1, c2}
MCSlices == {sl1, sl2}
MCPeers == {p1}
MCFilters == {f1}
MCValues == {v1, v2}
\* Given as the parent, v1 ends before any timeout and v2 after all of them.
MCLeft == [v \in MCValues |-> IF v = v1 THEN 1 ELSE 4]
MCConfigured == [t \in Types |-> IF t = "query" THEN 1 ELSE 2]

GivenOptions ==
  [sets : {"targets"}, to : {{}, {p1}, {NilPeer}}] \cup [sets : {"endpoints"}, to : {{p1}}]
    \cup [sets : {"filter"}, to : {f1, NoFilter}]
    \cup [sets : {"retry"}, to : MCValues] \cup [sets : {"parent"}, to : MCValues]
    \cup [sets : {"timeout"}, of : Types, to : {0, 3}]

Methods == [MCCalls -> {"query", "endorse", "broadcast"}]

\* Slices of their own with any room, or one that is full.
Separate ==
  [slice : {[c \in MCCalls |-> IF c = c1 THEN sl1 ELSE sl2]},
   given : {[sl \in MCSlices |-> IF sl = sl1 THEN g ELSE <<>>] : g \in SeqOf(GivenOptions, 2)},
   room : {[sl \in MCSlices |-> r] : r \in 0 .. 2},
   method : {[c \in MCCalls |-> IF c = c1 THEN m ELSE "broadcast"] :
               m \in {"query", "endorse", "broadcast"}}]
SharedFull ==
  [slice : {[c \in MCCalls |-> sl1]},
   given : {[sl \in MCSlices |-> IF sl = sl1 THEN g ELSE <<>>] : g \in SeqOf(GivenOptions, 1)},
   room : {[sl \in MCSlices |-> 0]},
   method : Methods]
SharedWithRoom ==
  [slice : {[c \in MCCalls |-> sl1]},
   given : {[sl \in MCSlices |-> g] : g \in SeqOf(GivenOptions, 1)},
   room : {[sl \in MCSlices |-> r] : r \in 0 .. 2},
   method : Methods]
MCArguments == Separate \cup SharedFull
==============================================================================
