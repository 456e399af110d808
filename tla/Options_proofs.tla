---------------------------- MODULE Options_proofs ----------------------------
(***************************************************************************)
(* Proofs about Options, for option lists of any length and any number of  *)
(* calls.  Whether calls share a slice with room matters for the default   *)
(* filter only (SlicesApart).                                              *)
(***************************************************************************)
EXTENDS Options, SequenceTheorems, TLAPS

DefaultTimeouts == [sets : {"defaultTimeout"}, of : Types]
DefaultFilterOptions == [sets : {"defaultFilter"}, to : DefaultFilters]

OptsRecords ==
  [targets : SUBSET Peers, filter : Filters \cup {NoFilter} \cup DefaultFilters,
   plain : [Fields -> Values \cup {Unset}], timeouts : [Types -> Nat]]

\* Calls that were given one slice find it full.
SlicesApart ==
  \A a \in Arguments : \A c, d \in Calls :
    c # d /\ a.slice[c] = a.slice[d] => a.room[a.slice[c]] = 0

-------------------------------------------------------------------------------
(* What the first r options of a list set at last.                           *)

PlacesIn(g, kinds) == {i \in DOMAIN g : g[i].sets \in kinds}
TimeoutPlacesIn(g, t) == {i \in PlacesIn(g, {"timeout"}) : g[i].of = t}

\* The value is that of the last of the places up to r, or the default.
Final(g, P, r, default, value) ==
  LET Q == {i \in P : i <= r}
  IN IF Q = {} THEN value = default
     ELSE \E i \in Q : (\A j \in Q : j <= i) /\ value = g[i].to

LEMMA FinalAtFirst ==
  ASSUME NEW g, NEW P \in SUBSET (Nat \ {0}), NEW default
  PROVE  Final(g, P, 0, default, default)
<1>1. \A i \in P : i \in Nat /\ i # 0
  OBVIOUS
<1>2. \A i \in P : ~ (i <= 0)
  BY <1>1
<1>3. {i \in P : i <= 0} = {}
  BY <1>2
<1> QED BY <1>3 DEF Final

LEMMA FinalSkips ==
  ASSUME NEW g, NEW P \in SUBSET Nat, NEW r \in Nat, NEW default, NEW value,
         Final(g, P, r, default, value), r + 1 \notin P
  PROVE  Final(g, P, r + 1, default, value)
<1>1. \A i \in P : i <= r + 1 <=> i <= r
  OBVIOUS
<1>2. {i \in P : i <= r + 1} = {i \in P : i <= r}
  BY <1>1
<1> QED BY <1>2 DEF Final

LEMMA FinalTakes ==
  ASSUME NEW g, NEW P \in SUBSET Nat, NEW r \in Nat, NEW default, r + 1 \in P
  PROVE  Final(g, P, r + 1, default, g[r + 1].to)
<1> DEFINE Q == {i \in P : i <= r + 1}
<1>1. r + 1 \in Q /\ \A j \in Q : j <= r + 1
  OBVIOUS
<1> HIDE DEF Q
<1>2. Q # {} /\ \E i \in Q : (\A j \in Q : j <= i) /\ g[r + 1].to = g[i].to
  BY <1>1
<1> QED BY <1>2 DEF Final, Q

LEMMA FinalIsLast ==
  ASSUME NEW g, NEW P \in SUBSET Nat, NEW r \in Nat, NEW default, NEW value,
         Final(g, P, r, default, value), \A i \in P : i <= r
  PROVE  value = IF P = {} THEN default ELSE g[CHOOSE i \in P : \A j \in P : j <= i].to
<1> DEFINE last == CHOOSE i \in P : \A j \in P : j <= i
<1>1. {i \in P : i <= r} = P
  OBVIOUS
<1>2. ASSUME P # {} PROVE value = g[last].to
  <2>1. PICK k \in P : (\A j \in P : j <= k) /\ value = g[k].to
    BY <1>1, <1>2 DEF Final
  <2>2. last \in P /\ \A j \in P : j <= last
    BY <2>1, Zenon
  <2>3. last \in Nat /\ k \in Nat
    BY <2>2
  <2> HIDE DEF last
  <2>4. k <= last /\ last <= k
    BY <2>1, <2>2
  <2>5. last = k
    BY <2>3, <2>4
  <2> QED BY <2>1, <2>5
<1>3. P = {} => value = default
  BY <1>1 DEF Final
<1> HIDE DEF last
<1>4. value = IF P = {} THEN default ELSE g[last].to
  BY <1>2, <1>3
<1> QED BY <1>4 DEF last

\* What the options read so far have made of the record; own is the default filter
\* of the call's method.
Made(g, r, own, o) ==
  /\ Final(g, PlacesIn(g, {"targets", "endpoints"}), r, {}, o.targets)
  /\ \A f \in Fields : Final(g, PlacesIn(g, {f}), r, Unset, o.plain[f])
  /\ \A t \in Types : \E v \in Nat :
       /\ Final(g, TimeoutPlacesIn(g, t), r, 0, v)
       /\ o.timeouts[t] = v \/ (r > Len(g) /\ v = 0 /\ o.timeouts[t] = Configured[t])
  /\ \E f \in Filters \cup {NoFilter} :
       /\ Final(g, PlacesIn(g, {"filter"}), r, NoFilter, f)
       /\ IF r < Len(g) + 2 \/ f # NoFilter \/ o.targets # {} THEN o.filter = f
          ELSE o.filter \in DefaultFilters /\ (SlicesApart => o.filter = own)

LEMMA PlacesAreNumbers ==
  ASSUME NEW g \in Seq(AnOption), NEW kinds, NEW t
  PROVE  /\ PlacesIn(g, kinds) \in SUBSET (1 .. Len(g))
         /\ TimeoutPlacesIn(g, t) \in SUBSET (1 .. Len(g))
BY DEF PlacesIn, TimeoutPlacesIn

LEMMA OptionKinds ==
  ASSUME NEW x \in AnOption
  PROVE  \/ x.sets \in {"targets", "endpoints"} /\ x.to \in SUBSET (Peers \cup {NilPeer})
         \/ x.sets = "filter" /\ x.to \in Filters \cup {NoFilter}
         \/ x.sets \in Fields /\ x.to \in Values
         \/ x.sets = "timeout" /\ x.of \in Types /\ x.to \in Nat
BY DEF AnOption

\* What one of the given options makes of the record.
Effect(x, o, new) ==
  \/ x.sets \in {"targets", "endpoints"} /\ new = [o EXCEPT !.targets = x.to]
  \/ x.sets = "filter" /\ new = [o EXCEPT !.filter = x.to]
  \/ x.sets = "timeout" /\ new = [o EXCEPT !.timeouts[x.of] = x.to]
  \/ x.sets \in Fields /\ new = [o EXCEPT !.plain[x.sets] = x.to]

\* The next of the given options is applied.
LEMMA GivenIsMade ==
  ASSUME NEW g \in Seq(AnOption), NEW r \in Nat, r < Len(g), NEW own, NEW o \in OptsRecords,
         Made(g, r, own, o), NEW new \in OptsRecords,
         Effect(g[r + 1], o, new)
  PROVE  Made(g, r + 1, own, new)
<1> DEFINE x == g[r + 1]
<1>0. x \in AnOption /\ r + 1 \in DOMAIN g /\ Len(g) \in Nat
  OBVIOUS
<1>1. ASSUME NEW kinds
      PROVE  /\ PlacesIn(g, kinds) \in SUBSET Nat
             /\ r + 1 \in PlacesIn(g, kinds) <=> x.sets \in kinds
  BY <1>0, PlacesAreNumbers DEF PlacesIn
<1>2. ASSUME NEW t
      PROVE  /\ TimeoutPlacesIn(g, t) \in SUBSET Nat
             /\ r + 1 \in TimeoutPlacesIn(g, t) <=> x.sets = "timeout" /\ x.of = t
  BY <1>0, <1>1, PlacesAreNumbers DEF TimeoutPlacesIn
<1>3. /\ x.sets \notin {"targets", "endpoints"} => new.targets = o.targets
      /\ x.sets \in {"targets", "endpoints"} => new.targets = x.to
      /\ x.sets # "filter" => new.filter = o.filter
      /\ x.sets = "filter" => new.filter = x.to
      /\ \A t \in Types :
           new.timeouts[t] = IF x.sets = "timeout" /\ x.of = t THEN x.to ELSE o.timeouts[t]
      /\ \A f \in Fields : new.plain[f] = IF x.sets = f THEN x.to ELSE o.plain[f]
  <2> HIDE DEF x
  <2>0. Effect(x, o, new)
    BY DEF x
  <2>1. CASE x.sets \in {"targets", "endpoints"} /\ new = [o EXCEPT !.targets = x.to]
    BY <2>1 DEF OptsRecords, Fields
  <2>2. CASE x.sets = "filter" /\ new = [o EXCEPT !.filter = x.to]
    BY <2>2 DEF OptsRecords, Fields
  <2>3. CASE x.sets = "timeout" /\ new = [o EXCEPT !.timeouts[x.of] = x.to]
    <3>1. new = [o EXCEPT !.timeouts = [o.timeouts EXCEPT ![x.of] = x.to]]
      BY <2>3
    <3> QED BY <2>3, <3>1 DEF OptsRecords, Fields
  <2>4. CASE x.sets \in Fields /\ new = [o EXCEPT !.plain[x.sets] = x.to]
    <3>1. new = [o EXCEPT !.plain = [o.plain EXCEPT ![x.sets] = x.to]]
      BY <2>4
    <3> QED BY <2>4, <3>1 DEF OptsRecords, Fields
  <2> QED BY <2>0, <2>1, <2>2, <2>3, <2>4 DEF Effect
<1> HIDE DEF x
<1>4. Final(g, PlacesIn(g, {"targets", "endpoints"}), r + 1, {}, new.targets)
  <2>1. CASE x.sets \in {"targets", "endpoints"}
    BY <1>1, <1>3, <2>1, FinalTakes DEF x
  <2>2. CASE x.sets \notin {"targets", "endpoints"}
    <3>1. Final(g, PlacesIn(g, {"targets", "endpoints"}), r, {}, o.targets)
      BY DEF Made
    <3> QED BY <1>1, <1>3, <2>2, <3>1, FinalSkips
  <2> QED BY <2>1, <2>2
<1>5. ASSUME NEW f \in Fields
      PROVE  Final(g, PlacesIn(g, {f}), r + 1, Unset, new.plain[f])
  <2>1. CASE x.sets = f
    BY <1>1, <1>3, <2>1, FinalTakes DEF x
  <2>2. CASE x.sets # f
    <3>1. Final(g, PlacesIn(g, {f}), r, Unset, o.plain[f])
      BY DEF Made
    <3> QED BY <1>1, <1>3, <2>2, <3>1, FinalSkips
  <2> QED BY <2>1, <2>2
<1>6. ASSUME NEW t \in Types
      PROVE  \E v \in Nat :
               /\ Final(g, TimeoutPlacesIn(g, t), r + 1, 0, v)
               /\ new.timeouts[t] = v \/ (r + 1 > Len(g) /\ v = 0 /\ new.timeouts[t] = Configured[t])
  <2>1. CASE x.sets = "timeout" /\ x.of = t
    <3>1. x.to \in Nat
      BY <1>0, <2>1, OptionKinds DEF Fields
    <3>2. Final(g, TimeoutPlacesIn(g, t), r + 1, 0, x.to)
      BY <1>2, <2>1, FinalTakes DEF x
    <3> QED BY <1>3, <2>1, <3>1, <3>2
  <2>2. CASE ~ (x.sets = "timeout" /\ x.of = t)
    <3>1. PICK v \in Nat : Final(g, TimeoutPlacesIn(g, t), r, 0, v) /\ o.timeouts[t] = v
      BY <1>0 DEF Made
    <3>2. Final(g, TimeoutPlacesIn(g, t), r + 1, 0, v)
      BY <1>2, <2>2, <3>1, FinalSkips
    <3> QED BY <1>3, <2>2, <3>1, <3>2
  <2> QED BY <2>1, <2>2
<1>7. new.filter \in Filters \cup {NoFilter}
      /\ Final(g, PlacesIn(g, {"filter"}), r + 1, NoFilter, new.filter)
  <2>1. CASE x.sets = "filter"
    <3>1. x.to \in Filters \cup {NoFilter}
      BY <1>0, <2>1, OptionKinds DEF Fields
    <3> QED BY <1>1, <1>3, <2>1, <3>1, FinalTakes DEF x
  <2>2. CASE x.sets # "filter"
    <3>1. o.filter \in Filters \cup {NoFilter} /\ Final(g, PlacesIn(g, {"filter"}), r, NoFilter, o.filter)
      BY <1>0 DEF Made
    <3> QED BY <1>1, <1>3, <2>2, <3>1, FinalSkips
  <2> QED BY <2>1, <2>2
<1>8. r + 1 < Len(g) + 2
  BY <1>0
<1> QED BY <1>4, <1>5, <1>6, <1>7, <1>8 DEF Made

\* The first default: a timeout that is still zero gets the configured one.
LEMMA TimeoutIsMade ==
  ASSUME NEW g \in Seq(AnOption), NEW own, NEW o \in OptsRecords, NEW t \in Types,
         Made(g, Len(g), own, o), NEW new \in OptsRecords,
         new = [o EXCEPT !.timeouts[t] = IF @ = 0 THEN Configured[t] ELSE @]
  PROVE  Made(g, Len(g) + 1, own, new)
<1>0. Len(g) \in Nat
  OBVIOUS
<1>1. ASSUME NEW kinds, NEW s
      PROVE  /\ PlacesIn(g, kinds) \in SUBSET Nat /\ Len(g) + 1 \notin PlacesIn(g, kinds)
             /\ TimeoutPlacesIn(g, s) \in SUBSET Nat /\ Len(g) + 1 \notin TimeoutPlacesIn(g, s)
  BY <1>0, PlacesAreNumbers
<1>2. /\ new.targets = o.targets /\ new.filter = o.filter /\ new.plain = o.plain
      /\ \A s \in Types :
           new.timeouts[s] = IF s = t /\ o.timeouts[s] = 0 THEN Configured[t] ELSE o.timeouts[s]
  <2>1. new = [o EXCEPT !.timeouts = [o.timeouts EXCEPT ![t] = IF o.timeouts[t] = 0 THEN Configured[t]
                                                               ELSE o.timeouts[t]]]
    OBVIOUS
  <2> QED BY <2>1 DEF OptsRecords
<1>3. Final(g, PlacesIn(g, {"targets", "endpoints"}), Len(g) + 1, {}, new.targets)
  BY <1>0, <1>1, <1>2, FinalSkips DEF Made
<1>4. ASSUME NEW f \in Fields
      PROVE  Final(g, PlacesIn(g, {f}), Len(g) + 1, Unset, new.plain[f])
  BY <1>0, <1>1, <1>2, FinalSkips DEF Made
<1>5. ASSUME NEW s \in Types
      PROVE  \E v \in Nat :
               /\ Final(g, TimeoutPlacesIn(g, s), Len(g) + 1, 0, v)
               /\ new.timeouts[s] = v
                  \/ (Len(g) + 1 > Len(g) /\ v = 0 /\ new.timeouts[s] = Configured[s])
  <2>1. PICK v \in Nat : Final(g, TimeoutPlacesIn(g, s), Len(g), 0, v) /\ o.timeouts[s] = v
    BY <1>0 DEF Made
  <2>2. Final(g, TimeoutPlacesIn(g, s), Len(g) + 1, 0, v)
    BY <1>0, <1>1, <2>1, FinalSkips
  <2> QED BY <1>0, <1>2, <2>1, <2>2
<1>6. new.filter \in Filters \cup {NoFilter}
      /\ Final(g, PlacesIn(g, {"filter"}), Len(g) + 1, NoFilter, new.filter)
  <2>1. /\ o.filter \in Filters \cup {NoFilter}
        /\ Final(g, PlacesIn(g, {"filter"}), Len(g), NoFilter, o.filter)
    BY <1>0 DEF Made
  <2> QED BY <1>0, <1>1, <1>2, <2>1, FinalSkips
<1> QED BY <1>0, <1>3, <1>4, <1>5, <1>6 DEF Made

\* The second: without targets and a filter, the default filter is set.
LEMMA FilterIsMade ==
  ASSUME NEW g \in Seq(AnOption), NEW own, NEW o \in OptsRecords, NEW filter \in DefaultFilters,
         SlicesApart => filter = own,
         Made(g, Len(g) + 1, own, o), NEW new \in OptsRecords,
         new = [o EXCEPT !.filter = IF o.targets = {} /\ o.filter = NoFilter THEN filter ELSE @]
  PROVE  Made(g, Len(g) + 2, own, new)
<1> DEFINE r == Len(g) + 1
<1>0. Len(g) \in Nat /\ r \in Nat /\ r + 1 = Len(g) + 2
  OBVIOUS
<1>1. ASSUME NEW kinds, NEW s
      PROVE  /\ PlacesIn(g, kinds) \in SUBSET Nat /\ r + 1 \notin PlacesIn(g, kinds)
             /\ TimeoutPlacesIn(g, s) \in SUBSET Nat /\ r + 1 \notin TimeoutPlacesIn(g, s)
  BY <1>0, PlacesAreNumbers
<1>2. /\ new.targets = o.targets /\ new.timeouts = o.timeouts /\ new.plain = o.plain
      /\ new.filter = IF o.targets = {} /\ o.filter = NoFilter THEN filter ELSE o.filter
  BY DEF OptsRecords
<1>3. Final(g, PlacesIn(g, {"targets", "endpoints"}), r + 1, {}, new.targets)
  BY <1>0, <1>1, <1>2, FinalSkips DEF Made
<1>4. ASSUME NEW f \in Fields
      PROVE  Final(g, PlacesIn(g, {f}), r + 1, Unset, new.plain[f])
  BY <1>0, <1>1, <1>2, FinalSkips DEF Made
<1>5. ASSUME NEW s \in Types
      PROVE  \E v \in Nat :
               /\ Final(g, TimeoutPlacesIn(g, s), r + 1, 0, v)
               /\ new.timeouts[s] = v \/ (r + 1 > Len(g) /\ v = 0 /\ new.timeouts[s] = Configured[s])
  <2>1. PICK v \in Nat : /\ Final(g, TimeoutPlacesIn(g, s), r, 0, v)
                         /\ o.timeouts[s] = v \/ (v = 0 /\ o.timeouts[s] = Configured[s])
    BY <1>0 DEF Made
  <2>2. Final(g, TimeoutPlacesIn(g, s), r + 1, 0, v)
    BY <1>0, <1>1, <2>1, FinalSkips
  <2> QED BY <1>0, <1>2, <2>1, <2>2
<1>6. /\ o.filter \in Filters \cup {NoFilter}
      /\ Final(g, PlacesIn(g, {"filter"}), r + 1, NoFilter, o.filter)
  <2>1. /\ o.filter \in Filters \cup {NoFilter}
        /\ Final(g, PlacesIn(g, {"filter"}), r, NoFilter, o.filter)
    BY <1>0 DEF Made
  <2> QED BY <1>0, <1>1, <2>1, FinalSkips
<1>7. IF o.filter # NoFilter \/ new.targets # {} THEN new.filter = o.filter
      ELSE new.filter \in DefaultFilters /\ (SlicesApart => new.filter = own)
  BY <1>2
<1> HIDE DEF r
<1>8. Made(g, r + 1, own, new)
  BY <1>0, <1>3, <1>4, <1>5, <1>6, <1>7 DEF Made
<1> QED BY <1>0, <1>8

-------------------------------------------------------------------------------
(* The invariant.                                                            *)

Own(c) == DefaultFilter(c).to

\* The k-th option that a call appended.
Appended(c, k) == IF copied[c] THEN extra[c][k] ELSE array[arg.slice[c]][k]

Appending(c) ==
  /\ stage[c] = "appending" <=> count[c] < 2
  /\ IF copied[c] THEN Len(extra[c]) = count[c] ELSE count[c] <= Room(c)
  /\ count[c] >= 1 => Appended(c, 1) \in DefaultTimeouts
  /\ count[c] = 2 => /\ Appended(c, 2) \in DefaultFilterOptions
                     /\ SlicesApart => Appended(c, 2) = DefaultFilter(c)

Reading(c) ==
  /\ stage[c] = "appending" => read[c] = 0
  /\ stage[c] = "ready" =>
       /\ read[c] = Len(Given(c)) + 2
       /\ opts[c].timeouts["execute"] # 0
       /\ deadline[c] = Sooner(opts[c].timeouts["execute"], opts[c].plain["parent"])
  /\ stage[c] # "failed" =>
       read[c] <= Len(Given(c)) + 2 /\ Made(Given(c), read[c], Own(c), opts[c])

IInv == TypeOK /\ \A c \in Calls : Appending(c) /\ Reading(c)

LEMMA Arguing ==
  ASSUME TypeOK, NEW c \in Calls
  PROVE  /\ arg.slice[c] \in Slices /\ Given(c) \in Seq(AnOption) /\ Len(Given(c)) \in Nat
         /\ Room(c) \in Nat
         /\ DefaultTimeout(c) \in DefaultTimeouts
         /\ DefaultFilter(c) \in DefaultFilterOptions /\ Own(c) \in DefaultFilters
         /\ DefaultFilter(c).to = Own(c)
         /\ \A t \in Types : Configured[t] \in Nat \ {0}
<1>1. /\ arg.slice \in [Calls -> Slices] /\ arg.room \in [Slices -> Nat]
      /\ \A sl \in Slices : arg.given[sl] \in Seq(AnOption)
  BY ArgumentsAreCalls DEF TypeOK
<1>2. arg.slice[c] \in Slices /\ Given(c) \in Seq(AnOption) /\ Room(c) \in Nat
  BY <1>1 DEF Given, Room
<1>3. /\ DefaultTimeout(c) \in DefaultTimeouts
      /\ DefaultFilter(c) \in DefaultFilterOptions /\ Own(c) \in DefaultFilters
  BY DEF DefaultTimeout, DefaultFilter, Own, DefaultTimeouts, DefaultFilterOptions,
         DefaultFilters, Types
<1> QED BY <1>2, <1>3, ConfiguredTimeouts DEF Own

LEMMA InitIInv == Init => IInv
<1> SUFFICES ASSUME Init PROVE IInv
  OBVIOUS
<1>1. TypeOK
  BY DEF Init, TypeOK, NoOpts
<1>2. ASSUME NEW c \in Calls PROVE Appending(c)
  BY <1>1, <1>2, Arguing DEF Init, Appending
<1>3. ASSUME NEW c \in Calls PROVE Reading(c)
  <2>1. /\ stage[c] = "appending" /\ read[c] = 0 /\ opts[c] = NoOpts
        /\ Given(c) \in Seq(AnOption) /\ Len(Given(c)) \in Nat
    BY <1>1, Arguing DEF Init
  <2>2. ASSUME NEW kinds, NEW t
        PROVE  /\ PlacesIn(Given(c), kinds) \in SUBSET (Nat \ {0})
               /\ TimeoutPlacesIn(Given(c), t) \in SUBSET (Nat \ {0})
    BY <2>1, PlacesAreNumbers
  <2>3. /\ NoOpts.targets = {} /\ NoOpts.filter = NoFilter
        /\ \A f \in Fields : NoOpts.plain[f] = Unset
        /\ \A t \in Types : NoOpts.timeouts[t] = 0
    BY DEF NoOpts
  <2> HIDE DEF NoOpts
  <2>4. Made(Given(c), 0, Own(c), NoOpts)
    <3> DEFINE g == Given(c)
    <3>1. /\ Final(g, PlacesIn(g, {"targets", "endpoints"}), 0, {}, {})
          /\ \A f \in Fields : Final(g, PlacesIn(g, {f}), 0, Unset, Unset)
          /\ \A t \in Types : Final(g, TimeoutPlacesIn(g, t), 0, 0, 0)
          /\ Final(g, PlacesIn(g, {"filter"}), 0, NoFilter, NoFilter)
      BY <2>2, FinalAtFirst
    <3>2. 0 < Len(g) + 2
      BY <2>1
    <3> HIDE DEF g
    <3>3. Made(g, 0, Own(c), NoOpts)
      BY <2>3, <3>1, <3>2 DEF Made
    <3> QED BY <3>3 DEF g
  <2> QED BY <2>1, <2>4 DEF Reading
<1> QED BY <1>1, <1>2, <1>3 DEF IInv

LEMMA FirstOf ==
  ASSUME NEW S, NEW s, NEW n \in Nat, \A i \in 1 .. n : s[i] \in S
  PROVE  /\ SubSeq(s, 1, n) \in Seq(S) /\ Len(SubSeq(s, 1, n)) = n
         /\ \A i \in 1 .. n : SubSeq(s, 1, n)[i] = s[i]
<1>1. 1 \in Int /\ n \in Int /\ n - 1 + 1 = n
  OBVIOUS
<1>2. /\ SubSeq(s, 1, n) \in Seq(S) /\ Len(SubSeq(s, 1, n)) = IF 1 <= n THEN n - 1 + 1 ELSE 0
      /\ \A i \in 1 .. n - 1 + 1 : SubSeq(s, 1, n)[i] = s[1 + i - 1]
  BY <1>1, SubSeqProperties, SMT
<1>3. /\ (IF 1 <= n THEN n - 1 + 1 ELSE 0) = n
      /\ \A i \in 1 .. n : 1 + i - 1 = i
  OBVIOUS
<1> QED BY <1>1, <1>2, <1>3

\* An append leaves a call with what it had and the new option after it, and changes
\* of the others at most that place of an array they share.
LEMMA AppendOptionStep ==
  ASSUME TypeOK, NEW c \in Calls, NEW o \in DefaultOption, Appending(c), count[c] < 2,
         AppendOption(c, o), arg' = arg
  PROVE  /\ array' \in [Slices -> [1 .. 2 -> DefaultOption \cup {Unset}]]
         /\ copied' \in [Calls -> BOOLEAN]
         /\ extra' \in [Calls -> Seq(DefaultOption)]
         /\ count' = [count EXCEPT ![c] = @ + 1]
         /\ IF copied'[c] THEN Len(extra'[c]) = count[c] + 1 ELSE count[c] + 1 <= Room(c)
         /\ Appended(c, count[c])' = o
         /\ count[c] = 1 => Appended(c, 1)' = Appended(c, 1)
         /\ \A d \in Calls \ {c} : copied'[d] = copied[d] /\ extra'[d] = extra[d]
         /\ \A sl \in Slices : \A k \in 1 .. 2 :
              \/ array'[sl][k] = array[sl][k]
              \/ /\ array'[sl][k] = o /\ k = count[c] + 1
                 /\ sl = arg.slice[c] /\ Room(c) # 0
<1> DEFINE sl == arg.slice[c]
           k == count[c] + 1
<1>0. /\ sl \in Slices /\ Room(c) \in Nat /\ count[c] \in 0 .. 1 /\ k \in 1 .. 2
      /\ array \in [Slices -> [1 .. 2 -> DefaultOption \cup {Unset}]]
      /\ copied \in [Calls -> BOOLEAN] /\ extra \in [Calls -> Seq(DefaultOption)]
      /\ count' = [count EXCEPT ![c] = @ + 1] /\ count'[c] = k
  BY Arguing DEF TypeOK, AppendOption
<1>1. CASE ~ copied[c] /\ k <= Room(c)
  <2>1. array' = [array EXCEPT ![sl][k] = o] /\ UNCHANGED <<copied, extra>>
    BY <1>1 DEF AppendOption
  <2>2. array' = [array EXCEPT ![sl] = [array[sl] EXCEPT ![k] = o]]
    BY <2>1
  <2> HIDE DEF sl, k
  <2>3. array' \in [Slices -> [1 .. 2 -> DefaultOption \cup {Unset}]]
    BY <1>0, <2>2
  <2>4. array'[sl][k] = o /\ \A j \in 1 .. 2 : j # k => array'[sl][j] = array[sl][j]
    BY <1>0, <2>2
  <2>5. \A x \in Slices : x # sl => array'[x] = array[x]
    BY <1>0, <2>2
  <2>6. sl = arg'.slice[c] /\ ~ copied'[c] /\ Room(c) # 0 /\ k = count[c] + 1
    BY <1>0, <1>1, <2>1 DEF sl, k
  <2>7. Appended(c, count[c])' = o
    BY <1>0, <2>4, <2>6 DEF Appended
  <2>8. count[c] = 1 => Appended(c, 1)' = Appended(c, 1)
    BY <1>0, <1>1, <2>4, <2>6 DEF Appended, sl
  <2>9. \A x \in Slices : \A j \in 1 .. 2 :
          \/ array'[x][j] = array[x][j]
          \/ array'[x][j] = o /\ j = count[c] + 1 /\ x = arg.slice[c] /\ Room(c) # 0
    BY <2>4, <2>5, <2>6 DEF sl
  <2> QED BY <1>0, <1>1, <2>1, <2>3, <2>6, <2>7, <2>8, <2>9
<1>2. CASE ~ (~ copied[c] /\ k <= Room(c))
  <2> DEFINE had == IF copied[c] THEN extra[c] ELSE SubSeq(array[sl], 1, count[c])
  <2>1. /\ copied' = [copied EXCEPT ![c] = TRUE] /\ array' = array
        /\ extra' = [extra EXCEPT ![c] = Append(had, o)]
    BY <1>2 DEF AppendOption
  <2>2. had \in Seq(DefaultOption) /\ Len(had) = count[c] /\ (count[c] = 1 => had[1] = Appended(c, 1))
    <3>1. CASE copied[c]
      BY <1>0, <3>1 DEF Appending, Appended
    <3>2. CASE ~ copied[c]
      <4>1. count[c] = 1 => array[sl][1] = Appended(c, 1) /\ Appended(c, 1) \in DefaultOption
        BY <3>2 DEF Appending, Appended, DefaultTimeouts, DefaultOption
      <4>2. \A i \in 1 .. count[c] : array[sl][i] \in DefaultOption
        BY <1>0, <4>1
      <4>3. had = SubSeq(array[sl], 1, count[c]) /\ count[c] \in Nat
        BY <1>0, <3>2
      <4>4. had \in Seq(DefaultOption) /\ Len(had) = count[c]
            /\ \A i \in 1 .. count[c] : had[i] = array[sl][i]
        BY <1>0, <4>2, <4>3, FirstOf
      <4> HIDE DEF had
      <4> QED BY <4>1, <4>4
    <3> QED BY <3>1, <3>2
  <2> HIDE DEF had, sl
  <2>3. /\ Append(had, o) \in Seq(DefaultOption) /\ Len(Append(had, o)) = k
        /\ Append(had, o)[k] = o /\ (count[c] = 1 => Append(had, o)[1] = had[1])
    BY <1>0, <2>2
  <2>4. /\ extra'[c] = Append(had, o) /\ copied'[c] /\ extra' \in [Calls -> Seq(DefaultOption)]
        /\ copied' \in [Calls -> BOOLEAN]
        /\ \A d \in Calls \ {c} : copied'[d] = copied[d] /\ extra'[d] = extra[d]
    BY <1>0, <2>1, <2>3
  <2>5. Appended(c, count[c])' = o /\ (count[c] = 1 => Appended(c, 1)' = Appended(c, 1))
    <3>1. extra'[c][k] = o /\ (count[c] = 1 => extra'[c][1] = Appended(c, 1)) /\ copied'[c]
      BY <2>2, <2>3, <2>4
    <3> QED BY <1>0, <3>1 DEF Appended
  <2> QED BY <1>0, <2>1, <2>3, <2>4, <2>5
<1> QED BY <1>1, <1>2

\* What others have appended is what they appended, or what c now writes in its place.
LEMMA OthersAppending ==
  ASSUME IInv, NEW c \in Calls, NEW o \in DefaultOption, count[c] < 2, AppendOption(c, o),
         arg' = arg, count[c] = 0 => o \in DefaultTimeouts, count[c] = 1 => o = DefaultFilter(c),
         NEW d \in Calls, d # c, stage'[d] = stage[d]
  PROVE  Appending(d)'
<1>1. TypeOK /\ Appending(c) /\ Appending(d)
  BY DEF IInv
<1>2. /\ count' = [count EXCEPT ![c] = @ + 1]
      /\ copied'[d] = copied[d] /\ extra'[d] = extra[d]
      /\ \A sl \in Slices : \A k \in 1 .. 2 :
           \/ array'[sl][k] = array[sl][k]
           \/ array'[sl][k] = o /\ k = count[c] + 1 /\ sl = arg.slice[c] /\ Room(c) # 0
  BY <1>1, AppendOptionStep
<1>3. count'[d] = count[d] /\ count[c] \in 0 .. 2
  BY <1>1, <1>2 DEF TypeOK
<1>4. arg.slice[d] \in Slices /\ arg'.slice[d] = arg.slice[d] /\ Room(d)' = Room(d)
      /\ DefaultFilter(d)' = DefaultFilter(d) /\ DefaultFilter(c) \in DefaultFilterOptions
  BY <1>1, Arguing DEF Room, DefaultFilter
<1>5. Appended(d, 1)' = Appended(d, 1) \/ Appended(d, 1)' \in DefaultTimeouts
  <2>1. array'[arg.slice[d]][1] = array[arg.slice[d]][1] \/ (array'[arg.slice[d]][1] = o /\ count[c] = 0)
    BY <1>2, <1>3, <1>4
  <2> QED BY <1>2, <1>4, <2>1 DEF Appended
<1>6. \/ Appended(d, 2)' = Appended(d, 2)
      \/ Appended(d, 2)' \in DefaultFilterOptions /\ ~ SlicesApart
  <2>1. \/ array'[arg.slice[d]][2] = array[arg.slice[d]][2]
        \/ /\ array'[arg.slice[d]][2] = o /\ count[c] = 1
           /\ arg.slice[d] = arg.slice[c] /\ Room(c) # 0
    BY <1>2, <1>3, <1>4
  <2>2. arg.slice[d] = arg.slice[c] /\ Room(c) # 0 => ~ SlicesApart
    BY <1>1 DEF TypeOK, SlicesApart, Room
  <2> QED BY <1>2, <1>4, <2>1, <2>2 DEF Appended
<1>7. /\ stage'[d] = "appending" <=> count'[d] < 2
      /\ IF copied'[d] THEN Len(extra'[d]) = count'[d] ELSE count'[d] <= Room(d)'
  BY <1>1, <1>2, <1>3, <1>4 DEF Appending
<1>8. count'[d] >= 1 => Appended(d, 1)' \in DefaultTimeouts
  BY <1>1, <1>3, <1>5 DEF Appending
<1>9. count'[d] = 2 => /\ Appended(d, 2)' \in DefaultFilterOptions
                       /\ SlicesApart => Appended(d, 2)' = DefaultFilter(d)'
  BY <1>1, <1>3, <1>4, <1>6 DEF Appending
<1> QED BY <1>7, <1>8, <1>9 DEF Appending

LEMMA ReadingStays ==
  ASSUME NEW d \in Calls, Reading(d), arg' = arg, opts'[d] = opts[d], read'[d] = read[d],
         deadline'[d] = deadline[d],
         stage'[d] = stage[d] \/ (stage[d] = "appending" /\ stage'[d] = "reading")
  PROVE  Reading(d)'
<1>1. Given(d)' = Given(d) /\ Own(d)' = Own(d)
  BY DEF Given, Own, DefaultFilter
<1>2. stage'[d] # "failed" =>
        read'[d] <= Len(Given(d)') + 2 /\ Made(Given(d)', read'[d], Own(d)', opts'[d])
  BY <1>1 DEF Reading
<1>3. stage'[d] = "ready" => /\ read'[d] = Len(Given(d)') + 2
                             /\ opts'[d].timeouts["execute"] # 0
                             /\ deadline'[d] = Sooner(opts'[d].timeouts["execute"],
                                                     opts'[d].plain["parent"])
  BY <1>1 DEF Reading, Sooner
<1>4. stage'[d] = "appending" => read'[d] = 0
  BY DEF Reading
<1> QED BY <1>2, <1>3, <1>4 DEF Reading

LEMMA AppendingStays ==
  ASSUME NEW d \in Calls, Appending(d), UNCHANGED <<arg, array, copied, extra, count>>,
         stage'[d] = "appending" <=> stage[d] = "appending"
  PROVE  Appending(d)'
BY DEF Appending, Appended, Room, DefaultFilter

LEMMA AppendDefaultTimeoutStep ==
  ASSUME IInv, NEW c \in Calls, AppendDefaultTimeout(c)
  PROVE  IInv'
<1> DEFINE o == DefaultTimeout(c)
<1>1. TypeOK /\ Appending(c) /\ count[c] = 0 /\ count[c] < 2
      /\ AppendOption(c, o) /\ UNCHANGED <<arg, opts, read, stage, deadline>>
  BY DEF IInv, AppendDefaultTimeout
<1>2. o \in DefaultTimeouts /\ o \in DefaultOption
  BY <1>1, Arguing DEF DefaultTimeouts, DefaultOption
<1> HIDE DEF o
<1>3. /\ array' \in [Slices -> [1 .. 2 -> DefaultOption \cup {Unset}]]
      /\ copied' \in [Calls -> BOOLEAN] /\ extra' \in [Calls -> Seq(DefaultOption)]
      /\ count' = [count EXCEPT ![c] = @ + 1]
      /\ IF copied'[c] THEN Len(extra'[c]) = count[c] + 1 ELSE count[c] + 1 <= Room(c)
      /\ Appended(c, count[c])' = o
  BY <1>1, <1>2, AppendOptionStep
<1>4. count'[c] = 1 /\ count' \in [Calls -> 0 .. 2]
  BY <1>1, <1>3 DEF TypeOK
<1>5. TypeOK'
  BY <1>1, <1>3, <1>4 DEF TypeOK
<1>6. Appending(c)'
  <2>1. Room(c)' = Room(c)
    BY <1>1 DEF Room
  <2>2. Appended(c, 1)' = o
    BY <1>3, <1>4 DEF Appended
  <2>3. stage'[c] = "appending"
    BY <1>1 DEF Appending
  <2> QED BY <1>1, <1>2, <1>3, <1>4, <2>1, <2>2, <2>3 DEF Appending
<1>7. ASSUME NEW d \in Calls PROVE Appending(d)'
  <2>1. CASE d = c
    BY <1>6, <2>1
  <2>2. CASE d # c
    BY <1>1, <1>2, <2>2, OthersAppending
  <2> QED BY <2>1, <2>2
<1>8. ASSUME NEW d \in Calls PROVE Reading(d)'
  BY <1>1, <1>8, ReadingStays DEF IInv
<1> QED BY <1>5, <1>7, <1>8 DEF IInv

LEMMA AppendDefaultFilterStep ==
  ASSUME IInv, NEW c \in Calls, AppendDefaultFilter(c)
  PROVE  IInv'
<1> DEFINE o == DefaultFilter(c)
<1>1. TypeOK /\ Appending(c) /\ count[c] = 1 /\ count[c] < 2 /\ stage[c] = "appending"
      /\ AppendOption(c, o) /\ UNCHANGED <<arg, opts, read, deadline>>
      /\ stage' = [stage EXCEPT ![c] = "reading"]
  BY DEF IInv, AppendDefaultFilter
<1>2. o \in DefaultFilterOptions /\ o \in DefaultOption /\ o = DefaultFilter(c)
  BY <1>1, Arguing DEF DefaultFilterOptions, DefaultOption
<1> HIDE DEF o
<1>3. /\ array' \in [Slices -> [1 .. 2 -> DefaultOption \cup {Unset}]]
      /\ copied' \in [Calls -> BOOLEAN] /\ extra' \in [Calls -> Seq(DefaultOption)]
      /\ count' = [count EXCEPT ![c] = @ + 1]
      /\ IF copied'[c] THEN Len(extra'[c]) = count[c] + 1 ELSE count[c] + 1 <= Room(c)
      /\ Appended(c, count[c])' = o /\ Appended(c, 1)' = Appended(c, 1)
  BY <1>1, <1>2, AppendOptionStep
<1>4. count'[c] = 2 /\ count' \in [Calls -> 0 .. 2]
  BY <1>1, <1>3 DEF TypeOK
<1>5. TypeOK'
  BY <1>1, <1>3, <1>4 DEF TypeOK
<1>6. Appending(c)'
  <2>1. Room(c)' = Room(c) /\ DefaultFilter(c)' = DefaultFilter(c)
    BY <1>1 DEF Room, DefaultFilter
  <2>2. Appended(c, 2)' = o
    BY <1>3, <1>4 DEF Appended
  <2>3. stage'[c] # "appending" /\ Appended(c, 1)' \in DefaultTimeouts
    BY <1>1, <1>3 DEF Appending, TypeOK
  <2> QED BY <1>1, <1>2, <1>3, <1>4, <2>1, <2>2, <2>3 DEF Appending
<1>7. ASSUME NEW d \in Calls PROVE Appending(d)'
  <2>1. CASE d = c
    BY <1>6, <2>1
  <2>2. CASE d # c
    <3>1. stage'[d] = stage[d]
      BY <1>1, <2>2 DEF TypeOK
    <3> QED BY <1>1, <1>2, <2>2, <3>1, OthersAppending
  <2> QED BY <2>1, <2>2
<1>8. ASSUME NEW d \in Calls PROVE Reading(d)'
  <2>1. stage'[d] = stage[d] \/ (stage[d] = "appending" /\ stage'[d] = "reading")
    BY <1>1 DEF TypeOK
  <2> QED BY <1>1, <2>1, ReadingStays DEF IInv
<1> QED BY <1>5, <1>7, <1>8 DEF IInv

\* The options that the call reads: its own, and after them what it appended.
LEMMA OptionIsRead ==
  ASSUME IInv, NEW c \in Calls, stage[c] = "reading", read[c] < Len(Given(c)) + 2
  PROVE  LET n == Len(Given(c))
             x == OptionAt(c, read[c] + 1)
         IN /\ read[c] < n => x = Given(c)[read[c] + 1] /\ x \in AnOption
            /\ read[c] = n => x \in DefaultTimeouts
            /\ read[c] = n + 1 => /\ x \in DefaultFilterOptions
                                  /\ SlicesApart => x = DefaultFilter(c)
            /\ read[c] < n \/ read[c] = n \/ read[c] = n + 1
<1> DEFINE n == Len(Given(c))
<1>1. TypeOK /\ Appending(c)
  BY DEF IInv
<1>2. Given(c) \in Seq(AnOption) /\ n \in Nat /\ read[c] \in Nat /\ count[c] = 2
  <2>1. count[c] \in 0 .. 2 /\ ~ (count[c] < 2)
    BY <1>1 DEF TypeOK, Appending
  <2> QED BY <1>1, <2>1, Arguing DEF TypeOK
<1>3. ASSUME NEW k \in 1 .. 2 PROVE OptionAt(c, n + k) = Appended(c, k)
  <2>1. ~ (n + k <= n) /\ n + k - n = k
    BY <1>2
  <2> QED BY <2>1 DEF OptionAt, Appended
<1>4. OptionAt(c, n + 1) \in DefaultTimeouts
  BY <1>1, <1>2, <1>3 DEF Appending
<1>5. OptionAt(c, n + 2) \in DefaultFilterOptions /\ (SlicesApart => OptionAt(c, n + 2) = DefaultFilter(c))
  BY <1>1, <1>2, <1>3 DEF Appending
<1>6. read[c] < n => OptionAt(c, read[c] + 1) = Given(c)[read[c] + 1]
                     /\ Given(c)[read[c] + 1] \in AnOption
  BY <1>2 DEF OptionAt
<1>7. /\ read[c] = n + 1 => read[c] + 1 = n + 2
      /\ read[c] < n \/ read[c] = n \/ read[c] = n + 1
  BY <1>2
<1> QED BY <1>4, <1>5, <1>6, <1>7

\* What the call that reads an option may do to its record.
Applied(c, new) == opts' = [opts EXCEPT ![c] = new] /\ UNCHANGED stage

LEMMA GivenIsApplied ==
  ASSUME TypeOK, NEW c \in Calls, NEW x \in AnOption, Apply(c, x)
  PROVE  Reject(c) \/ \E new \in OptsRecords : Applied(c, new) /\ Effect(x, opts[c], new)
<1>1. opts[c] \in OptsRecords
  BY DEF TypeOK, OptsRecords
<1>2. CASE x.sets \in {"targets", "endpoints"} /\ x.to \in SUBSET (Peers \cup {NilPeer})
  <2> DEFINE new == [opts[c] EXCEPT !.targets = x.to]
  <2>1. WithTargets(c, x.to) \/ Reject(c)
    BY <1>2 DEF Apply, WithTargetEndpoints
  <2>2. ASSUME ~ Reject(c)
        PROVE  NilPeer \notin x.to /\ opts' = [opts EXCEPT ![c] = new] /\ UNCHANGED stage
    BY <2>1, <2>2 DEF WithTargets
  <2>3. NilPeer \notin x.to => new \in OptsRecords
    BY <1>1, <1>2 DEF OptsRecords
  <2>4. Effect(x, opts[c], new)
    BY <1>2 DEF Effect
  <2> HIDE DEF new
  <2> QED BY <2>2, <2>3, <2>4 DEF Applied
<1>3. CASE x.sets = "filter" /\ x.to \in Filters \cup {NoFilter}
  <2> DEFINE new == [opts[c] EXCEPT !.filter = x.to]
  <2>1. opts' = [opts EXCEPT ![c].filter = x.to] /\ UNCHANGED stage
    BY <1>3 DEF Apply, SetField
  <2>2. opts' = [opts EXCEPT ![c] = new]
    BY <2>1
  <2>3. new \in OptsRecords
    BY <1>1, <1>3 DEF OptsRecords
  <2>4. Effect(x, opts[c], new)
    BY <1>3 DEF Effect
  <2> HIDE DEF new
  <2> QED BY <2>1, <2>2, <2>3, <2>4 DEF Applied
<1>4. CASE x.sets = "timeout" /\ x.of \in Types /\ x.to \in Nat
  <2> DEFINE new == [opts[c] EXCEPT !.timeouts[x.of] = x.to]
  <2>1. opts' = [opts EXCEPT ![c].timeouts[x.of] = x.to] /\ UNCHANGED stage
    BY <1>4 DEF Apply, SetField
  <2>2. opts' = [opts EXCEPT ![c] = new]
    BY <2>1
  <2>3. new = [opts[c] EXCEPT !.timeouts = [opts[c].timeouts EXCEPT ![x.of] = x.to]]
    OBVIOUS
  <2>4. Effect(x, opts[c], new)
    BY <1>4 DEF Effect
  <2> HIDE DEF new
  <2>5. new \in OptsRecords
    BY <1>1, <1>4, <2>3 DEF OptsRecords
  <2> QED BY <2>1, <2>2, <2>4, <2>5 DEF Applied
<1>5. CASE x.sets \in Fields /\ x.to \in Values
  <2> DEFINE new == [opts[c] EXCEPT !.plain[x.sets] = x.to]
  <2>1. opts' = [opts EXCEPT ![c].plain[x.sets] = x.to] /\ UNCHANGED stage
    BY <1>5 DEF Apply, SetField, Fields
  <2>2. opts' = [opts EXCEPT ![c] = new]
    BY <2>1
  <2>3. new = [opts[c] EXCEPT !.plain = [opts[c].plain EXCEPT ![x.sets] = x.to]]
    OBVIOUS
  <2>4. Effect(x, opts[c], new)
    BY <1>5 DEF Effect
  <2> HIDE DEF new
  <2>5. new \in OptsRecords
    BY <1>1, <1>5, <2>3 DEF OptsRecords
  <2> QED BY <2>1, <2>2, <2>4, <2>5 DEF Applied
<1> QED BY <1>2, <1>3, <1>4, <1>5, OptionKinds

\* The step of a call that reads an option, from what it makes of the record.
LEMMA OptionApplied ==
  ASSUME IInv, NEW c \in Calls, stage[c] = "reading", read[c] < Len(Given(c)) + 2,
         read' = [read EXCEPT ![c] = @ + 1],
         UNCHANGED <<arg, array, copied, extra, count, deadline>>,
         \/ Reject(c)
         \/ \E new \in OptsRecords :
              Applied(c, new) /\ Made(Given(c), read[c] + 1, Own(c), new)
  PROVE  IInv'
<1>1. TypeOK /\ \A d \in Calls : Appending(d) /\ Reading(d)
  BY DEF IInv
<1>2. /\ read[c] \in Nat /\ Len(Given(c)) \in Nat /\ Given(c)' = Given(c) /\ Own(c)' = Own(c)
      /\ read'[c] = read[c] + 1 /\ read' \in [Calls -> Nat]
      /\ \A d \in Calls \ {c} : read'[d] = read[d]
  BY <1>1, Arguing DEF TypeOK, Given, Own, DefaultFilter
<1>3. /\ opts' \in [Calls -> OptsRecords] /\ stage' \in [Calls -> {"appending", "reading", "ready", "failed"}]
      /\ \A d \in Calls \ {c} : opts'[d] = opts[d] /\ stage'[d] = stage[d]
      /\ \/ stage'[c] = "failed"
         \/ stage'[c] = "reading" /\ Made(Given(c), read[c] + 1, Own(c), opts'[c])
  <2>0. opts \in [Calls -> OptsRecords] /\ stage \in [Calls -> {"appending", "reading", "ready", "failed"}]
    BY <1>1 DEF TypeOK, OptsRecords
  <2>1. CASE Reject(c)
    BY <2>0, <2>1 DEF Reject
  <2>2. CASE ~ Reject(c)
    <3>1. PICK new \in OptsRecords : Applied(c, new) /\ Made(Given(c), read[c] + 1, Own(c), new)
      BY <2>2
    <3> QED BY <2>0, <3>1 DEF Applied
  <2> QED BY <2>1, <2>2
<1>4. TypeOK'
  BY <1>1, <1>2, <1>3 DEF TypeOK, OptsRecords
<1>5. ASSUME NEW d \in Calls PROVE Appending(d)'
  <2>1. stage'[d] = "appending" <=> stage[d] = "appending"
    BY <1>3
  <2> QED BY <1>1, <2>1, AppendingStays
<1>6. ASSUME NEW d \in Calls, d # c PROVE Reading(d)'
  BY <1>1, <1>2, <1>3, <1>6, ReadingStays
<1>7. Reading(c)'
  <2>1. stage'[c] # "failed" => Made(Given(c)', read'[c], Own(c)', opts'[c])
    BY <1>2, <1>3
  <2>2. read'[c] <= Len(Given(c)') + 2 /\ stage'[c] \notin {"appending", "ready"}
    BY <1>2, <1>3
  <2> QED BY <2>1, <2>2 DEF Reading
<1> QED BY <1>4, <1>5, <1>6, <1>7 DEF IInv

LEMMA ReadOptionStep ==
  ASSUME IInv, NEW c \in Calls, ReadOption(c)
  PROVE  IInv'
<1> DEFINE g == Given(c)
           n == Len(Given(c))
           x == OptionAt(c, read[c] + 1)
<1>1. /\ TypeOK /\ stage[c] = "reading" /\ read[c] < n + 2 /\ Apply(c, x)
      /\ read' = [read EXCEPT ![c] = @ + 1]
      /\ UNCHANGED <<arg, array, copied, extra, count, deadline>>
  BY DEF IInv, ReadOption
<1>2. /\ read[c] \in Nat /\ n \in Nat /\ g \in Seq(AnOption) /\ opts[c] \in OptsRecords
      /\ Made(g, read[c], Own(c), opts[c]) /\ DefaultFilter(c).to = Own(c)
      /\ \A t \in Types : Configured[t] \in Nat
  <2>1. Reading(c)
    BY DEF IInv
  <2> QED BY <1>1, <2>1, Arguing DEF TypeOK, OptsRecords, Reading
<1>3. /\ read[c] < n => x = g[read[c] + 1] /\ x \in AnOption
      /\ read[c] = n => x \in DefaultTimeouts
      /\ read[c] = n + 1 => x \in DefaultFilterOptions /\ (SlicesApart => x = DefaultFilter(c))
      /\ read[c] < n \/ read[c] = n \/ read[c] = n + 1
  BY <1>1, OptionIsRead
<1> SUFFICES \/ Reject(c)
             \/ \E new \in OptsRecords :
                  Applied(c, new) /\ Made(g, read[c] + 1, Own(c), new)
  BY <1>1, OptionApplied
<1> HIDE DEF g, n, x
<1>4. CASE read[c] < n
  <2>1. ASSUME NEW new \in OptsRecords, Effect(x, opts[c], new)
        PROVE  Made(g, read[c] + 1, Own(c), new)
    BY <1>2, <1>3, <1>4, <2>1, GivenIsMade DEF n, g
  <2> QED BY <1>1, <1>3, <1>4, <2>1, GivenIsApplied
<1>5. CASE read[c] = n
  <2>1. PICK t \in Types : x.sets = "defaultTimeout" /\ x.of = t
    BY <1>3, <1>5 DEF DefaultTimeouts
  <2> DEFINE new == [opts[c] EXCEPT !.timeouts[t] = IF @ = 0 THEN Configured[t] ELSE @]
  <2>2. opts' = [opts EXCEPT ![c].timeouts[t] = IF @ = 0 THEN Configured[t] ELSE @] /\ UNCHANGED stage
    BY <1>1, <2>1 DEF Apply, SetDefaultTimeout
  <2>3. Applied(c, new)
    BY <2>2 DEF Applied
  <2>4. new = [opts[c] EXCEPT !.timeouts = [opts[c].timeouts EXCEPT ![t] =
                 IF opts[c].timeouts[t] = 0 THEN Configured[t] ELSE opts[c].timeouts[t]]]
    OBVIOUS
  <2>5. new \in OptsRecords
    <3>1. (IF opts[c].timeouts[t] = 0 THEN Configured[t] ELSE opts[c].timeouts[t]) \in Nat
      BY <1>2 DEF OptsRecords
    <3> QED BY <1>2, <2>4, <3>1 DEF OptsRecords
  <2>6. Made(g, n + 1, Own(c), new)
    <3>1. Len(g) = n
      BY DEF g, n
    <3> QED BY <1>2, <1>5, <2>5, <3>1, TimeoutIsMade
  <2> HIDE DEF new
  <2> QED BY <1>5, <2>3, <2>5, <2>6
<1>6. CASE read[c] = n + 1
  <2>1. PICK f \in DefaultFilters : x.sets = "defaultFilter" /\ x.to = f
    BY <1>3, <1>6 DEF DefaultFilterOptions
  <2> DEFINE new == [opts[c] EXCEPT !.filter =
                       IF opts[c].targets = {} /\ opts[c].filter = NoFilter THEN f ELSE @]
  <2>2. opts' = [opts EXCEPT ![c].filter =
                   IF opts[c].targets = {} /\ opts[c].filter = NoFilter THEN f ELSE @]
        /\ UNCHANGED stage
    BY <1>1, <2>1 DEF Apply, SetDefaultFilter
  <2>3. Applied(c, new)
    BY <2>2 DEF Applied
  <2>4. new \in OptsRecords
    BY <1>2 DEF OptsRecords
  <2>5. SlicesApart => f = Own(c)
    BY <1>2, <1>3, <1>6, <2>1
  <2>6. Made(g, n + 2, Own(c), new)
    <3>1. Len(g) = n
      BY DEF g, n
    <3> QED BY <1>2, <1>6, <2>4, <2>5, <3>1, FilterIsMade
  <2>7. read[c] + 1 = n + 2
    BY <1>2, <1>6
  <2> HIDE DEF new
  <2> QED BY <2>3, <2>4, <2>6, <2>7
<1> QED BY <1>3, <1>4, <1>5, <1>6

\* The context's timeout goes into the record, where it stands for the configured one.
LEMMA ContextIsMade ==
  ASSUME NEW g \in Seq(AnOption), NEW own, NEW o \in OptsRecords, NEW limit,
         Made(g, Len(g) + 2, own, o),
         limit = IF o.timeouts["execute"] = 0 THEN Configured["execute"] ELSE o.timeouts["execute"]
  PROVE  Made(g, Len(g) + 2, own, [o EXCEPT !.timeouts["execute"] = limit])
<1> DEFINE new == [o EXCEPT !.timeouts["execute"] = limit]
           r == Len(g) + 2
<1>0. r \in Nat /\ r > Len(g) /\ ~ (r < Len(g) + 2) /\ "execute" \in Types
  BY DEF Types
<1>1. /\ new.targets = o.targets /\ new.filter = o.filter /\ new.plain = o.plain
      /\ \A s \in Types :
           new.timeouts[s] = IF s = "execute" THEN limit ELSE o.timeouts[s]
  <2>1. new = [o EXCEPT !.timeouts = [o.timeouts EXCEPT !["execute"] = limit]]
    OBVIOUS
  <2> QED BY <2>1 DEF OptsRecords
<1>2. ASSUME NEW s \in Types
      PROVE  \E v \in Nat :
               /\ Final(g, TimeoutPlacesIn(g, s), r, 0, v)
               /\ new.timeouts[s] = v \/ (r > Len(g) /\ v = 0 /\ new.timeouts[s] = Configured[s])
  <2>1. PICK v \in Nat : /\ Final(g, TimeoutPlacesIn(g, s), r, 0, v)
                         /\ o.timeouts[s] = v \/ (v = 0 /\ o.timeouts[s] = Configured[s])
    BY DEF Made
  <2>2. new.timeouts[s] = v \/ (v = 0 /\ new.timeouts[s] = Configured[s])
    BY <1>1, <2>1
  <2> QED BY <1>0, <2>1, <2>2
<1> HIDE DEF new, r
<1>3. Made(g, r, own, new)
  <2>1. Made(g, r, own, o)
    BY DEF r
  <2>2. /\ Final(g, PlacesIn(g, {"targets", "endpoints"}), r, {}, new.targets)
        /\ \A f \in Fields : Final(g, PlacesIn(g, {f}), r, Unset, new.plain[f])
    BY <1>1, <2>1 DEF Made
  <2>3. \E f \in Filters \cup {NoFilter} :
          /\ Final(g, PlacesIn(g, {"filter"}), r, NoFilter, f)
          /\ IF r < Len(g) + 2 \/ f # NoFilter \/ new.targets # {} THEN new.filter = f
             ELSE new.filter \in DefaultFilters /\ (SlicesApart => new.filter = own)
    BY <1>1, <2>1 DEF Made
  <2> QED BY <1>2, <2>2, <2>3 DEF Made
<1> QED BY <1>3 DEF new, r

LEMMA CreateReqContextStep ==
  ASSUME IInv, NEW c \in Calls, CreateReqContext(c)
  PROVE  IInv'
<1> DEFINE limit == Deadline(c)
           new == [opts[c] EXCEPT !.timeouts["execute"] = limit]
           soon == Sooner(limit, opts[c].plain["parent"])
<1>1. /\ TypeOK /\ stage[c] = "reading" /\ read[c] = Len(Given(c)) + 2
      /\ deadline' = [deadline EXCEPT ![c] = soon]
      /\ opts' = [opts EXCEPT ![c] = new]
      /\ stage' = [stage EXCEPT ![c] = "ready"]
      /\ UNCHANGED <<arg, array, copied, extra, count, read>>
  BY DEF IInv, CreateReqContext
<1>2. /\ Given(c) \in Seq(AnOption) /\ opts[c] \in OptsRecords /\ "execute" \in Types
      /\ \A t \in Types : Configured[t] \in Nat \ {0}
  BY <1>1, Arguing DEF TypeOK, OptsRecords, Types
<1>3. limit = IF opts[c].timeouts["execute"] = 0 THEN Configured["execute"]
              ELSE opts[c].timeouts["execute"]
  BY DEF Deadline
<1>4. limit \in Nat /\ limit # 0 /\ soon \in Nat
  BY <1>2, <1>3, ParentsEnd DEF OptsRecords, Sooner
<1>5. Made(Given(c), Len(Given(c)) + 2, Own(c), new)
  <2>1. Made(Given(c), Len(Given(c)) + 2, Own(c), opts[c])
    BY <1>1 DEF IInv, Reading
  <2> QED BY <1>2, <1>3, <2>1, ContextIsMade
<1>6. /\ new \in OptsRecords /\ new.timeouts["execute"] = limit
      /\ new.plain = opts[c].plain
  <2>1. new = [opts[c] EXCEPT !.timeouts = [opts[c].timeouts EXCEPT !["execute"] = limit]]
    OBVIOUS
  <2> QED BY <1>2, <1>4, <2>1 DEF OptsRecords
<1>61. soon = Sooner(limit, new.plain["parent"])
  BY <1>6
<1> HIDE DEF new, limit, soon
<1>7. TypeOK'
  BY <1>1, <1>4, <1>6 DEF TypeOK, OptsRecords
<1>8. ASSUME NEW d \in Calls PROVE Appending(d)'
  <2>1. stage'[d] = "appending" <=> stage[d] = "appending"
    BY <1>1 DEF TypeOK
  <2> QED BY <1>1, <2>1, AppendingStays DEF IInv
<1>9. ASSUME NEW d \in Calls, d # c PROVE Reading(d)'
  <2>1. stage'[d] = stage[d] /\ opts'[d] = opts[d] /\ deadline'[d] = deadline[d] /\ read'[d] = read[d]
    BY <1>1, <1>9 DEF TypeOK
  <2> QED BY <1>1, <2>1, ReadingStays DEF IInv
<1>10. Reading(c)'
  <2>1. Given(c)' = Given(c) /\ Own(c)' = Own(c)
    BY <1>1 DEF Given, Own, DefaultFilter
  <2>2. stage'[c] = "ready" /\ opts'[c] = new /\ deadline'[c] = soon /\ read'[c] = read[c]
    BY <1>1 DEF TypeOK
  <2>3. read[c] <= Len(Given(c)) + 2
    BY <1>1 DEF IInv, Reading
  <2> QED BY <1>1, <1>4, <1>5, <1>6, <1>61, <2>1, <2>2, <2>3 DEF Reading, Sooner
<1> QED BY <1>7, <1>8, <1>9, <1>10 DEF IInv

LEMMA NextIInv == IInv /\ [Next]_vars => IInv'
<1> SUFFICES ASSUME IInv, [Next]_vars PROVE IInv'
  OBVIOUS
<1>1. CASE Next
  BY <1>1, AppendDefaultTimeoutStep, AppendDefaultFilterStep, ReadOptionStep, CreateReqContextStep
  DEF Next
<1>2. CASE UNCHANGED vars
  <2>1. TypeOK'
    BY <1>2 DEF IInv, TypeOK, vars
  <2>2. ASSUME NEW c \in Calls PROVE Appending(c)' /\ Reading(c)'
    BY <1>2, AppendingStays, ReadingStays DEF IInv, vars
  <2> QED BY <2>1, <2>2 DEF IInv
<1> QED BY <1>1, <1>2

LEMMA InvariantHolds == Spec => []IInv
BY InitIInv, NextIInv, PTL DEF Spec

\* What the record holds when the call is ready, in terms of the given options.
LEMMA ReadyRecord ==
  ASSUME IInv, NEW c \in Calls, stage[c] = "ready"
  PROVE  /\ opts[c].targets = GivenTargets(c)
         /\ \A f \in Fields : opts[c].plain[f] = GivenField(c, f)
         /\ \A t \in Types :
              \/ opts[c].timeouts[t] = GivenTimeout(c, t)
              \/ GivenTimeout(c, t) = 0 /\ opts[c].timeouts[t] = Configured[t]
         /\ IF GivenFilter(c) # NoFilter \/ GivenTargets(c) # {} THEN opts[c].filter = GivenFilter(c)
            ELSE SlicesApart => opts[c].filter = DefaultFilter(c).to
<1> DEFINE g == Given(c)
           r == Len(Given(c)) + 2
<1>1. /\ g \in Seq(AnOption) /\ r \in Nat /\ Made(g, r, Own(c), opts[c])
      /\ ~ (r < Len(g) + 2) /\ DefaultFilter(c).to = Own(c)
  <2>1. TypeOK /\ Reading(c)
    BY DEF IInv
  <2>2. g \in Seq(AnOption) /\ r \in Nat /\ DefaultFilter(c).to = Own(c)
    BY <2>1, Arguing
  <2>3. Made(g, r, Own(c), opts[c])
    BY <2>1 DEF Reading
  <2> QED BY <2>2, <2>3
<1>2. ASSUME NEW kinds, NEW t
      PROVE  /\ PlacesIn(g, kinds) = Places(c, kinds)
             /\ TimeoutPlacesIn(g, t) = TimeoutPlaces(c, t)
  BY DEF PlacesIn, TimeoutPlacesIn, Places, TimeoutPlaces
<1>3. ASSUME NEW kinds, NEW t
      PROVE  /\ PlacesIn(g, kinds) \in SUBSET Nat /\ \A i \in PlacesIn(g, kinds) : i <= r
             /\ TimeoutPlacesIn(g, t) \in SUBSET Nat /\ \A i \in TimeoutPlacesIn(g, t) : i <= r
  <2>1. /\ PlacesIn(g, kinds) \in SUBSET (1 .. Len(g))
        /\ TimeoutPlacesIn(g, t) \in SUBSET (1 .. Len(g))
    BY <1>1, PlacesAreNumbers
  <2> QED BY <1>1, <2>1
<1>4. ASSUME NEW P \in SUBSET Nat, \A i \in P : i <= r, NEW default, NEW value,
             Final(g, P, r, default, value)
      PROVE  value = LastOf(c, P, default)
  BY <1>1, <1>4, FinalIsLast DEF LastOf
<1> HIDE DEF r
<1>5. opts[c].targets = GivenTargets(c)
  <2>1. Final(g, PlacesIn(g, {"targets", "endpoints"}), r, {}, opts[c].targets)
    BY <1>1 DEF Made
  <2> QED BY <1>2, <1>3, <1>4, <2>1 DEF GivenTargets
<1>6. ASSUME NEW f \in Fields PROVE opts[c].plain[f] = GivenField(c, f)
  <2>1. Final(g, PlacesIn(g, {f}), r, Unset, opts[c].plain[f])
    BY <1>1 DEF Made
  <2> QED BY <1>2, <1>3, <1>4, <2>1 DEF GivenField
<1>7. ASSUME NEW t \in Types
      PROVE  \/ opts[c].timeouts[t] = GivenTimeout(c, t)
             \/ GivenTimeout(c, t) = 0 /\ opts[c].timeouts[t] = Configured[t]
  <2>1. PICK v \in Nat : /\ Final(g, TimeoutPlacesIn(g, t), r, 0, v)
                         /\ opts[c].timeouts[t] = v \/ (v = 0 /\ opts[c].timeouts[t] = Configured[t])
    BY <1>1 DEF Made
  <2>2. v = GivenTimeout(c, t)
    BY <1>2, <1>3, <1>4, <2>1 DEF GivenTimeout
  <2> QED BY <2>1, <2>2
<1>8. IF GivenFilter(c) # NoFilter \/ GivenTargets(c) # {} THEN opts[c].filter = GivenFilter(c)
      ELSE SlicesApart => opts[c].filter = DefaultFilter(c).to
  <2>1. PICK f \in Filters \cup {NoFilter} :
          /\ Final(g, PlacesIn(g, {"filter"}), r, NoFilter, f)
          /\ IF f # NoFilter \/ opts[c].targets # {} THEN opts[c].filter = f
             ELSE SlicesApart => opts[c].filter = Own(c)
    BY <1>1 DEF Made
  <2>2. f = GivenFilter(c)
    BY <1>2, <1>3, <1>4, <2>1 DEF GivenFilter
  <2> QED BY <1>1, <1>5, <2>1, <2>2
<1> QED BY <1>5, <1>6, <1>7, <1>8

-------------------------------------------------------------------------------
\* The variables keep their types, for option lists of any length; in particular,
\* no nil gets among the targets (WithTargets).
THEOREM TypeCorrect == Spec => []TypeOK
BY InvariantHolds, PTL DEF IInv

\* The caller's last word on each option prevails over the defaults that are
\* applied after it, however many calls share the slice and its room
\* (addDefaultTimeout, addDefaultTargetFilter, prepareOptsFromOptions).
THEOREM OptionsPrevail == Spec => []GivenOptionsPrevail
<1>1. IInv => GivenOptionsPrevail
  BY ReadyRecord DEF GivenOptionsPrevail
<1> QED BY <1>1, InvariantHolds, PTL

\* The deadline of a request is that of its Execute timeout or of its parent context,
\* whatever other calls do to the slice (createReqContext).
THEOREM DeadlineHolds == Spec => []DeadlineIsEarliest
<1>1. IInv => DeadlineIsEarliest
  <2> SUFFICES ASSUME IInv, NEW c \in Calls, stage[c] = "ready"
               PROVE  /\ deadline[c] = Sooner(ExecuteTimeout(c), GivenField(c, "parent"))
                      /\ opts[c].timeouts["execute"] = ExecuteTimeout(c)
    BY DEF DeadlineIsEarliest
  <2>1. /\ opts[c].timeouts["execute"] # 0
        /\ deadline[c] = Sooner(opts[c].timeouts["execute"], opts[c].plain["parent"])
    BY DEF IInv, Reading
  <2>2. \/ opts[c].timeouts["execute"] = GivenTimeout(c, "execute")
        \/ /\ GivenTimeout(c, "execute") = 0
           /\ opts[c].timeouts["execute"] = Configured["execute"]
    BY ReadyRecord DEF Types
  <2>3. opts[c].plain["parent"] = GivenField(c, "parent")
    BY ReadyRecord DEF Fields
  <2>4. opts[c].timeouts["execute"] = ExecuteTimeout(c)
    BY <2>1, <2>2 DEF ExecuteTimeout
  <2> QED BY <2>1, <2>3, <2>4
<1> QED BY <1>1, InvariantHolds, PTL

\* If calls that share a slice find no room in it, the default filter is that of
\* the request's own method: the shared array is the only way to another's.
THEOREM FilterIsOwn == ASSUME SlicesApart PROVE Spec => []FilterIsPerRequest
<1>1. IInv => FilterIsPerRequest
  BY ReadyRecord DEF FilterIsPerRequest
<1> QED BY <1>1, InvariantHolds, PTL
===============================================================================
