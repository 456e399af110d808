--------------------------- MODULE Orderers_proofs ---------------------------
(***************************************************************************)
(* Proofs about Orderers, for every endpoint configuration and every       *)
(* channel configuration.  The inductive invariant says which entries have *)
(* been turned into orderers when the loops are under way.                 *)
(***************************************************************************)
EXTENDS Orderers, WellFoundedInduction, TLAPS

Progress ==
  /\ stage = "start" => orderers = <<>> /\ next = 1
  /\ stage = "channel" =>
       /\ next <= Len(env.channel) + 1
       /\ AreEntries(orderers, UsableOfChannel, next)
  /\ stage = "block" =>
       /\ next <= Len(env.block) + 1
       /\ UsableOfChannel = {}
       /\ AreEntries(orderers, UsableOfBlock, next)
  /\ stage # "returned" => err = "none"

IInv == TypeOK /\ Progress /\ SettingsAreUsed /\ AllUsableInOrder

-------------------------------------------------------------------------------
(* Lemmas.                                                                   *)

Entry == [settings : Settings, entry : Nat \ {0}]

LEMMA EntriesInDomain ==
  ASSUME NEW os \in Seq(Entry)
  PROVE  /\ Len(os) \in Nat /\ DOMAIN os = 1 .. Len(os)
         /\ \A k \in DOMAIN os : os[k] \in Entry /\ os[k].entry \in Nat \ {0}
<1>1. Len(os) \in Nat /\ DOMAIN os = 1 .. Len(os) /\ \A k \in DOMAIN os : os[k] \in Entry
  OBVIOUS
<1> QED
  BY <1>1 DEF Entry

\* An entry that is not chosen may be skipped.
LEMMA SkipEntry ==
  ASSUME NEW os \in Seq(Entry), NEW chosen, NEW n \in Nat \ {0},
         chosen \subseteq Nat, n \notin chosen, AreEntries(os, chosen, n)
  PROVE  AreEntries(os, chosen, n + 1)
<1>1. \A k \in DOMAIN os : os[k].entry \in Nat
  BY EntriesInDomain
<1> QED
  BY <1>1 DEF AreEntries

\* One that is chosen is appended.
LEMMA AppendEntry ==
  ASSUME NEW os \in Seq(Entry), NEW chosen, NEW n \in Nat \ {0}, NEW e \in Entry,
         chosen \subseteq Nat, n \in chosen, e.entry = n, AreEntries(os, chosen, n)
  PROVE  AreEntries(Append(os, e), chosen, n + 1)
<1> DEFINE new == Append(os, e)
<1>1. /\ DOMAIN os = 1 .. Len(os)
      /\ DOMAIN new = 1 .. Len(os) + 1
      /\ Len(os) \in Nat
      /\ \A k \in 1 .. Len(os) : new[k] = os[k] /\ os[k].entry \in Nat
      /\ new[Len(os) + 1] = e
  BY EntriesInDomain
<1> HIDE DEF new
<1>2. ASSUME NEW k \in DOMAIN new
      PROVE  new[k].entry < n + 1 /\ new[k].entry \in chosen
  BY <1>1, <1>2 DEF AreEntries
<1>3. ASSUME NEW j \in DOMAIN new, NEW k \in DOMAIN new, j < k
      PROVE  new[j].entry < new[k].entry
  BY <1>1, <1>3 DEF AreEntries
<1>4. ASSUME NEW i \in chosen, i < n + 1
      PROVE  \E k \in DOMAIN new : new[k].entry = i
  <2>1. CASE i = n
    BY <1>1, <2>1
  <2>2. CASE i < n
    <3>1. PICK k \in DOMAIN os : os[k].entry = i
      BY <2>2 DEF AreEntries
    <3> QED
      BY <1>1, <3>1
  <2> QED
    BY <1>4, <2>1, <2>2
<1> QED
  BY <1>2, <1>3, <1>4 DEF AreEntries, new

Less == {ss \in Nat \X Nat : ss[1] < ss[2]}

LEMMA LessIsWellFounded == IsWellFoundedOn(Less, Nat)
  BY NatLessThanWellFounded, Zenon DEF OpToRel, Less

\* The last configuration of an address is one with that address.
LEMMA LastIsListed ==
  ASSUME NEW target \in Keys, env.listed \in Seq(URLs), ListedAt(target) # {}
  PROVE  LastListed(target) \in ListedAt(target)
<1> DEFINE n == Len(env.listed)
           Distances == {d \in Nat : n - d \in ListedAt(target)}
<1>1. n \in Nat /\ ListedAt(target) \subseteq 1 .. n
  BY DEF ListedAt
<1>2. PICK i \in ListedAt(target) : TRUE
  OBVIOUS
<1>3. Distances \subseteq Nat /\ n - i \in Distances
  BY <1>1, <1>2
<1>4. PICK d \in Distances : \A e \in Distances : ~ (<<e, d>> \in Less)
  <2> HIDE DEF Distances, Less
  <2> QED
    BY <1>3, LessIsWellFounded, WFMin
<1>5. \A e \in Distances : ~ (e < d)
  BY <1>4 DEF Less
<1>6. n - d \in ListedAt(target)
  OBVIOUS
<1>7. \A k \in ListedAt(target) : k <= n - d
  <2> SUFFICES ASSUME NEW k \in ListedAt(target), n - d < k
               PROVE  FALSE
    BY <1>1
  <2>1. n - k \in Distances
    BY <1>1
  <2> QED
    BY <1>1, <1>5, <2>1
<1> QED
  BY <1>6, <1>7 DEF LastListed

\* Whatever an orderer is created with are settings.
LEMMA SettingsTyped ==
  ASSUME TypeOK, NEW key \in Keys
  PROVE  /\ Found(key) => Known(env.lookup[key].url) \in Settings
         /\ BlockSettings(key) \in Settings
<1>1. env.lookup \in [Keys -> Answers] /\ env.listed \in Seq(URLs)
  BY EnvsAreConfigs DEF TypeOK
<1>2. \A k \in Keys : Found(k) => env.lookup[k].url \in URLs
  BY <1>1 DEF Found, Answers
<1>3. ListedAt(key) # {} => env.listed[LastListed(key)] \in URLs
  BY <1>1, LastIsListed DEF ListedAt
<1>4. Lower[key] \in Keys
  BY KeysAreLowered
<1> QED
  BY <1>2, <1>3, <1>4 DEF BlockSettings, Settings, Known, Bare

\* Bare settings are for a target that is not known.
LEMMA BareIsUnknown ==
  ASSUME TypeOK, NEW target \in Keys, ~ BlockSettings(target).known
  PROVE  /\ BlockSettings(target).url = target
         /\ ListedAt(target) = {}
         /\ ~ Found(Lower[target])
  BY DEF BlockSettings, Known, Bare

-------------------------------------------------------------------------------
(* Every step preserves the invariant.                                       *)

LEMMA InitInvariant == Init => IInv
<1> SUFFICES ASSUME Init PROVE IInv
  OBVIOUS
<1>1. TypeOK
  BY DEF Init, TypeOK
<1>2. orderers = <<>> /\ stage = "start" /\ next = 1 /\ err = "none"
  BY DEF Init
<1> QED
  BY <1>1, <1>2 DEF IInv, Progress, SettingsAreUsed, AllUsableInOrder

\* A failure leaves no orderers.
LEMMA FailInvariant ==
  ASSUME IInv, NEW why \in {"config", "context", "create"}, Fail(why)
  PROVE  IInv'
<1>1. TypeOK'
  BY DEF Fail, IInv, TypeOK
<1>2. SettingsAreUsed'
  BY DEF Fail, SettingsAreUsed
<1>3. Progress' /\ AllUsableInOrder'
  BY DEF Fail, Progress, AllUsableInOrder
<1> QED
  BY <1>1, <1>2, <1>3 DEF IInv

\* In both loops: one that is created is appended, for an entry that is chosen.
LEMMA CreateInvariant ==
  ASSUME IInv, NEW settings \in Settings, NEW chosen \in SUBSET Nat,
         stage \in {"channel", "block"},
         stage = "channel" => chosen = UsableOfChannel /\ next <= Len(env.channel),
         stage = "block" => chosen = UsableOfBlock /\ next <= Len(env.block),
         next \in chosen,
         ~ settings.known =>
           /\ ListedAt(settings.url) = {}
           /\ ~ Found(Lower[settings.url]),
         Create(settings)
  PROVE  IInv'
<1>1. CASE Fail("create")
  BY <1>1, FailInvariant
<1>2. CASE /\ orderers' = Append(orderers, [settings |-> settings, entry |-> next])
           /\ next' = next + 1
           /\ UNCHANGED <<env, stage, err>>
  <2> DEFINE e == [settings |-> settings, entry |-> next]
  <2>1. e \in Entry /\ orderers \in Seq(Entry) /\ next \in Nat \ {0}
    BY DEF IInv, TypeOK, Entry
  <2>2. TypeOK'
    <3>1. orderers' \in Seq(Entry)
      BY <1>2, <2>1
    <3> QED
      BY <1>2, <2>1, <3>1 DEF IInv, TypeOK, Entry
  <2>3. AreEntries(orderers, chosen, next)
    BY DEF IInv, Progress
  <2>4. AreEntries(orderers', chosen, next + 1)
    BY <1>2, <2>1, <2>3, AppendEntry
  <2>5. UsableOfChannel' = UsableOfChannel /\ UsableOfBlock' = UsableOfBlock
    BY <1>2 DEF UsableOfChannel, UsableOfBlock, Found, Ignored, ListedAt
  <2>6. Progress'
    <3>1. Len(env.channel) \in Nat /\ Len(env.block) \in Nat
      BY EnvsAreConfigs DEF IInv, TypeOK
    <3> QED
      BY <1>2, <2>1, <2>4, <2>5, <3>1 DEF IInv, Progress
  <2>7. SettingsAreUsed'
    <3>1. /\ DOMAIN orderers = 1 .. Len(orderers)
          /\ DOMAIN orderers' = 1 .. Len(orderers) + 1
          /\ \A k \in DOMAIN orderers : orderers'[k] = orderers[k]
          /\ orderers'[Len(orderers) + 1].settings = settings
          /\ Len(orderers) \in Nat
      BY <1>2, <2>1
    <3>2. SettingsAreUsed
      BY DEF IInv
    <3>3. ~ settings.known =>
             /\ \A j \in DOMAIN env.listed : Address[env.listed[j]] # settings.url
             /\ env.lookup[Lower[settings.url]].url = NoURL
      BY DEF ListedAt, Found
    <3> QED
      BY <1>2, <3>1, <3>2, <3>3 DEF SettingsAreUsed
  <2>8. AllUsableInOrder'
    BY <1>2 DEF AllUsableInOrder
  <2> QED
    BY <2>2, <2>6, <2>7, <2>8 DEF IInv
<1> QED
  BY <1>1, <1>2 DEF Create

\* One that is not chosen is skipped.
LEMMA SkipInvariant ==
  ASSUME IInv, NEW chosen \in SUBSET Nat,
         stage \in {"channel", "block"},
         stage = "channel" => chosen = UsableOfChannel /\ next <= Len(env.channel),
         stage = "block" => chosen = UsableOfBlock /\ next <= Len(env.block),
         next \notin chosen,
         Skip
  PROVE  IInv'
<1>1. orderers \in Seq(Entry) /\ next \in Nat \ {0}
  BY DEF IInv, TypeOK, Entry
<1>2. AreEntries(orderers', chosen, next + 1)
  <2>1. AreEntries(orderers, chosen, next)
    BY DEF IInv, Progress
  <2> QED
    BY <1>1, <2>1, SkipEntry DEF Skip
<1>3. UsableOfChannel' = UsableOfChannel /\ UsableOfBlock' = UsableOfBlock
  BY DEF Skip, UsableOfChannel, UsableOfBlock, Found, Ignored, ListedAt
<1>4. Progress'
  <2>1. Len(env.channel) \in Nat /\ Len(env.block) \in Nat
    BY EnvsAreConfigs DEF IInv, TypeOK
  <2> QED
    BY <1>1, <1>2, <1>3, <2>1 DEF IInv, Progress, Skip
<1>5. TypeOK' /\ SettingsAreUsed' /\ AllUsableInOrder'
  BY DEF IInv, TypeOK, Skip, SettingsAreUsed, AllUsableInOrder
<1> QED
  BY <1>4, <1>5 DEF IInv

LEMMA StepInvariant == IInv /\ [Next]_vars => IInv'
<1> SUFFICES ASSUME IInv, [Next]_vars PROVE IInv'
  OBVIOUS
<1>0. /\ env.channel \in Seq(Keys) /\ env.block \in Seq(Keys)
      /\ UsableOfChannel \in SUBSET Nat /\ UsableOfBlock \in SUBSET Nat
      /\ next \in Nat \ {0}
  BY EnvsAreConfigs DEF IInv, TypeOK, UsableOfChannel, UsableOfBlock
<1>1. CASE NoChannelConfig \/ NoClientContext
  BY <1>1, FailInvariant DEF NoChannelConfig, NoClientContext
<1>2. CASE Start
  <2>1. TypeOK' /\ SettingsAreUsed' /\ AllUsableInOrder'
    BY <1>2 DEF Start, IInv, TypeOK, SettingsAreUsed, AllUsableInOrder
  <2>2. next' = 1 /\ stage' = "channel" /\ err' = "none" /\ orderers' = <<>> /\ env' = env
    BY <1>2 DEF Start, IInv, Progress
  <2>3. AreEntries(orderers, UsableOfChannel, next)'
    <3>1. UsableOfChannel' = UsableOfChannel /\ \A i \in UsableOfChannel : ~ (i < 1)
      BY <1>0, <2>2 DEF UsableOfChannel, Found, Ignored
    <3> QED
      BY <2>2, <3>1 DEF AreEntries
  <2> QED
    BY <1>0, <2>1, <2>2, <2>3 DEF IInv, Progress
<1>3. CASE ChannelOrderer
  <2>1. CASE next \in UsableOfChannel
    <3>1. env.channel[next] \in Keys /\ Found(env.channel[next])
      BY <1>0, <2>1 DEF UsableOfChannel
    <3>2. Known(env.lookup[env.channel[next]].url) \in Settings
      BY <3>1, SettingsTyped DEF IInv
    <3> QED
      BY <1>0, <1>3, <2>1, <3>2, CreateInvariant DEF ChannelOrderer, Known
  <2>2. CASE next \notin UsableOfChannel
    BY <1>0, <1>3, <2>2, SkipInvariant DEF ChannelOrderer
  <2> QED
    BY <2>1, <2>2
<1>4. CASE BlockOrderer
  <2>1. CASE next \in UsableOfBlock
    <3>1. env.block[next] \in Keys
      BY <1>0, <2>1 DEF UsableOfBlock
    <3>2. BlockSettings(env.block[next]) \in Settings
      BY <3>1, SettingsTyped DEF IInv
    <3>3. ~ BlockSettings(env.block[next]).known =>
            /\ ListedAt(BlockSettings(env.block[next]).url) = {}
            /\ ~ Found(Lower[BlockSettings(env.block[next]).url])
      BY <3>1, BareIsUnknown DEF IInv
    <3> QED
      BY <1>0, <1>4, <2>1, <3>2, <3>3, CreateInvariant DEF BlockOrderer
  <2>2. CASE next \notin UsableOfBlock
    BY <1>0, <1>4, <2>2, SkipInvariant DEF BlockOrderer
  <2> QED
    BY <2>1, <2>2
<1>5. CASE EndOfChannel
  <2>1. /\ TypeOK' /\ SettingsAreUsed' /\ env' = env /\ orderers' = orderers /\ err' = err
        /\ UsableOfChannel' = UsableOfChannel /\ UsableOfBlock' = UsableOfBlock
    BY <1>5 DEF EndOfChannel, IInv, TypeOK, SettingsAreUsed, UsableOfChannel,
                UsableOfBlock, Found, Ignored, ListedAt
  <2>2. next = Len(env.channel) + 1 /\ AreEntries(orderers, UsableOfChannel, next)
    BY <1>0, <1>5 DEF EndOfChannel, IInv, Progress
  <2>3. UsableOfChannel = {} <=> orderers = <<>>
    <3>1. \A i \in UsableOfChannel : i < next
      BY <1>0, <2>2 DEF UsableOfChannel
    <3>2. orderers \in Seq(Entry)
      BY DEF IInv, TypeOK, Entry
    <3> QED
      BY <2>2, <3>1, <3>2 DEF AreEntries
  <2>4. CASE orderers = <<>>
    <3>1. AreEntries(orderers, UsableOfBlock, 1)
      BY <1>0, <2>4 DEF AreEntries, UsableOfBlock
    <3>2. stage' = "block" /\ next' = 1 /\ err = "none"
      BY <1>5, <2>4 DEF EndOfChannel, IInv, Progress
    <3>3. Len(env.block) \in Nat
      BY <1>0
    <3> QED
      BY <2>1, <2>3, <2>4, <3>1, <3>2, <3>3 DEF IInv, Progress, AllUsableInOrder
  <2>5. CASE orderers # <<>>
    BY <1>5, <2>1, <2>2, <2>3, <2>5 DEF EndOfChannel, IInv, Progress, AllUsableInOrder
  <2> QED
    BY <2>4, <2>5
<1>6. CASE EndOfBlock
  <2>1. /\ TypeOK' /\ SettingsAreUsed' /\ env' = env /\ orderers' = orderers /\ err' = err
        /\ UsableOfChannel' = UsableOfChannel /\ UsableOfBlock' = UsableOfBlock
        /\ stage' = "returned"
    BY <1>6 DEF EndOfBlock, IInv, TypeOK, SettingsAreUsed, UsableOfChannel,
                UsableOfBlock, Found, Ignored, ListedAt
  <2>2. /\ next = Len(env.block) + 1 /\ UsableOfChannel = {}
        /\ AreEntries(orderers, UsableOfBlock, next)
    BY <1>0, <1>6 DEF EndOfBlock, IInv, Progress
  <2> QED
    BY <2>1, <2>2 DEF IInv, Progress, AllUsableInOrder
<1>7. CASE UNCHANGED vars
  BY <1>7 DEF vars, IInv, TypeOK, Progress, SettingsAreUsed, AllUsableInOrder, UsableOfChannel,
              UsableOfBlock, Found, Ignored, ListedAt
<1> QED
  BY <1>1, <1>2, <1>3, <1>4, <1>5, <1>6, <1>7 DEF Next

LEMMA InvariantHolds == Spec => []IInv
  BY InitInvariant, StepInvariant, PTL DEF Spec

-------------------------------------------------------------------------------
\* The variables have their types, whatever the configurations are.
THEOREM TypeCorrect == Spec => []TypeOK
<1>1. IInv => TypeOK
  BY DEF IInv
<1> QED
  BY <1>1, InvariantHolds, PTL

\* A transactor has all usable orderers of the channel, or else all targets that
\* are not ignored, in their order, for configurations of any length.
THEOREM UsableOrderers == Spec => []AllUsableInOrder
<1>1. IInv => AllUsableInOrder
  BY DEF IInv
<1> QED
  BY <1>1, InvariantHolds, PTL

\* No orderer is dialled bare that the endpoint configuration knows.
THEOREM SettingsUsed == Spec => []SettingsAreUsed
<1>1. IInv => SettingsAreUsed
  BY DEF IInv
<1> QED
  BY <1>1, InvariantHolds, PTL
==============================================================================
