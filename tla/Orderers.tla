------------------------------- MODULE Orderers -------------------------------
(***************************************************************************)
(* NewTransactor (pkg/fab/channel/transactor.go), which the channel        *)
(* service of pkg/fabsdk/provider/chpvdr calls for each request: the       *)
(* orderers a transactor sends envelopes to, the list of Broadcast.tla.    *)
(*                                                                         *)
(* They are those the endpoint configuration names for the channel.  If    *)
(* none of these is usable, they are the targets of the channel's own      *)
(* configuration, each with the settings the endpoint configuration has    *)
(* for its address or its name, or else with none.  The endpoint           *)
(* configuration and the creation of an orderer are external.              *)
(***************************************************************************)
EXTENDS Naturals, Sequences

CONSTANTS
  Keys,       \* names and addresses of orderers
  Lower,      \* strings.ToLower on Keys
  URLs,       \* the URLs in orderer configurations
  Address,    \* endpoint.ToAddress: the address in a URL
  NoURL,      \* the lookup found no configuration
  Envs        \* the environments

\* An environment: the names the endpoint configuration lists for the channel,
\* the targets of the channel's own configuration, the URLs of all orderers in
\* the endpoint configuration, and what it says of a name when it is asked.
Answers == [url : URLs \cup {NoURL}, ignore : BOOLEAN]
ASSUME KeysAreLowered == Lower \in [Keys -> Keys]
ASSUME URLsHaveAddresses == Address \in [URLs -> Keys]
ASSUME NoURLIsNone == NoURL \notin URLs
ASSUME EnvsAreConfigs ==
  Envs \subseteq [channel : Seq(Keys), block : Seq(Keys), listed : Seq(URLs),
                  lookup : [Keys -> Answers]]

VARIABLES
  env,        \* the environment of the call
  stage,      \* where the call is
  next,       \* the entry of the list that is looked at next
  orderers,   \* the orderers created so far; "entry" is auxiliary
  err         \* the error the call returned

vars == <<env, stage, next, orderers, err>>

\* The settings an orderer is created with: a configuration that was found, or
\* nothing but the target itself.
Known(url) == [known |-> TRUE, url |-> url]
Bare(target) == [known |-> FALSE, url |-> target]
Settings == [known : {TRUE}, url : URLs] \cup [known : {FALSE}, url : Keys]

Found(key) == env.lookup[key].url # NoURL
Ignored(key) == env.lookup[key].ignore

\* The entries of the dictionary by address: a later configuration replaces an
\* earlier one with its address.
ListedAt(target) == {j \in DOMAIN env.listed : Address[env.listed[j]] = target}
LastListed(target) == CHOOSE j \in ListedAt(target) : \A k \in ListedAt(target) : k <= j

Init ==
  /\ env \in Envs
  /\ stage = "start"
  /\ next = 1
  /\ orderers = <<>>
  /\ err = "none"

Fail(why) ==
  /\ err' = why
  /\ stage' = "returned"
  /\ orderers' = <<>>
  /\ UNCHANGED <<env, next>>

Skip ==
  /\ next' = next + 1
  /\ UNCHANGED <<env, stage, orderers, err>>

-------------------------------------------------------------------------------
(* Slips in this code, each of which a property below must notice.           *)

\* The target is looked up as it is spelt.
BlockSettingsAsSpelt(target) ==
  IF ListedAt(target) # {} THEN Known(env.listed[LastListed(target)])
  ELSE IF Found(target) THEN Known(env.lookup[target].url)
  ELSE Bare(target)

\* The targets of the channel's configuration are added to the orderers.
EndOfChannelGoingOn ==
  /\ stage = "channel"
  /\ next > Len(env.channel)
  /\ stage' = "block"
  /\ next' = 1
  /\ UNCHANGED <<env, orderers, err>>

\* What was found is not looked at.
UsableOfChannelUnfound ==
  {i \in DOMAIN env.channel : ~ Ignored(env.channel[i])}

\* An orderer that cannot be created is left out.
CreateOrSkip(settings) ==
  \/ /\ orderers' = Append(orderers, [settings |-> settings, entry |-> next])
     /\ next' = next + 1
     /\ UNCHANGED <<env, stage, err>>
  \/ Skip

-------------------------------------------------------------------------------
\* CreateOrdererFromConfig
Create(settings) ==
  \/ /\ orderers' = Append(orderers, [settings |-> settings, entry |-> next])
     /\ next' = next + 1
     /\ UNCHANGED <<env, stage, err>>
  \/ Fail("create")

\* ChannelService.Transactor has no channel configuration to go by.
NoChannelConfig ==
  /\ stage = "start"
  /\ Fail("config")

NoClientContext ==
  /\ stage = "start"
  /\ Fail("context")

Start ==
  /\ stage = "start"
  /\ stage' = "channel"
  /\ UNCHANGED <<env, next, orderers, err>>

(* orderersFromChannel                                                       *)
UsableOfChannel ==
  {i \in DOMAIN env.channel : Found(env.channel[i]) /\ ~ Ignored(env.channel[i])}

ChannelOrderer ==
  /\ stage = "channel"
  /\ next <= Len(env.channel)
  /\ IF next \in UsableOfChannel
     THEN Create(Known(env.lookup[env.channel[next]].url))
     ELSE Skip

EndOfChannel ==
  /\ stage = "channel"
  /\ next > Len(env.channel)
  /\ IF orderers # <<>>
     THEN stage' = "returned" /\ UNCHANGED next
     ELSE stage' = "block" /\ next' = 1
  /\ UNCHANGED <<env, orderers, err>>

(* orderersFromChannelCfg, when the channel has none.                        *)
UsableOfBlock ==
  {i \in DOMAIN env.block :
     ListedAt(env.block[i]) = {} => ~ Ignored(Lower[env.block[i]])}

BlockSettings(target) ==
  IF ListedAt(target) # {} THEN Known(env.listed[LastListed(target)])
  ELSE IF Found(Lower[target]) THEN Known(env.lookup[Lower[target]].url)
  ELSE Bare(target)

BlockOrderer ==
  /\ stage = "block"
  /\ next <= Len(env.block)
  /\ IF next \in UsableOfBlock THEN Create(BlockSettings(env.block[next])) ELSE Skip

EndOfBlock ==
  /\ stage = "block"
  /\ next > Len(env.block)
  /\ stage' = "returned"
  /\ UNCHANGED <<env, next, orderers, err>>

Next ==
  \/ NoChannelConfig \/ NoClientContext \/ Start
  \/ ChannelOrderer \/ EndOfChannel \/ BlockOrderer \/ EndOfBlock

Spec == Init /\ [][Next]_vars

-------------------------------------------------------------------------------
\* The variables have their types (NewTransactor and what it calls).
TypeOK ==
  /\ env \in Envs
  /\ stage \in {"start", "channel", "block", "returned"}
  /\ next \in Nat \ {0}
  /\ orderers \in Seq([settings : Settings, entry : Nat \ {0}])
  /\ err \in {"none", "config", "context", "create"}

\* The orderers are those of the chosen entries before n, in their order.
AreEntries(os, chosen, n) ==
  /\ \A k \in DOMAIN os : os[k].entry < n /\ os[k].entry \in chosen
  /\ \A j, k \in DOMAIN os : j < k => os[j].entry < os[k].entry
  /\ \A i \in chosen : i < n => \E k \in DOMAIN os : os[k].entry = i

\* A transactor that is made has all usable orderers of the channel, in the
\* order of the endpoint configuration, and only these; if there are none, all
\* targets of the channel's configuration that are not ignored.  So its list is
\* empty, and each broadcast bound to fail, only if there is no such target; and
\* one orderer that cannot be created never makes the list quietly shorter
\* (orderersFromChannelCfg, orderersFromChannel).
AllUsableInOrder ==
  (stage = "returned" /\ err = "none") =>
    IF UsableOfChannel # {}
    THEN AreEntries(orderers, UsableOfChannel, Len(env.channel) + 1)
    ELSE AreEntries(orderers, UsableOfBlock, Len(env.block) + 1)

\* An orderer is dialled with nothing but its address, without certificates or
\* connection options, only if the endpoint configuration has neither an entry
\* with that address nor one under its name in lower case
\* (orderersFromChannelCfg, orderersByTarget).
SettingsAreUsed ==
  \A k \in DOMAIN orderers : ~ orderers[k].settings.known =>
    /\ \A j \in DOMAIN env.listed : Address[env.listed[j]] # orderers[k].settings.url
    /\ env.lookup[Lower[orderers[k].settings.url]].url = NoURL
==============================================================================
