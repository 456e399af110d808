------------------------------- MODULE Options -------------------------------
(***************************************************************************)
(* The options of a request (pkg/client/channel/api.go) and what Client    *)
(* makes of them before it sends anything (chclient.go): DelegateQuery,    *)
(* DelegateEndorseAndCreateTxnPayload and BroadcastEnvelope each append    *)
(* two default options to the caller's, the options are applied in order   *)
(* to invoke.Opts, and a context with a deadline is created.               *)
(*                                                                         *)
(* A Go slice may have room for more elements in its array.  An append     *)
(* then writes there instead of making a copy, and calls at the same time  *)
(* that were given the same slice write to the same place.                 *)
(***************************************************************************)
EXTENDS Naturals, Sequences

CONSTANTS
  Calls,      \* the calls on a client
  Slices,     \* the option slices of the callers
  Arguments,  \* what may be called how: see below
  Peers,      \* the peers, for targets
  NilPeer,    \* a nil among the targets
  Filters,    \* the target filters a caller may give
  NoFilter,   \* no target filter
  Values,     \* sorters, retry options, ... a caller may give
  Left,       \* the time each value has left if it is a context given as the parent
  Unset,      \* the zero value of an option
  Configured  \* the timeouts of the endpoint configuration

\* The types of timeouts, which are also the kinds of calls: both delegate calls
\* have the Query timeout by default.
Types == {"query", "execute"}

\* Fields of invoke.Opts that an option sets without looking.
Fields == {"sorter", "retry", "beforeRetry", "parent", "ccFilter"}

\* The target filter that a kind of call has by default: ChaincodeQuery peers, or
\* endorsing ones.
DefaultFilters == {"chaincodeQuery", "endorsingPeer"}

AnOption ==
  [sets : {"targets", "endpoints"}, to : SUBSET (Peers \cup {NilPeer})]
    \cup [sets : {"filter"}, to : Filters \cup {NoFilter}]
    \cup [sets : Fields, to : Values]
    \cup [sets : {"timeout"}, of : Types, to : Nat]
DefaultOption ==
  [sets : {"defaultTimeout"}, of : Types] \cup [sets : {"defaultFilter"}, to : DefaultFilters]

ASSUME ConfiguredTimeouts == Configured \in [Types -> Nat \ {0}]
ASSUME ParentsEnd == Left \in [Values -> Nat]
ASSUME NilPeerIsNone == NilPeer \notin Peers

\* The slice of each call, what is in each slice and how much room it has, and
\* the method that is called.
ASSUME ArgumentsAreCalls ==
  \A a \in Arguments :
    /\ a.slice \in [Calls -> Slices]
    /\ a.room \in [Slices -> Nat]
    /\ a.method \in [Calls -> {"query", "endorse", "broadcast"}]
    /\ \A sl \in Slices : a.given[sl] \in Seq(AnOption)

VARIABLES
  arg,        \* the arguments of the calls
  array,      \* what is in the room of each slice
  copied,     \* the call's slice is a copy
  extra,      \* the copy's elements after those that were given
  count,      \* how many options the call appended
  opts,       \* its invoke.Opts
  read,       \* how many options it applied
  stage,      \* where it is
  deadline    \* the time the context it created has

vars == <<arg, array, copied, extra, count, opts, read, stage, deadline>>

Given(c) == arg.given[arg.slice[c]]
Room(c) == arg.room[arg.slice[c]]

DefaultTimeout(c) ==
  [sets |-> "defaultTimeout", of |-> IF arg.method[c] = "broadcast" THEN "execute" ELSE "query"]
DefaultFilter(c) ==
  [sets |-> "defaultFilter", to |-> IF arg.method[c] = "query" THEN "chaincodeQuery"
                                    ELSE "endorsingPeer"]

\* The option at a place of the slice the call has in its hands.
OptionAt(c, i) ==
  IF i <= Len(Given(c)) THEN Given(c)[i]
  ELSE IF copied[c] THEN extra[c][i - Len(Given(c))]
  ELSE array[arg.slice[c]][i - Len(Given(c))]

NoOpts ==
  [targets |-> {}, filter |-> NoFilter, plain |-> [f \in Fields |-> Unset],
   timeouts |-> [t \in Types |-> 0]]

Init ==
  /\ arg \in Arguments
  /\ array = [sl \in Slices |-> [k \in 1 .. 2 |-> Unset]]
  /\ copied = [c \in Calls |-> FALSE]
  /\ extra = [c \in Calls |-> <<>>]
  /\ count = [c \in Calls |-> 0]
  /\ opts = [c \in Calls |-> NoOpts]
  /\ read = [c \in Calls |-> 0]
  /\ stage = [c \in Calls |-> "appending"]
  /\ deadline = [c \in Calls |-> 0]

-------------------------------------------------------------------------------
(* Slips in this code, each of which a property below must notice.           *)

\* Targets are not checked.
TargetsUnchecked(c, targets) ==
  /\ opts' = [opts EXCEPT ![c].targets = targets]
  /\ UNCHANGED stage

\* The default replaces a timeout that was given.
SetDefaultTimeoutAlways(c, t) ==
  /\ opts' = [opts EXCEPT ![c].timeouts[t] = Configured[t]]
  /\ UNCHANGED stage

\* The default filter is set whether or not there are targets.
SetDefaultFilterAlways(c, f) ==
  /\ opts' = [opts EXCEPT ![c].filter = IF opts[c].filter = NoFilter THEN f ELSE @]
  /\ UNCHANGED stage

\* The context runs with the timeout of the kind of the call.
DeadlineByMethod(c) ==
  opts[c].timeouts[IF arg.method[c] = "broadcast" THEN "execute" ELSE "query"]

-------------------------------------------------------------------------------
\* append(options, o): in place if there is room, or else to a copy of what the
\* slice has at that time.
AppendOption(c, o) ==
  LET sl == arg.slice[c]
      k == count[c] + 1
  IN /\ count' = [count EXCEPT ![c] = k]
     /\ IF ~ copied[c] /\ k <= Room(c)
        THEN /\ array' = [array EXCEPT ![sl][k] = o]
             /\ UNCHANGED <<copied, extra>>
        ELSE /\ copied' = [copied EXCEPT ![c] = TRUE]
             /\ extra' = [extra EXCEPT
                  ![c] = Append(IF copied[c] THEN @ ELSE SubSeq(array[sl], 1, count[c]), o)]
             /\ UNCHANGED array

AppendDefaultTimeout(c) ==
  /\ stage[c] = "appending"
  /\ count[c] = 0
  /\ AppendOption(c, DefaultTimeout(c))
  /\ UNCHANGED <<arg, opts, read, stage, deadline>>

AppendDefaultFilter(c) ==
  /\ stage[c] = "appending"
  /\ count[c] = 1
  /\ AppendOption(c, DefaultFilter(c))
  /\ stage' = [stage EXCEPT ![c] = "reading"]
  /\ UNCHANGED <<arg, opts, read, deadline>>

(* What the options do.                                                      *)

Reject(c) ==
  /\ stage' = [stage EXCEPT ![c] = "failed"]
  /\ UNCHANGED opts

WithTargets(c, targets) ==
  IF NilPeer \in targets
  THEN Reject(c)
  ELSE /\ opts' = [opts EXCEPT ![c].targets = targets]
       /\ UNCHANGED stage

\* The name or URL of a target may have no configuration, and a peer may not be
\* created from it.
WithTargetEndpoints(c, targets) == WithTargets(c, targets) \/ Reject(c)

SetDefaultTimeout(c, t) ==
  /\ opts' = [opts EXCEPT ![c].timeouts[t] = IF @ = 0 THEN Configured[t] ELSE @]
  /\ UNCHANGED stage

SetDefaultFilter(c, f) ==
  /\ opts' = [opts EXCEPT ![c].filter =
                IF opts[c].targets = {} /\ opts[c].filter = NoFilter THEN f ELSE @]
  /\ UNCHANGED stage

SetField(c, o) ==
  /\ opts' = IF o.sets = "filter" THEN [opts EXCEPT ![c].filter = o.to]
             ELSE IF o.sets = "timeout" THEN [opts EXCEPT ![c].timeouts[o.of] = o.to]
             ELSE [opts EXCEPT ![c].plain[o.sets] = o.to]
  /\ UNCHANGED stage

Apply(c, o) ==
  CASE o.sets = "targets" -> WithTargets(c, o.to)
    [] o.sets = "endpoints" -> WithTargetEndpoints(c, o.to)
    [] o.sets = "defaultTimeout" -> SetDefaultTimeout(c, o.of)
    [] o.sets = "defaultFilter" -> SetDefaultFilter(c, o.to)
    [] OTHER -> SetField(c, o)

\* The next option, in prepareOptsFromOptions.
ReadOption(c) ==
  /\ stage[c] = "reading"
  /\ read[c] < Len(Given(c)) + 2
  /\ Apply(c, OptionAt(c, read[c] + 1))
  /\ read' = [read EXCEPT ![c] = @ + 1]
  /\ UNCHANGED <<arg, array, copied, extra, count, deadline>>

Deadline(c) ==
  IF opts[c].timeouts["execute"] = 0 THEN Configured["execute"] ELSE opts[c].timeouts["execute"]

\* A context ends with its parent, if it has one, or when its own time is up.
Sooner(limit, parent) ==
  IF parent \in Values /\ Left[parent] < limit THEN Left[parent] ELSE limit

\* createReqContext
CreateReqContext(c) ==
  /\ stage[c] = "reading"
  /\ read[c] = Len(Given(c)) + 2
  /\ deadline' = [deadline EXCEPT ![c] = Sooner(Deadline(c), opts[c].plain["parent"])]
  /\ opts' = [opts EXCEPT ![c].timeouts["execute"] = Deadline(c)]
  /\ stage' = [stage EXCEPT ![c] = "ready"]
  /\ UNCHANGED <<arg, array, copied, extra, count, read>>

Next ==
  \E c \in Calls :
    \/ AppendDefaultTimeout(c)
    \/ AppendDefaultFilter(c)
    \/ ReadOption(c)
    \/ CreateReqContext(c)

Spec == Init /\ [][Next]_vars

-------------------------------------------------------------------------------
\* The variables have their types; in particular, no nil gets among the targets
\* (WithTargets).
TypeOK ==
  /\ arg \in Arguments
  /\ array \in [Slices -> [1 .. 2 -> DefaultOption \cup {Unset}]]
  /\ copied \in [Calls -> BOOLEAN]
  /\ extra \in [Calls -> Seq(DefaultOption)]
  /\ count \in [Calls -> 0 .. 2]
  /\ opts \in [Calls -> [targets : SUBSET Peers,
                         filter : Filters \cup {NoFilter} \cup DefaultFilters,
                         plain : [Fields -> Values \cup {Unset}],
                         timeouts : [Types -> Nat]]]
  /\ read \in [Calls -> Nat]
  /\ stage \in [Calls -> {"appending", "reading", "ready", "failed"}]
  /\ deadline \in [Calls -> Nat]

\* The places of the given options of some kinds, and what the last of those at
\* some places sets, or else the default.
Places(c, kinds) == {i \in DOMAIN Given(c) : Given(c)[i].sets \in kinds}
TimeoutPlaces(c, t) == {i \in Places(c, {"timeout"}) : Given(c)[i].of = t}
LastOf(c, P, default) ==
  IF P = {} THEN default ELSE Given(c)[CHOOSE i \in P : \A j \in P : j <= i].to

GivenTargets(c) == LastOf(c, Places(c, {"targets", "endpoints"}), {})
GivenFilter(c) == LastOf(c, Places(c, {"filter"}), NoFilter)
GivenTimeout(c, t) == LastOf(c, TimeoutPlaces(c, t), 0)
GivenField(c, f) == LastOf(c, Places(c, {f}), Unset)

\* However many options there are, and in whatever order, the last word on each
\* is the caller's; only timeouts left at zero get a configured value, although
\* the defaults are options like the caller's and are applied after them
\* (addDefaultTimeout, prepareOptsFromOptions).
GivenOptionsPrevail ==
  \A c \in Calls : stage[c] = "ready" =>
    /\ opts[c].targets = GivenTargets(c)
    /\ GivenFilter(c) # NoFilter => opts[c].filter = GivenFilter(c)
    /\ \A f \in Fields : opts[c].plain[f] = GivenField(c, f)
    /\ \A t \in Types :
         IF GivenTimeout(c, t) # 0 THEN opts[c].timeouts[t] = GivenTimeout(c, t)
         ELSE opts[c].timeouts[t] \in {0, Configured[t]}

\* A request with neither targets nor a filter of the caller's gets the filter
\* of its own method; one with either of them gets none (addDefaultTargetFilter).
FilterIsPerRequest ==
  \A c \in Calls : stage[c] = "ready" /\ GivenFilter(c) = NoFilter =>
    opts[c].filter = IF GivenTargets(c) = {} THEN DefaultFilter(c).to ELSE NoFilter

\* The Execute timeout of a call: the one that was given, or the configured one.
ExecuteTimeout(c) ==
  IF GivenTimeout(c, "execute") # 0 THEN GivenTimeout(c, "execute") ELSE Configured["execute"]

\* Every request has a deadline: the end of its Execute timeout or of its parent
\* context, the last one given, whichever comes first.  The Query timeout, given or
\* not, does not move it, not even for a query; and handlers and transactors, which
\* find the Execute timeout among the overrides of the context, find it as it was
\* given or configured even if the parent ends before (createReqContext).
DeadlineIsEarliest ==
  \A c \in Calls : stage[c] = "ready" =>
    /\ deadline[c] = Sooner(ExecuteTimeout(c), GivenField(c, "parent"))
    /\ opts[c].timeouts["execute"] = ExecuteTimeout(c)
==============================================================================
